----------------------------- MODULE ShardQuery -----------------------------
(***************************************************************************)
(* One history or search request of daemon/query.rs over all the shards a  *)
(* chat may be in, while WeChat goes on writing.                           *)
(*                                                                         *)
(* find_msg_shards judges every shard in turn (skipped for its mtime,      *)
(* known not to have the chat, or to be scanned), starts the scans, which  *)
(* share Permits, joins them, and q_history then reads the shards found.   *)
(* q_search lists the tables of every shard itself and starts one scan for *)
(* each, with other rules for errors.                                      *)
(*                                                                         *)
(* A scan and a read see one committed state of their shard (MergedView).  *)
(* What is believed is current (RouteCacheProofs!BelievedIsCurrent);       *)
(* what happens where metadata lags is the subject of RouteCache.          *)
(***************************************************************************)
EXTENDS Integers, FiniteSets, Sequences

CONSTANTS
    NShards,     \* message_1.db .. message_NShards.db, in the order they are made
    Known,       \* those the daemon has a key for (names.msg_db_keys)
    Permits,     \* MAX_CONCURRENT_SHARD_SCANS
    Slack,       \* SHARD_FRESHNESS_SLACK_SECS
    MaxSkew,     \* how far a create_time is ahead of the mtime of its write
    NoBound,     \* None
    Kinds, Limits, Offsets,
    MayFail,     \* a scan or a read may fail
    MayDrop,     \* find_msg_shards may get no handle, or no MAX(create_time), of a shard
    MaxClock, MaxMsg        \* bounds

ASSUME ShardQueryAssumption ==
    /\ NShards \in Nat /\ Known \in 1..NShards
    /\ Permits \in Nat \ {0}
    /\ Slack \in Nat /\ MaxSkew \in Nat /\ MaxSkew <= Slack
    /\ Kinds \subseteq {"history", "search"}
    /\ MayDrop \in BOOLEAN
    /\ Limits \subseteq Nat \ {0} /\ Offsets \subseteq Nat
    /\ MaxClock \in Nat \ {0} /\ MaxMsg \in Nat

Shard == 1..NShards
Message == [id : 1..MaxMsg, time : 1..(MaxClock + MaxSkew)]

VARIABLES
    clock,
    cur,         \* the shard the chat is stored in now
    store,       \* the chat's messages in each shard
    mtime,       \* of each shard
    pc, kind, since, limit, offset,     \* the request
    todo,        \* the next shard to judge, or the number of shards read
    task,        \* of each shard: its scan
    found,       \* of each shard: what its scan has brought
    hits,        \* the shards that have the chat
    skipped,     \* some shard was skipped for its mtime
    rows,        \* the messages collected
    start, lost, \* history: what was stored when the request came; an error was passed over
    reply

wechat == <<clock, cur, store, mtime>>
request == <<kind, since, limit, offset, start>>
vars == <<wechat, request, pc, todo, task, found, hits, skipped, rows, lost, reply>>

Stored == UNION {store[s] : s \in Shard}
NoReply == [messages |-> {}, unknown |-> FALSE]
Nothing == [s \in Shard |-> {}]

Init ==
    /\ clock = 1 /\ cur = 1
    /\ store = Nothing
    /\ mtime = [s \in Shard |-> 1]
    /\ pc = "idle" /\ kind \in Kinds /\ since = NoBound
    /\ limit \in Limits /\ offset \in Offsets
    /\ todo = 1 /\ task = [s \in Shard |-> "none"] /\ found = Nothing
    /\ hits = <<>> /\ skipped = FALSE /\ rows = {}
    /\ start = {} /\ lost = FALSE /\ reply = NoReply

-----------------------------------------------------------------------------
(* WeChat                                                                  *)
Tick == /\ clock < MaxClock
        /\ clock' = clock + 1
        /\ UNCHANGED <<cur, store, mtime, request, pc, todo, task, found, hits, skipped,
                       rows, lost, reply>>

Deliver(d) ==
    /\ Cardinality(Stored) < MaxMsg
    /\ store' = [store EXCEPT ![cur] =
                    @ \cup {[id |-> Cardinality(Stored) + 1, time |-> clock + d]}]
    /\ mtime' = [mtime EXCEPT ![cur] = clock]
    /\ UNCHANGED <<clock, cur, request, pc, todo, task, found, hits, skipped, rows, lost, reply>>

(* The chat moves to the next shard, which may be one made after init.     *)
Roll == /\ cur < NShards
        /\ cur' = cur + 1
        /\ UNCHANGED <<clock, store, mtime, request, pc, todo, task, found, hits, skipped,
                       rows, lost, reply>>

WeChat == Tick \/ Roll \/ \E d \in 0..MaxSkew : Deliver(d)

-----------------------------------------------------------------------------
Begin(f) ==
    /\ pc = "idle"
    /\ pc' = "judge"
    /\ since' = f
    /\ start' = Stored
    /\ UNCHANGED <<wechat, kind, limit, offset, todo, task, found, hits, skipped, rows,
                   lost, reply>>

Matching(M) == {m \in M : since = NoBound \/ m.time >= since}
TimesIn(M) == {m.time : m \in M}

(* Mutant of Skippable: without the slack.                                  *)
SkippableAtOnce(s) == since # NoBound /\ mtime[s] < since
Skippable(s) == since # NoBound /\ mtime[s] + Slack < since

Judging(s) == pc = "judge" /\ todo = s /\ s <= Known /\ todo' = todo + 1
KeepRequest == UNCHANGED <<wechat, request, reply>>

JudgeSkip(s) ==
    /\ Judging(s) /\ kind = "history" /\ Skippable(s)
    /\ skipped' = TRUE
    /\ KeepRequest /\ UNCHANGED <<pc, task, found, hits, rows, lost>>

(* A believed route says that the chat is not there.                       *)
JudgeAbsent(s) ==
    /\ Judging(s) /\ kind = "history" /\ ~Skippable(s) /\ store[s] = {}
    /\ KeepRequest /\ UNCHANGED <<pc, task, found, hits, skipped, rows, lost>>

JudgeScan(s) ==
    /\ Judging(s) /\ kind = "history" /\ ~Skippable(s)
    /\ task' = [task EXCEPT ![s] = "queued"]
    /\ KeepRequest /\ UNCHANGED <<pc, found, hits, skipped, rows, lost>>

(* hot_conn_handle_with_snapshot returns an error: the shard is passed over. *)
JudgeNoHandle(s) ==
    /\ MayDrop
    /\ Judging(s) /\ kind = "history" /\ ~Skippable(s)
    /\ lost' = TRUE
    /\ KeepRequest /\ UNCHANGED <<pc, task, found, hits, skipped, rows>>

(* q_search lists the tables of the shard on a connection of its own.      *)
ListTables(s) ==
    /\ Judging(s) /\ kind = "search"
    /\ task' = IF store[s] # {} THEN [task EXCEPT ![s] = "listed"] ELSE task
    /\ KeepRequest /\ UNCHANGED <<pc, found, hits, skipped, rows, lost>>

ListFails(s) ==
    /\ MayFail
    /\ Judging(s) /\ kind = "search"
    /\ lost' = TRUE
    /\ KeepRequest /\ UNCHANGED <<pc, task, found, hits, skipped, rows>>

(* The loop over the shards is done; q_search starts its scans only now.   *)
Judged ==
    /\ pc = "judge" /\ todo > Known
    /\ pc' = "join"
    /\ task' = [s \in Shard |-> IF task[s] = "listed" THEN "queued" ELSE task[s]]
    /\ KeepRequest /\ UNCHANGED <<todo, found, hits, skipped, rows, lost>>

-----------------------------------------------------------------------------
(* The scans.  A scan keeps its permit for a second attempt.               *)
Busy == {s \in Shard : task[s] \in {"running", "again"}}

(* Mutant of Acquire: every scan runs at once.                              *)
AcquireAlways(s) ==
    /\ pc \in {"judge", "join"} /\ task[s] = "queued"
    /\ task' = [task EXCEPT ![s] = "running"]
    /\ KeepRequest /\ UNCHANGED <<pc, todo, found, hits, skipped, rows, lost>>
Acquire(s) ==
    /\ pc \in {"judge", "join"} /\ task[s] = "queued"
    /\ Cardinality(Busy) < Permits
    /\ task' = [task EXCEPT ![s] = "running"]
    /\ KeepRequest /\ UNCHANGED <<pc, todo, found, hits, skipped, rows, lost>>

(* ORDER BY create_time DESC LIMIT n.                                       *)
Before(x, m) == x.time > m.time \/ (x.time = m.time /\ x.id > m.id)
Top(M, n) == {m \in M : Cardinality({x \in M : Before(x, m)}) < n}

ScanDone(s) ==
    /\ task[s] \in {"running", "again"}
    /\ task' = [task EXCEPT ![s] = "done"]
    /\ found' = [found EXCEPT ![s] = IF kind = "history" THEN Top(store[s], 1)
                                     ELSE Top(store[s], limit * 3)]
    /\ KeepRequest /\ UNCHANGED <<pc, todo, hits, skipped, rows, lost>>

(* max_create_time turns an error of its statements into None, as if the    *)
(* chat had no messages in the shard.                                       *)
MaxTimeFails(s) ==
    /\ MayDrop /\ kind = "history" /\ s \in Busy
    /\ task' = [task EXCEPT ![s] = "done"]
    /\ found' = [found EXCEPT ![s] = {}]
    /\ lost' = TRUE
    /\ KeepRequest /\ UNCHANGED <<pc, todo, hits, skipped, rows>>

(* Mutant of Attempts: a scan is repeated until it succeeds.                *)
AttemptsForever(t) == IF t = "running" THEN "again" ELSE "running"
(* find_msg_shards repeats a failed scan once.                              *)
Attempts(t) == IF kind = "history" /\ t = "running" THEN "again" ELSE "failed"

ScanFails(s) ==
    /\ MayFail /\ s \in Busy
    /\ task' = [task EXCEPT ![s] = Attempts(@)]
    /\ KeepRequest /\ UNCHANGED <<pc, todo, found, hits, skipped, rows, lost>>

-----------------------------------------------------------------------------
(* Mutant of JoinDone: the result stays in the set.                         *)
JoinAgain(s) ==
    /\ pc = "join" /\ task[s] = "done"
    /\ hits' = IF found[s] = {} THEN hits ELSE Append(hits, s)
    /\ KeepRequest /\ UNCHANGED <<pc, todo, task, found, skipped, rows, lost>>
(* join_next: the scans in the order they end.                             *)
JoinDone(s) ==
    /\ pc = "join" /\ task[s] = "done"
    /\ task' = [task EXCEPT ![s] = "joined"]
    /\ \/ /\ kind = "history"
          /\ hits' = IF found[s] = {} THEN hits ELSE Append(hits, s)
          /\ UNCHANGED rows
       \/ /\ kind = "search"
          /\ rows' = rows \cup found[s]
          /\ UNCHANGED hits
    /\ KeepRequest /\ UNCHANGED <<pc, todo, found, skipped, lost>>

(* Mutant of JoinFailed: a shard that cannot be read is left out.           *)
JoinSkips(s) ==
    /\ pc = "join" /\ task[s] = "failed"
    /\ task' = [task EXCEPT ![s] = "joined"]
    /\ pc' = pc
    /\ lost' = (kind = "search")
    /\ KeepRequest /\ UNCHANGED <<todo, found, hits, skipped, rows>>
(* The first error is the answer of find_msg_shards and its other scans are *)
(* aborted; q_search goes on without the shard.                             *)
JoinFailed(s) ==
    /\ pc = "join" /\ task[s] = "failed"
    /\ \/ /\ kind = "history"
          /\ pc' = "error"
          /\ task' = [r \in Shard |-> IF task[r] = "queued" THEN "none" ELSE task[r]]
          /\ UNCHANGED lost
       \/ /\ kind = "search"
          /\ task' = [task EXCEPT ![s] = "joined"]
          /\ lost' = TRUE
          /\ UNCHANGED pc
    /\ KeepRequest /\ UNCHANGED <<todo, found, hits, skipped, rows>>

AllJoined == pc = "join" /\ \A s \in Shard : task[s] \in {"none", "joined"}

(* sort_by_key(Reverse(max_ts)), a stable sort.                             *)
MaxTime(s) == CHOOSE t \in TimesIn(found[s]) : \A u \in TimesIn(found[s]) : u <= t
NewestFirst(h) ==
    LET Rank(i) == Cardinality({j \in DOMAIN h :
                       \/ MaxTime(h[j]) > MaxTime(h[i])
                       \/ MaxTime(h[j]) = MaxTime(h[i]) /\ j < i})
    IN  [k \in DOMAIN h |-> h[CHOOSE i \in DOMAIN h : Rank(i) = k - 1]]

(* No shard has the chat: an empty answer only if a shard was skipped.     *)
NoneFound ==
    /\ AllJoined /\ kind = "history" /\ hits = <<>>
    /\ pc' = IF skipped THEN "page" ELSE "error"
    /\ KeepRequest /\ UNCHANGED <<todo, task, found, hits, skipped, rows, lost>>

SomeFound ==
    /\ AllJoined /\ (kind = "search" \/ hits # <<>>)
    /\ pc' = IF kind = "history" THEN "read" ELSE "page"
    /\ hits' = NewestFirst(hits)
    /\ todo' = 1
    /\ KeepRequest /\ UNCHANGED <<task, found, skipped, rows, lost>>

-----------------------------------------------------------------------------
(* Mutant of PerDbCap: only the page itself is asked of every shard.        *)
PerDbCapLimit == limit
PerDbCap == offset + limit

ReadShard ==
    /\ pc = "read" /\ todo <= Len(hits)
    /\ rows' = rows \cup Top(Matching(store[hits[todo]]), PerDbCap)
    /\ todo' = todo + 1
    /\ KeepRequest /\ UNCHANGED <<pc, task, found, hits, skipped, lost>>

ReadFails ==
    /\ MayFail
    /\ pc = "read" /\ todo <= Len(hits)
    /\ pc' = "error"
    /\ KeepRequest /\ UNCHANGED <<todo, task, found, hits, skipped, rows, lost>>

ReadAll ==
    /\ pc = "read" /\ todo > Len(hits)
    /\ pc' = "page"
    /\ KeepRequest /\ UNCHANGED <<todo, task, found, hits, skipped, rows, lost>>

(* skip(offset), take(limit); a search has no offset.                       *)
Page(M) ==
    IF kind = "history" THEN Top(M, offset + limit) \ Top(M, offset) ELSE Top(M, limit)

(* discover_unknown_shards: a shard file the daemon has no key for.        *)
UnknownShards == cur > Known \/ \E s \in Shard : s > Known /\ store[s] # {}

(* Mutant of Reply: the warning is decided when the request came.           *)
ReplyNoWarning ==
    /\ pc = "page"
    /\ pc' = "replied"
    /\ reply' = [messages |-> Page(Matching(rows)), unknown |-> FALSE]
    /\ UNCHANGED <<wechat, request, todo, task, found, hits, skipped, rows, lost>>
Reply ==
    /\ pc = "page"
    /\ pc' = "replied"
    /\ reply' = [messages |-> Page(Matching(rows)), unknown |-> UnknownShards]
    /\ UNCHANGED <<wechat, request, todo, task, found, hits, skipped, rows, lost>>

-----------------------------------------------------------------------------
Scan(s) == Acquire(s) \/ ScanDone(s) \/ ScanFails(s) \/ MaxTimeFails(s)
Judge(s) == \/ JudgeSkip(s) \/ JudgeAbsent(s) \/ JudgeNoHandle(s) \/ JudgeScan(s)
            \/ ListTables(s) \/ ListFails(s)
Collect == \/ \E s \in Shard : JoinDone(s) \/ JoinFailed(s)
           \/ NoneFound \/ SomeFound \/ ReadShard \/ ReadFails \/ ReadAll \/ Reply

Next == \/ WeChat
        \/ \E f \in {NoBound} \cup (1..(MaxClock + MaxSkew)) : Begin(f)
        \/ \E s \in Shard : Judge(s) \/ Scan(s)
        \/ Judged
        \/ Collect

Spec == Init /\ [][Next]_vars

(* The daemon's threads run; neither WeChat nor the user has to do anything. *)
Fairness == /\ WF_vars(Judged) /\ WF_vars(Collect)
            /\ \A s \in Shard : WF_vars(Judge(s)) /\ WF_vars(Scan(s))
FairSpec == Spec /\ Fairness

-----------------------------------------------------------------------------
TypeOK ==
    /\ clock \in 1..MaxClock /\ cur \in Shard
    /\ store \in [Shard -> SUBSET Message]
    /\ mtime \in [Shard -> 1..MaxClock]
    /\ pc \in {"idle", "judge", "join", "read", "page", "replied", "error"}
    /\ kind \in Kinds /\ limit \in Limits /\ offset \in Offsets
    /\ since \in {NoBound} \cup (1..(MaxClock + MaxSkew))
    /\ todo \in 1..(NShards + 1)
    /\ task \in [Shard -> {"none", "listed", "queued", "running", "again", "done",
                           "failed", "joined"}]
    /\ found \in [Shard -> SUBSET Message]
    /\ hits \in Seq(Shard) /\ \A i, j \in DOMAIN hits : hits[i] = hits[j] => i = j
    /\ skipped \in BOOLEAN /\ rows \subseteq Stored
    /\ start \subseteq Stored /\ lost \in BOOLEAN
    /\ reply \in [messages : SUBSET Message, unknown : BOOLEAN]

(* At most Permits scans read the disk at a time, repeated attempts and     *)
(* scans of an aborted request included (query.rs:1207-1237).               *)
ScansBounded == Cardinality(Busy) <= Permits

(* A reply without a warning has every message that was stored when the     *)
(* request came and belongs on its page whatever was stored since:          *)
(* skipping a shard, the believed route, the order of the joins, the cap    *)
(* on each shard and a new shard WeChat opened meanwhile lose nothing       *)
(* (query.rs:1184-1192, 1541-1545, 551-552).  A request that passed over an *)
(* error promises nothing: a search leaves out a shard that failed twice    *)
(* (against query.rs:1264-1265), a history one it could not open.           *)
NewerAtStart(m) == Cardinality({x \in Matching(start) : x.time > m.time})
NotOlderNow(m) == Cardinality({x \in Matching(Stored) \ {m} : x.time >= m.time})
OnPage(m) == LET first == IF kind = "history" THEN offset ELSE 0
             IN  first <= NewerAtStart(m) /\ NotOlderNow(m) < first + limit
PageComplete == \A m \in Matching(start) : OnPage(m) => m \in reply'.messages
Replies == pc = "page" /\ pc' = "replied" /\ ~reply'.unknown
NothingMissing == [][Replies /\ ~lost => PageComplete]_vars

(* Every request is answered: the scans that wait for a permit get one, and *)
(* a scan that fails again and again ends the request.                      *)
EventuallyAnswered == (pc = "judge") ~> (pc \in {"replied", "error"})
=============================================================================
