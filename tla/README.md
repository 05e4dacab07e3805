# Formal models of wxeasy

wxeasy reads WeChat's encrypted SQLite databases while WeChat is writing them,
without taking SQLite's locks, and answers queries from a daemon that keeps as
much as it can between requests. This directory holds TLA+ modules of the parts
where that is difficult, TLC configurations that check them on small instances,
and TLAPS proofs of the results that should hold for instances of any size.

All line numbers are of the files under `src/src/` (`daemon/vfs.rs`,
`cli/transport.rs` ...).

## 1. The system

| Component | State it keeps | Operations | Talks to | What makes it correct |
|---|---|---|---|---|
| WeChat's SQLite connection (external) | main file, `-wal` file, its own mxFrame | spill, commit, rollback, checkpoint, log restart, truncation | files only; ignores the daemon | given |
| WAL frame index, `daemon/wal_index.rs` | `WalIndexCache` (shared entry, `persisted_scan_end`), `.wix` file | `build_wal_index_cached`, `load_persisted_index`, `scan_wal_frames`, `save_persisted_index` | called by every `WxVfs::open` | a resumed scan equals a full one |
| Decrypting VFS, `daemon/vfs.rs` | per connection: length of main, index | `open`, `read_page_decrypted` | the files, the frame index | a connection reads one committed database |
| Route cache and hot connections, `daemon/cache.rs` | `shard_routes`, `route_generation`, `hot_conns`, `route_cache.json` | lookup, `put_shard_schema`, `hot_conn_handle`, `HotConnHandle::with`, `invalidate_shard`, flush, load | called by `daemon/query.rs` on a multi-threaded runtime | what is believed is not older than its label; an invalidation is seen |
| Decryption cache, `DbCache::get_with_mode` | decrypted copies, mtime file | decrypt, apply the log, reuse | the oracle tests | a copy is reused only for the same source |
| Shard fan-out, `find_msg_shards`, `q_history`, `q_search` | a `JoinSet` and a semaphore, per request | judge, scan, retry once, join, read, merge | route cache | the complete page, or a warning, or an error |
| Message queries with SortSeq paging | none | `fetch_message_rows` and its plans, polls, `search_in_table` | one connection per shard | every plan returns what a scan of the table returns |
| `new-messages`, `cli/new_messages.rs` and `q_new_messages` | `last_check.json` | load, ask, save, print | session.db, every shard | no message is passed; none stays behind for ever |
| Other queries | none | sessions, unread, contacts, groups, members, favorites, sns, biz articles, images, stats | contacts, one database each | order, completeness and tiling of pages; the same name for the same member |
| Attachments, `attachment/` | none | `q_extract`: find the row, the file, the key; decode; write | `message_resource.db`, `.dat` files, WeChat's memory | the message's own picture, whole, or an error |
| Contacts cache, `daemon/names_cache.rs` | `names_cache.bin`, a writer thread | load, trust, store | background task of the daemon | never believed for another source |
| Daemon lifecycle, `cli/transport.rs`, `daemon/mod.rs`, `daemon/server.rs`, `cli/daemon_cmd.rs` | socket file, `daemon.pid`, `config.json`, `names_arc` | start, ping, send, warm-up, stop, effects of init | files and signals between processes | one reachable daemon with the current configuration; no answer without contacts |
| Key file, `cli/init.rs` | `all_keys.json`, `config.json`, their owner | reuse, early save, scan, capture, fill in, save | key scanning | a key that still fits is not lost |
| Key scanning, `scanner/` | none | search of memory; on Windows a capture as WeChat's debugger | WeChat's processes | no key missed at a boundary; WeChat unharmed |
| The rest | none shared | argument parsing, formatting, diagnosis | | |

**What is hard here.** (1) The daemon reads files another process is writing
and holds no lock, so every WeChat step can fall between any two reads.
(2) Requests run in parallel and share caches whose locks cover single steps,
not whole judgements: a snapshot is taken, then a handle, then a generation,
then a slot's lock is queued for, then the file is read, then results are
stored under the old label. (3) Caches survive the process (`.wix`,
`route_cache.json`, `names_cache.bin`, `last_check.json`, `all_keys.json`,
`daemon.pid`), so a crash leaves any prefix of a sequence of writes. (4) Client
commands, daemons and `init` are separate processes tied together by files
only. (5) Queries avoid reading whole tables by arguments about an index that
is in another order than the one asked for, and cut rows off before or after
they filter them. (6) On Windows, `init --live` stops and starts WeChat's
threads as their debugger while WeChat makes more of them.

## 2. Modules

| Module | Models | State and actions |
|---|---|---|
| `WalLog` | the writer; external, as far as `wal_index.rs` and `vfs.rs` rely on it | frames with salt and commit size; `SpillFrame`, `CommitFrame`, `Rollback`, `Backfill`, `NewGeneration`, `Truncate` |
| `WalIndex` EXTENDS `WalLog` | `wal_index.rs`, called from `WxVfs::open` | an `Opener` is one open: `OpenWal`, `ReadHeader`, `TakeCached`, `LoadPersisted`, `ScanFrame` (one turn of the loop, through a `BufReader` that keeps what it has read), `DecidePersist`, `WriteBack`, `SavePersisted`, `DaemonRestart` |
| `SnapshotRead` | what a connection promises, independent of WAL and cache | each reader is closed, opening, frozen on one committed database, or released from the promise |
| `MergedView` EXTENDS `WalIndex` | `vfs.rs`: what a page read returns | `OpenMain` (the length of the main file, read before the log) and `OpenOn`; `View(o)` is what connection `o` would read now; two history variables say when the promise begins and ends; `ReadsSnapshot` is the refinement of `SnapshotRead` |
| `RouteCache` | `cache.rs` for one shard, driven by `query.rs` | an `Rpc` goes `Capture`, `Lookup`, `Handle`, `ReadGeneration`, `LockSlot`, `OpenConn`, `Query`, `PutRoute`, `NoteDirty`; a poll first goes `RemoveRoute`, `EvictConn`; `RetryScan`, `Finish` are failures and ends; other shards appear as `PoolEvicts` and `OtherInvalidated` |
| `ShardQuery` | one `q_history` or `q_search` request over all shards | `JudgeSkip`, `JudgeAbsent`, `JudgeScan`, `JudgeNoHandle`, `ListTables` for each shard in turn; the tasks `Acquire`, `ScanDone`, `ScanFails`; the collecting `JoinDone`, `JoinAgain`, `JoinSkips`, `JoinFailed`, `SomeFound`; `ReadShard`, `ReadAll`, `Reply`; WeChat: `Deliver`, `Roll`, `Tick` |
| `MsgRows` | the plans of `fetch_message_rows`, the polls, `max_create_time` and `search_in_table` | a table grows row by row; each plan is an operator on it, set against a reference that scans the table |
| `DecryptCache` EXTENDS `WalLog` | `get_with_mode`, `full_decrypt`, `apply_wal`, the mtime file | `StatDb`, `StatWal`, `OpenMain`, `CopyPage`, `CopyDone`, `NoLog`, `ReadHeader`, `ReadFrame`, `WritePage`, `Store`, `Save`, `Fail`, `Crash`; WeChat: `Write` |
| `NewMessages` | `cli/new_messages.rs`, `q_new_messages`, `aggregate_new_messages_by_shard`, `fetch_new_rows_since` | several commands at once: `LoadState`, `ReadSessions`, `ReadShard` per shard, `Reply`, `SaveState`, `PrintResponse`; WeChat: `Arrive`, `Store`, `Note`, `Roll` |
| `Directory` | names: `chat_type_of`, `resolve_username`, contact and group lists, the parser of `ext_buffer`, names of members | contacts and members are added; each query is an operator |
| `Listings` | sessions, unread, favorites, sns, biz articles, images, stats | rows are added; each query is an operator with its filters, cuts and merges in the code's order |
| `Attachments` | `q_extract`, `attachment/` | WeChat: `Send`, `Index`, `Download`, `Clean`, in any order; the request: `Ask`, `Fetch` (the rows), `Locate` (the file), `Read`, `Write`, each on what is there by then |
| `NamesCache` | `names_cache.rs`, `load_names`, `SourceSnapshot` | `CaptureDb`, `CaptureWal`, `LoadCached` or `Scan`, `SpawnWriter`, `OpenTmp`, `WriteTmp`, `RenameTmp`, `Exit`; WeChat and `init` move the clock, the tables and the account |
| `DaemonLifecycle` | `transport.rs`, `daemon/mod.rs`, `server.rs`, `daemon_cmd.rs`, `init.rs` on Unix | daemons: `LoadConfig`, `RemoveOldSocket`, `Bind`, `Chmod`, `LoadNames`, `CleanSock`, `CleanPid`, `Crash`; commands: `Ping`, `Spawn`, `WaitAlive`, `WritePid`, `Connect`, `Answered` ...; `ReadPid`, `StopPing`, `Judge`, `Exited`, `PingGone` ... |
| `KeyInit` | `cli/init.rs` and `config.rs`: `all_keys.json` over many runs of `init` | `Start` (with the reuse of saved keys), `Scan`, `Underlay`, `CaptureSome`, `CaptureMore`, `CaptureFails`, `FillIn`, `Save`, `SaveConfig`, `Interrupt`; `Rekey`, `EditConfig` |
| `DebugCapture` | `scanner/windows_live`: the debugger | WeChat: `Spawn`, `NewThread`, `MapDll`, `Expand` (a breakpoint is hit), `ExitThread`, `ExitProcess`; the debugger answers one event in each of `OnProcess`, `OnThread`, `OnDll`, `OnHit`, ...; `Check`, `Disarm`, `Stop`, `Kill` |
| `MemoryScan` | the search of one memory region on Windows, macOS and Linux | one action per chunk; the loops over a chunk are recursive functions of the position |
| `MC*` | instances for TLC | see below |
| `WalLogProofs`, `MergedViewProofs`, `RouteCacheProofs`, `QueryProofs`, `NewMessagesProofs`, `CopiesProofs`, `RequestProofs`, `StartupProofs` | theorems | section 5 |

How they fit together: `WalIndex` and `MergedView` establish what one
connection reads, one committed database. `RouteCache`, `ShardQuery` and
`MsgRows` take that as one atomic read of a shard. `RouteCache` establishes
which routes are believed; `ShardQuery` takes from it that a believed route is
current (`BelievedIsCurrent`) and adds the fan-out over shards; `MsgRows` says
what one shard's read returns. `NamesCache` and `DaemonLifecycle` meet in
`names_arc`: what is loaded, and when it is there.

Some MC modules hold several components or instances that share no state, told
apart by the variable `setting`, which says which of them moves; the others
stand still in an initial state, where their properties hold. This is one
question asked of the system in several bounds (`guard` and `saved` of the
route cache), or the parts of one story (`capture`, `keys` and `memory` are how
`init` comes by its keys). `MCReads`, `MCRequests`, `MCCopies` and `MCStartup`
EXTEND the components they move, so that a run and a theorem are about one
definition.

Grain. Every lock region of the code is one action, and everything between two
lock regions, awaits or file accesses that another actor could see is an action
of its own. Data is reduced to what the properties tell apart: a page's content
and a shard's content are the number of the commit that wrote them, a
`SourceSnapshot` is the commit whose metadata it shows (0 when it has an unknown
component), a configuration is a number, a message is a chat and its place in
it with a time in seconds, a key is the number of the encryption it opens, a
byte of memory is an `x`, a hex digit or something else.

The operators whose comment begins with "Mutant" are deliberately wrong
variants of the definition that follows them. Nothing refers to them; putting
one in the place of its definition makes the property it belongs to fail, which
shows that the property depends on that detail of the code.

## 3. Runs

Sizes are distinct states.

| Run | Checks | States | Shows |
|---|---|---|---|
| `WalIndexShared` | `TypeOK`, `CacheCoherent` | 1.6 M | two openers race in a log that grows and is cut, each refill sees the file at another moment: shared entry and `.wix` file are what a full rescan of the same stretch would give (the premise of the theorem `AppendOnlyCoherent`) |
| `Reads` | `CacheCoherent`, `PersistTailBounded`, `ReadsSnapshot`; `FetchExact`, `PollExact`, `SearchNewest` | 819 k | *view*: the same with rollbacks and overwriting restarts, read in one refill (the premise of the theorem `OneRefillCoherent`); a connection refines `SnapshotRead`; a restarted daemon rescans less than `WAL_PERSIST_MIN_DELTA`. *fetch*, *search*: every table of up to three rows, every plan against a scan of the table. |
| `Copies` | `CachedIsShown`; `ReplyExact`, `HitExact` | 3.4 M | what a daemon keeps on the disk and trusts by modification times. *accounts*, *overlap*: contacts taken from `names_cache.bin` are those a scan would have seen. *reuse*, *append*: a decrypted copy that is returned, now or by a later hit, is a committed state |
| `RouteCache` | `TypeOK`, `LabelNotNewer`, `ReadsOwnInvalidation`, `InvalidatedStaysGone`, `FreshIsCurrent` | 3.4 M | *guard*: with late metadata and two requests, the generation guard and the eviction do what their comments say. *saved*: the same labels through `route_cache.json`, failing calls and restarts; once the metadata shows the last commit, what is believed is current |
| `ShardQuery` | `TypeOK`, `ScansBounded`, `NothingMissing`, `EventuallyAnswered` | 850 k | a history or a search over three shards, one of them without a key: an answer without a warning has the whole page, scans stay within their permits, every request ends |
| `NewMessages` | `NoLoss`, `PrintedOnce`, `EventuallyPrinted` | 400 k | *shared*: two commands sharing the file, limits, a failing shard, a failed save, a killed command: nothing is passed unprinted. *live*: over two shards and a rollover, whatever a limit cut off is printed by a later command. In both, nothing is printed twice before session.db is behind, commands overlap or a save fails |
| `Lifecycle` | `SequentialStop`, `SequentialConfig`, `QueriesRecover` | 590 k | *sequential*: one terminal, crashing daemons: `init` and `stop` keep what they print. *recovers*: the same until a command is cut off; interrupted commands leave orphans and foreign sockets; queries are answered again |
| `Requests` | `NamesReady`; `ShownResolves`, `NicknamesBelong`, `NamedAlike`; `ExtractedIsOwn`; `NewestFirst`, `EveryUnreadAccount`, `StatsAddUp` | 1.6 M | *races*: two terminals past every deadline: no answer before the contacts are there. *contacts*, *pictures*, *lists*: what `Directory`, `Attachments` and `Listings` answer |
| `Startup` | `NoThreadUnseen`, `NoResidue`, `EventuallyEnds`; `KeysKept`, `EventuallyCovered`; `NothingMissed` | 540 k | *capture*: the debugger against WeChat's threads; *keys*: many runs of `init`; *memory*: every region of memory of three kinds of bytes with a key in it |
| `WalIndexLeftover` | `CacheCoherent`, violated | | section 6 |
| `NewMessagesTies` | `NoLoss`, violated | | section 6 |
| `DebugCaptureKilled` | `WeChatSurvives`, violated | | section 6 |

Deadlock is not checked where WeChat's bounds (`MaxTxn`, `MaxVersion`,
`MaxClock`, ...) let the model come to an end; in `Lifecycle` it is.

### Bounds, and why they are enough

* `WalIndex`: two pages, three or four transactions, logs of two frames, two
  or three generations. Two frames are the least in which a transaction has a
  spilled frame and a commit frame and in which something older can lie behind
  the cached end; two generations are the least with left-over frames. Two
  openers suffice for every race, since all that is shared is one entry, one
  counter and one file.
* `BufFrames` is how much one refill of the `BufReader` (4 MiB in the code)
  reads. A log that only grows or is cut is coherent with any refill
  (`WalIndexShared` has one frame per refill, the theorem any number). When
  frames are overwritten in place, after a rollback or a restart, that is so
  only while one refill reads the whole stretch up to the length read at the
  start, as in the daemon's normal case of a short tail behind a cached end:
  *view* has `BufFrames = MaxFrames` and no truncation, which could make
  that length stale. `WalIndexLeftover` shows what several refills change.
* `MinDelta` is 1 where saving should happen as often as possible and 2 in
  *view*, where the throttle is the point (one opener: with two, saves
  may be made in another order than they were decided, section 6).
* *view* has one connection: reading changes no state, and other connections
  touch only the cache, which `WalIndexShared` covers; the theorem
  `ViewRefinement` is for any number.
* `NamesCache`: two daemons, since the file has one name and the writers'
  temporary file another; a third writer would only replace what the second
  wrote. Times come a tick late and the slack is two in *overlap*; in *accounts*
  they come at once, and two accounts are used.
* `RouteCache`: two commits and two requests with two slots (a slot evicted
  while it is held plus its successor). `MaxGen = 2` allows one invalidation of
  the shard and one of another. *saved* has one request at a time but restarts,
  so that everything older can still come back from the file. `MaxWriters = 2`
  are the detached writer threads of `route_cache.json` at work at the same
  time; they start at least `ROUTE_FLUSH_DEBOUNCE_SECS` apart, and two are what
  a race needs.
* `MayStraddle = FALSE` in *guard* keeps an invalidation from falling between a
  request's handle and its generation, and keeps a handle from being taken
  between the two halves of an invalidation. What happens otherwise is in
  section 6.
* `ShardQuery`: three shards are the least in which a page is cut out of two
  that hold the chat while a third is skipped, absent or unknown; one permit
  makes every scan wait; one row per page and offsets 0 and 1 make two messages
  compete for it. `MaxSkew <= Slack` is what the code assumes of the two clocks
  (`query.rs:1184-1192`), and an assumption of the module.
* `MsgRows`: three rows with every combination of times and of a `sort_seq`
  that is missing, exact or late. `Scale`, `Extra`, `Growth`, `MinRange`
  stand for 1000, 64, 8 and 1024; they are small so that three rows lie on both
  sides of each of them. `MaxInt` is where a floor saturates.
  `AllowBad = FALSE`: every row can be read; section 6 has the other case, and
  the theorem `RowsPolled` covers it for polls. The theorems are for tables of
  any size.
* `DecryptCache`: two pages and a log of two or three frames, as above. In
  *reuse* the log is read in one piece and restarts; in *append* it grows
  while it is read, and the copy may be deleted. Both at once is section 6;
  the theorems `CopyExact` and `CopyHit` have these hypotheses and no bound.
* `NewMessages`: a limit of one message cuts every response. `Fallback = 0`:
  all messages are younger than the 24 hours of `fallback_ts`. In *shared*
  there is one shard (a failing shard with another one that moves the cursor is
  section 6); in *live* two. A chat rolls over to the next shard with nothing
  on its way and while no command is reading.
* `Lifecycle`, `Requests`: three process ids for one terminal, two for two.
  When all are in use `Exhausted` holds; `QueriesRecover` is conditional on
  that bound not being hit for ever.
* `Directory`: two contacts out of four usernames and three names chosen to
  collide: one within another, equal but for case, and usernames that look like
  names. `Listings`: every store of up to three rows and two times of each
  kind, limits of one and two. `Attachments`: one local id used twice, two
  pictures, two files, blocks of two bytes and pictures of three.
* `KeyInit`: two databases, each of which may be made anew once; one
  interruption (each may fall between any two steps of any run, and what it
  leaves behind is met by all later runs). `SudoHere = FALSE`: section 6.
* `DebugCapture`: the launcher that starts the main process, and three threads
  in the latter: the first, one that opens databases, one that comes late.
* `MemoryScan`: keys of two digits, key and salt of three, chunks of eight
  bytes in a region of eleven: two chunks, with an overlap of six, and a
  pattern that can lie in either, across their border, or behind another. The
  overlap is the code's, `HexLen + 3`.

### Fairness

Safety properties need none; it is part of the specification of those runs
that check a liveness property, which have the same behaviours otherwise.

* `NewMessages`: WeChat finishes the two transactions of a message (weak
  fairness of `Store`, `Note`); a command that has been started goes on and the
  next one is started (README.md:188 of the repository describes repeated
  polling); from some moment on none fails. The last is needed because a
  command killed each time prints nothing.
* `DaemonLifecycle`: processes are scheduled (weak fairness of each daemon's
  and each command's next step), queries are made again and again, and from
  some moment on nobody stops, re-initialises, kills or crashes anything.
  `Slow = FALSE` there: an operating system that starves a daemon past every
  deadline for ever lets no query succeed.
* `ShardQuery`: the daemon's threads run: weak fairness of judging, of
  collecting, and of each shard's scan. WeChat's writes have none. A scan that
  always fails is allowed.
* `KeyInit`: a started `init` goes on (weak fairness of `Running`); a user who
  misses keys starts `init --live` again, and a capture that could find one
  more key sometimes does (strong fairness of `LiveAgain`, `CaptureMore`:
  other commands and failures come in between). Interruptions and remade
  databases are bounded, so they end.
* `DebugCapture`: the debugger is scheduled. WeChat has no fairness: it may
  simply go on.

## 4. Properties

What is read

* `CacheCoherent` (`wal_index.rs:325-330`): any seed that carries the log's
  salt covers only committed frames, ends at a commit frame, and holds each
  page's newest frame. It relates the caches to a log that moves under them.
* `PersistTailBounded` (`wal_index.rs:385-390`): the throttle never believes
  the file is further than it is by more than the threshold.
* `ReadsSnapshot` (`vfs.rs:14-18`): refinement of `SnapshotRead`. The promise
  lasts until the writer overwrites a page of main the connection may still
  need, or replaces the log, which is what a real reader's lock would postpone.
* `FetchExact`, `PollExact`, `SearchNewest` (`query.rs:2216-2217`,
  `2531-2539`, `2992-3080`): asking by `sort_seq`, with its floors, growing
  windows and fallbacks, gives what a scan of the table gives; a poll misses
  nothing after its cursor; the newest time is never overstated.
* `ReplyExact`, `HitExact` (`cache.rs:260-268`, `329-335`): a decrypted copy.

What is kept

* `LabelNotNewer` (`cache.rs:572-584`): the one direction of error the code
  rules out, in all three places where labels are stored.
* `FreshIsCurrent` (`cache.rs:1016-1026`): when the metadata shows the last
  commit, what would be believed is what the shard holds.
* `ReadsOwnInvalidation` (`cache.rs:805-876`): a poll that has invalidated a
  shard reads all that was committed before, with late metadata too.
* `InvalidatedStaysGone` (`cache.rs:589-598`): the generation guard.
* `CachedIsShown` (`names_cache.rs:19-26`, `57-63`): contacts from the file are
  of the daemon's account and no older than the times told at its start,
  whoever wrote the file and however far they came.
* `KeysKept`, `EventuallyCovered` (`init.rs`): `all_keys.json` is replaced as a
  whole by each run, and still no key that fits is lost; a user who repeats
  `init --live` comes to all of them.

What is answered

* `NothingMissing` (`query.rs:1184-1192`, `1541-1545`, `551-552`): a reply
  without a warning, to a request that passed over no error, has each message
  that was there when it came and belongs on its page.
* `ScansBounded` (`query.rs:1207-1237`), `EventuallyAnswered`.
* `NoLoss`, `PrintedOnce`, `EventuallyPrinted` (`query.rs:5781-5787`,
  `new_messages.rs:46-67`): the cursor never passes an unprinted message;
  nothing stays behind. Nothing is printed twice either, as long as `orderly`
  holds, a history variable: no message has been in its shard before
  session.db had its time, no two commands have run at once, no save failed.
  What happens otherwise is in section 6.
* `ShownResolves`, `NicknamesBelong`, `NamedAlike`: a name that is shown can be
  asked for; a member's nickname is its own; lists and messages name alike.
* `NewestFirst`, `EveryUnreadAccount`, `StatsAddUp`: what is cut off is never
  newer than what is shown; pages tile; statistics of two halves add up.
* `ExtractedIsOwn`: the picture of the message that was asked for.

Who answers, and WeChat itself

* `SequentialConfig` (`init.rs:95`), `SequentialStop` (`daemon_cmd.rs:48-49`):
  a query after an init is answered with its configuration, and a stopped
  daemon is gone, until some command is cut off (the history variable `cut`;
  its orphans may do otherwise).
* `NamesReady` (`server.rs:203-208`), `QueriesRecover` (README.md:176).
* `NoThreadUnseen`, `NoResidue`, `EventuallyEnds` (`hwbp.rs:4-6`, `74`,
  `debugger.rs:224-245`): every thread of an armed process has breakpoints or
  is about to be reported; none keeps them; the capture does not wait for a
  WeChat that is gone.
* `NothingMissed` (`scanner/macos.rs:251` and the others): every key of a
  region that could be read is found.

## 5. Proofs

All are for arbitrary values of the constants, from the named assumptions of
the modules (`WalLogAssumption`, `WalIndexAssumption`, `RouteCacheAssumption`,
`NewMessagesAssumption`, `ShardQueryAssumption`, `MsgRowsAssumption`,
`NamesCacheAssumption`, `DaemonLifecycleAssumption`, `DebugCaptureAssumption`,
`KeyInitAssumption`, `MemoryScanAssumption`, `DirectoryAssumption`,
`AttachmentsAssumption`, `ListingsAssumption`) and what each theorem states
after ASSUME or before its arrow. A theorem about a property that a run checks names the very
definition that the run checks.

`WalLogProofs` has the facts about the log that everything reading it rests on:
`LogInv` (the frames up to `tail` are of the current generation, and no commit
frame of it lies behind `mx`), one lemma for what each step of the writer does
to the frames a reader may have seen, and what `HistoryInv` says of the main
file and the committed states.

`MergedViewProofs`, first the index

* `TypeCorrect`: `Spec => []TypeOK`.
* `AppendOnlyCoherent`: `Spec => []CacheCoherent` when the log only grows
  (`AppendOnly`: no rollback and no overwriting restart; truncation, any number
  of openers, refills of any size, failing and racing saves, and restarts are
  all allowed). `CacheCoherent` is not inductive: an opener that has finished
  its scan is about to write its result, and one in the middle holds pages of
  an unfinished transaction and bytes read earlier. The invariant is
  `LogInv`, `OpenerInv` for each opener (its accumulator
  is coherent if its salt is still the log's, and `ScanInv` says, up to a frame
  that will not change any more, that the cursor, the pending pages and the
  buffer agree with the file, and beyond it that the buffer ends no
  transaction), and
  `CacheInv` (the shared entry, the file). The step proof has one lemma for
  the writer, one for a turn of the scan loop and one for everything else.
* `OneRefillCoherent`: the same by the same invariant when transactions do roll
  back and generations overwrite each other's frames, but the log is never cut
  and one refill of the buffer reads the rest of it (`OneRefill`). One of the
  two hypotheses is needed: `WalIndexLeftover` violates `CacheCoherent` with
  neither. The first is the log that nobody ever checkpoints (the 16 GB of
  `wal_index.rs:362-363`); the second a log that SQLite checkpoints at its
  default of 1000 frames, while the buffer of 4 MiB holds 1018 of them.
* `TailBounded`: `Spec => []PersistTailBounded` for one opener whose saves
  succeed, with any behaviour of the writer, rollbacks and restarts of the log
  included. `SavedInv` says what the counter, the file and the opener's own
  result are to each other at each of its steps.

and then what a connection reads

* `ViewRefinement`: `MVSpec => ReadsSnapshot`, the refinement of `SnapshotRead`,
  for any number of connections at once, under either of the hypotheses above.
  Which snapshot a connection reads needs no history variable: a frame carries
  the number of the transaction that wrote it, and the snapshot is the one of
  the last commit frame the index covers. `HistoryInv` says what log, main file
  and history are to each other (`HistInv`, `SpillInv`, `CommitInv`,
  `MainInv`); `PromiseInv`, of a connection that still has its promise, that
  pages of main it will need are unchanged since its open began (`SinceInv`),
  that its scan passes over no commit frame of that time (`PlaceInv`) and that
  its index is of the log's generation (`LabelInv`). From them the view of an
  open connection is `hist[v]` for one `v` not before its open, and every step
  of the writer leaves it so or ends the promise (`ViewInv`). The end of the
  daemon is one step of the abstract specification for all connections, as is
  the end of the promise: `SnapshotRead` has `Close(S)` and `LosePromise` of
  sets of readers.

`RouteCacheProofs`

* `RouteCacheTypes`: `Spec => []TypeOK`.
* `LabelsNeverNewer`: `Spec => []LabelNotNewer`, with lag, failures, restarts,
  straddling. The invariant `Inv` adds: a request between handle and answer
  holds a slot (`InHand`), what was captured was committed (`Captured`), labels
  still to be written obey the rule (`Labels`), two requests never work on one
  connection (`Exclusive`, the slot's lock), and the connection a request reads
  and the list it is about to store are at least as new as its snapshot
  (`AtLeastAsNew`).
* `PollReadsOwn`: `Spec => []ReadsOwnInvalidation`. On top of `Inv`: a slot
  nobody holds is empty (`Unheld`), hands are empty outside the critical
  stretch (`HandsEmpty`), and after its invalidation neither the pool nor its
  own slot can offer a poll anything older (`Evicted`).
* `GoneStaysGone`: `Spec => []InvalidatedStaysGone` without `Persist` and
  without straddling. On top of both: whoever still carries something older
  than a completed invalidation carries a generation from before it, so that
  its store is dropped (`GoneInv`).
* `BelievedIsCurrent`: `Spec => []FreshIsCurrent`. With labels never newer
  than content (`Labels`) and content never newer than the last commit, a
  label that equals the last commit leaves one possibility.

`NewMessagesProofs`

* `CursorLosesNothing`: `Spec => []NoLoss`, for any number of chats, shards,
  messages and commands, any limits, failing saves and commands killed at any
  step, under three hypotheses, each of which is needed (the run
  `NewMessagesTies` and section 6 show what happens without): the file has
  every chat, a chat's messages have different seconds, and no shard fails when
  there is more than one. `NoLoss` is not inductive: what a command will save
  was decided before others saved and before messages were stored. The
  invariant `LossInv` is the order of a chat's messages in time, place and
  shard (`InOrder`), and, of the file and of every command's locals, that the
  cursor held there passes only what is printed or what that command itself
  has and will print (`FileCursors`, `CommandCursors`, `CommandReads`).
* `PrintedNoTwice`: `Spec => PrintedOnce`, with no hypothesis: messages of one
  second, failing shards, chats without a cursor and killed commands are all
  allowed. The invariant `OnceInv` says, while `orderly` holds, that no cursor
  is ahead of session.db and none of the printed messages is ahead of the
  cursors (`FileOnce`), that what a command has fetched is newer than the
  cursors in the file, which it alone can move, and that what it will save is
  no older than they are and passes what it prints (`CommandOnce`). The step
  that matters is `Reply`: a new cursor is the greatest time of the chat's
  messages in the response, the old cursor, or session.db's time, and each is
  as new as everything printed (`AdvancedTime`).

`QueryProofs`, of the fan-out over the shards

* `TypeCorrect`: `Spec => []TypeOK`. That the shards found are each once in the
  order of reading rests on the lemma that a stable sort is a permutation
  (`Permuted`).
* `PermitsHold`: `Spec => []ScansBounded`.
* `NoMessageMissing`: `Spec => NothingMissing`, for any number of shards,
  permits and messages, any slack, and any order of the joins. The invariant
  `WholePage` follows a message that was there at the start: its shard's mtime
  is not behind its time by more than the slack (`Stamped`), so the shard is
  not skipped; its scan is under way or has brought the newest rows it had
  (`Scanned`); a joined scan's shard is among the hits (`Joined`); of the
  shards read so far, a message is left out only in favour of a page's worth of
  newer ones (`NoneLeftOut`). `PageIsComplete` draws the conclusion for the
  merged page by counting.

and of one shard's table

* `RowsFetched`: `TableSpec => []FetchExact`, `RowsSearched`:
  `TableSpec => []SearchNewest`, both with `AllowBad = FALSE`, and
  `RowsPolled`: `TableSpec => []PollExact`, where rows may be unreadable too;
  for tables of any size, any `Scale`, growth, thresholds and page sizes.
  `TableInv` says that rows have different ids and a `sort_seq` that is
  missing, zero or their time's (`SeqOf`). The rest is about the plans. A
  sorted set has exactly one listing in each order, so two plans that come to
  equal sets in equal orders give equal answers (`Listing`, `Orders`; the
  position of a row is the number of rows before it, `RankIn`, which takes no
  induction). The range plan's UNION ALL of three branches has each row once
  (`OnceEach`). The newest rows by `sort_seq` are enough when the plan says
  so: a row it has not read has a time of at most the last `sort_seq` divided
  by `Scale`, so that as many read rows as the page needs are newer. Reading a
  row that cannot be mapped spoils this, since it counts in LIMIT and not in
  the answer: hence the hypothesis; a poll maps its rows after both plans have
  cut at the same place, and needs none.
* `TableTypeCorrect`: `TableSpec => []TableType`.

`RequestProofs`, of the daemon

* `NoAnswerWithoutNames`: `Spec => NamesReady` as long as contact.db can be
  read (`LoadMayFail = FALSE`), for any number of terminals and daemons. The
  invariant `Connected`: `names_arc` is empty or whole, and who waits for an
  answer waits for a daemon.
* `StopStops`: `Spec => []SequentialStop`, and `InitTakesEffect`:
  `Spec => SequentialConfig`, for one terminal whose deadlines are long enough
  (`Slow = FALSE`), any number of daemons that crash at any step and any number
  of configurations. The invariant `AloneInv` says, until a command is cut off,
  that a daemon that lives is the only one, and that the pid file, or the
  command that has started it or is stopping it, names it (`OnlyDaemon`); that
  it has not read an older configuration than the last finished init wrote
  (`UpToDate`); and what each command may ask for (`Needs`).

of the names

* `ShownIsFound`: `ContactsSpec => []ShownResolves`, `NicknameOfMember`:
  `ContactsSpec => []NicknamesBelong`, and `OneNameEach`:
  `ContactsSpec => []NamedAlike`, for any number of contacts, members and
  records. `ContactsInv` has what WeChat stored: finitely many contacts, and
  records that are `Chunk`s of members. The first follows since both orders by
  which a candidate is chosen are strict orders of a finite set, which has a
  first element (`FirstOne`), and the equal names are tried before those that
  contain the words. The others follow from what is read out of one record
  (`RecordOf`): the username, from field 1 or 4, with a list of members or by
  its letters, and the nickname, since field 2 outweighs everything another
  string can score. `DirectoryAssumption` says what is assumed of the strings:
  usernames have the form that `looks_like_username` knows, nicknames are not
  usernames by their letters and at most 64 bytes long, and no string of a
  record is a username but the member's own (section 6).

of the pictures

* `ExtractedOwn`: `PictureSpec => []ExtractedIsOwn`, for any number of
  messages, pictures, rows and files, any length of a picture, block size and
  layout of a file, while WeChat stores and removes between the steps.
  `PictureInv`: no two messages agree in local id and time, each row of
  message_resource.db is a message's, with its time or with none, and so is
  each row of the copy; the file located is of the picture looked up, and what
  is read is its body. `OwnPicture` draws the lookup's right answer from it.
  `DecodedParts` is the decoder: the body is cut where WeChat's encoder put the
  seams (`BodyCells`), the padding is found and taken off, also where the first
  part fills its blocks, and the three parts joined are the picture, up to the
  last one where its key is wrong.

and of the lists

* `NewestShown`: `ListSpec => []NewestFirst`, `EachAccountShown`:
  `ListSpec => []EveryUnreadAccount`, and `WindowsAddUp`:
  `ListSpec => []StatsAddUp`, for stores of any size and any limits, offsets,
  windows and shards. `ListInv` says that there are finitely many rows, each
  one that WeChat may store, with a number of its own; the rest is counting. A
  shard gives twice the rows the page ends at, so that where it leaves out a
  row there is a page of rows before that one (`ShardGives`), and the rows cut
  out of all shards' are as many as out of the whole list (`EnoughGiven`). A
  favorite's time is the same in both units (`ShownSeconds`), since
  `ListingsAssumption` puts all times between 1970-04-26 and 2286-11-20, where
  the threshold tells the units apart. A sum is the size of a disjoint union
  (`SumOfSizes`), so that no count needs induction.

`CopiesProofs`, of the contacts

* `CachedShown`: `Spec => []CachedIsShown`, for any number of daemons, accounts
  and versions, any lateness of times and any slack, writers that are cut off
  between any two steps or share the temporary file, if no log goes away
  between the two stats of a snapshot (`~Straddle`) and no stat of a log that
  is there fails (`~Transient`); without either it is false (section 6). Data
  may be in a daemon, a writer, the temporary file or the file. Of all of it the
  invariant says the same (`Covered`): its version is as new as what is there,
  and as what other processes are shown, or the times have gone past its
  snapshot and can never come back to it (`Beyond`); and the load of a daemon
  that expects something newer has already gone past it (`Passed`). Storing
  then only moves covered data.

and of the decrypted copy

* `CopyExact`: `CopySpec => []ReplyExact`, and `CopyHit`:
  `CopySpec => []HitExact`, for any number of pages, frames and generations
  under `CopyAssumption`, whose three conjuncts are each needed (section 6):
  rollbacks do not meet logs that are reused or cut; a log that is overwritten
  or cut is read in one piece; nobody deletes the copy where a call may fail
  or be killed. The code takes no lock and knows the database by two times
  only, so the invariant `CopyInv` says what the times still prove: they only
  go up and no entry is ahead of them (`TimesInv`); an entry with the main
  file's time has under it a copy that differs from the main file only in
  pages the log has, and one with both times is the database (`Sound`); a log
  that is copied back as a whole is not told from the one before it, so that
  an entry of that time is of all of it (`Dated`); what a call has read is
  committed or of a generation that is gone (`ReadInv`); and while the main
  file has not moved, each page is as it should be or still to be written from
  what was read (`BuildInv`). Pages are written in place, which is why a
  half-finished call must leave a copy that the old entry still describes.
* `CopyTypeCorrect`: `CopySpec => []CopyTypeOK`.

`StartupProofs`, of the capture

* `CaptureCorrect`: `Spec => []CaptureInv`, which includes `TypeOK`.
* `ThreadsSeen`: `Spec => []NoThreadUnseen`, and `NothingLeft`:
  `Spec => []NoResidue`, for any number of threads and databases. The argument
  is that a process stands still while an event of it is queued (`QueueInv`):
  the threads in wxeasy's table are those of the process but for what is still
  in the queue (`ThreadsInv`), and they have their breakpoints, and no others,
  while wxeasy waits (`ArmedInv`). `StatusInv`, `TableInv` and `StartInv` say
  when a process has threads, when it is in the table, and that nothing is
  debugged before and after.

of the key file

* `NoKeyLost`: `KeySpec => KeysKept`, for any number of databases, remade
  keys, runs and interruptions, with sudo or without. `CommandInv`: entries
  are good or empty, and a run about to save holds every good key of the files
  it may take keys from. For a run that skips the merge this rests on
  counting: as many entries as encrypted databases are the entries of all of
  them (`AllCounted`).

and of the search in memory

* `EveryKeyFound`: `RegionSpec => []NothingMissed`, for keys, chunks and
  regions of any size. What lies whole in a chunk is found since the loop
  never jumps over it (`Broken`, `Standing`), and what begins before the next
  chunk lies whole in this one, by the overlap (`FoundSoFar`). The searches
  are recursive functions; that each has a value satisfying its equation is
  shown from the set of places its loop reaches (`Loop`, `Reached`), without
  induction.

Only model-checked: all liveness (`EventuallyPrinted`, `EventuallyAnswered`,
`QueriesRecover`, `EventuallyEnds`, `EventuallyCovered`), which is out of the
prover's reach. Every other property of a passing run is a theorem, under the
hypotheses named above.

## 6. Where the code and its comments part

Shown by a run:

* `WalIndexLeftover`. `wal_index.rs:323-327` calls the resumed scan byte for
  byte equal to a full one because the log is append-only within a generation.
  A young generation overwrites frames of the last one in place. A scan that
  skips such a frame and finds the commit frame of the transaction that
  overwrote it in a later refill caches half a transaction.
* `NewMessagesTies`. Cursors have whole seconds and rows are taken with
  `create_time > since`; of two messages in one second the second can be lost.
* `DebugCaptureKilled`. `debugger.rs` sets `DebugSetProcessKillOnExit(FALSE)`
  so that WeChat outlives wxeasy (lines 11-12, 142, 355). A wxeasy that is
  killed leaves its breakpoints in the threads' debug registers, and the next
  hit ends WeChat.

Met while modelling, and reachable in these modules with other constants, but
not kept as runs of their own:

* the rolled-back frames of `wal_index.rs:304-306`: `AllowRollback` with
  `BufFrames = 1` violates `CacheCoherent` as the restart does;
* two openers decide to save under the lock and save outside it, so that
  `PersistTailBounded` fails with two openers;
* a connection's view is not frozen when it is made (`wal_index.rs:142-144`):
  a checkpoint changes what it reads, hence the reservation in `SnapshotRead`;
* `RouteCache` with `MayStraddle`: `cache.rs:589-594` rules out that a stale
  result revives an invalidated route and says the generation is read at the
  moment of the judgement. It is read after the handle was taken
  (`query.rs:1399`, `1419`), and `invalidate_shard` raises it before it evicts
  the connection: `InvalidatedStaysGone` fails;
* `HOT_CACHE_FRESHNESS_SLACK` is measured from the visible, old mtime, so that
  late metadata makes a stale entry pass (`cache.rs:1022-1026`; the same of
  `NamesCache!CachedIsCurrent`, with `Straddle` or `Transient` also of
  `CachedIsShown`);
* a restart can bring an invalidated route back from `route_cache.json`, and a
  change made inside the debounce interval is only marked: `routes_dirty` is
  never read (`cache.rs:692`);
* `ShardQuery`: `query.rs:1264-1265` says that one failing shard fails the
  whole call; `q_search` answers without it. A history passes over a shard it
  gets no handle or no newest time of (`MayDrop`);
* `MsgRows` with `AllowBad`: a row that cannot be read into an `MsgRow` is
  dropped after the limit was applied; a search whose keyword is only in the
  compressed text finds it for links and files only;
* `DecryptCache`: a log that is overwritten or cut while `apply_wal` reads it
  in pieces gives a copy of no state (`WholeRead = FALSE` with `AllowRestart`
  or `AllowTruncate`); a failed or interrupted replay leaves pages that the
  next generation of the log does not cover, when that follows a rollback
  (`AllowRollback` with `AllowRestart` or `AllowTruncate`, four frames,
  `MayCrash`: `ReplyExact`); an entry survives the deletion of its copy, so
  that a full decryption that fails half-way leaves a file which the entry of
  old then vouches for (`MayRemove` with `MayFail` or `MayCrash`: `HitExact`);
* a message that was printed before session.db had its time is printed again:
  meanwhile its chat counts as unchanged and gets the older time of session.db
  as its cursor (`query.rs:5782`), so that `PrintedOnce` needs `orderly`;
* a chat without a cursor jumps to `session_ts` in later calls as well
  (`query.rs:5783-5785`); a skipped shard (`query.rs:5122`) loses messages when
  another shard of the same chat moves the cursor;
* with two terminals, `init` misses a daemon that is only starting
  (`NoStaleConfig`), and `stop` may end a process other than the one that
  answered (`StoppedIsStopped`);
* with `LoadMayFail`, queries are answered with an empty `Names`
  (`NamesReady`, `server.rs:207-208`).

Seen while translating, and outside what the modules can show or kept out of
their inputs:

* contacts or groups with equal display names come in a `HashMap`'s order, so
  pages over them are not stable (`query.rs:1081` says that they are);
* a group nickname that contains `@` is taken for no nickname
  (`is_strong_username_hint`, `query.rs:3343`); a record without a nickname may
  yield another string of it as one; a nickname that is another member's
  username is taken for the member where it comes first in the record
  (`pick_member_username`, `query.rs:3372-3377`);
* a search of moments compares with the escaped XML of the text;
* `biz-articles --unread` keeps one article for all verified accounts without
  `gh_` together (`query.rs:6945-6949`; `EveryUnreadAccount` is of the others);
* `init`: `entries.len() >= expected` also counts keys of databases that are
  plaintext or have two names; a capture that returns nothing still writes an
  empty `all_keys.json` with its config, after which `init` says that all is
  done; the file is written in place; databases with one salt get one key;
  `keys_file` of an existing `config.json` is what the daemon reads
  (`config.rs:26-38`) while `init` writes beside the config
  (`init.rs:68`, `403-408`); `sudo wxeasy init --live` interrupted in its
  capture leaves `all_keys.json` to root (`init.rs:373`), and a sudo run in a
  directory with a `config.json` then fails on the file it made itself, which
  `SudoHere = FALSE` excludes; two accounts share a file by relative names; two
  runs at once lose each other's keys;
* attachments: `V2KeyMaterial::default()` has `xor_key` 0 where
  `decoder/mod.rs:38` says 0x88; without the message's own resource row another
  message's picture of the same local id is taken; `three_month_candidates`
  steps by 31 days and can pass over February; the check for an existing output
  and the write are two steps.

## 7. Not modelled, and what is left

Not modelled:

* page decryption and key derivation (cryptographic primitives), and what
  bytes they give; which key fits is modelled where it decides what happens;
* formatting of replies, times and tables, and argument parsing (`cli/`):
  no state, no order;
* `ipc.rs` and `config.rs` beyond the lookups that `KeyInit` and
  `DaemonLifecycle` have;
* Windows named pipes and `pipe_diag.rs`: access control explained to the user;
* enumerating processes and memory regions, locating the hook in `Weixin.dll`,
  and the LLDB script of macOS: platform calls whose results the models take as
  any;
* SQLite's own temporary files in the VFS, and the `vfs_oracle` tests;
* scripts and packaging.

Left of the plan:

* *Compositions.* `NewMessages` over `RouteCache`: a chat rolls over while only
  its old shard is invalidated (`cache.rs:794`); `NewMessages` takes the shard
  as invalidated.
* *Crashes.* A half-written `last_check.json`, and messages older than the
  fallback; a command killed between saving and printing, where the code
  chooses to save first (`NoLoss` counts a saved reply as printed).
