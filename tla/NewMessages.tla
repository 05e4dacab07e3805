----------------------------- MODULE NewMessages -----------------------------
(***************************************************************************)
(* The cursor protocol of `wxeasy new-messages`: src/cli/new_messages.rs   *)
(* keeps one timestamp per chat in last_check.json, and q_new_messages     *)
(* (src/daemon/query.rs) returns what is newer and the timestamps to keep. *)
(* Several clients, one per running command, share the file.               *)
(*                                                                         *)
(* WeChat writes a message into the chat's shard and its time into the     *)
(* chat's row of session.db in two transactions, in either order.          *)
(*                                                                         *)
(* A message is <<c, i>>, the i-th of chat c; all are from the last 24     *)
(* hours, so that fallback_ts is before each of them.                      *)
(***************************************************************************)
EXTENDS Naturals, Sequences, FiniteSets

CONSTANTS
  Chat,
  Known,         \* the chats that last_check.json holds at the start
  Shards,        \* the shards are 1..Shards, in the order of msg_db_keys
  Client,        \* `wxeasy new-messages` commands running at the same time
  Limit,         \* --limit
  PerTable,      \* per_table_limit, at least 5 * Limit in the code, so >= Limit
  MaxClock,      \* bound: seconds
  MaxArrivals,   \* bound: messages of one chat
  AllowTies,     \* BOOLEAN: two messages of a chat may be of the same second
  ShardMayFail,  \* BOOLEAN: reading a shard may fail
  SaveMayFail,   \* BOOLEAN: writing last_check.json may fail
  SessionFirst   \* BOOLEAN: session.db never shows less than the shards do

ASSUME NewMessagesAssumption ==
  /\ IsFiniteSet(Chat) /\ Known \subseteq Chat
  /\ Shards \in Nat \ {0}
  /\ Limit \in Nat \ {0} /\ PerTable \in Nat /\ Limit <= PerTable
  /\ {AllowTies, ShardMayFail, SaveMayFail, SessionFirst} \subseteq BOOLEAN

VARIABLES
  clock,
  arrived,    \* arrived[c]: what c's messages are, in order: time and shard
  stored,     \* arrived[c][1..stored[c]] are in their shards
  noted,      \* session.db shows the time of arrived[c][noted[c]]
  home,       \* the shard c's next message goes to
  state,      \* last_check.json, a function on the chats it has
  delivered,  \* messages some command has printed
  orderly,    \* history: no message was in its shard before session.db had its
              \* time, no two commands ran at once, and no save has failed
  pc,         \* where each command is
  loaded,     \* the state it sent
  session,    \* all_sessions: last_timestamp of every chat, 0 for no row
  next,       \* the shard it reads next
  got,        \* agg.messages
  out,        \* the messages of the response
  newState    \* its new_state

wechat == <<clock, arrived, stored, noted, home>>
reply == <<out, newState>>
vars == <<wechat, state, delivered, orderly, pc, loaded, session, next, got, reply>>

Empty == [c \in {} |-> 0]
Message == Chat \X Nat
Fallback == 0

Time(m) == arrived[m[1]][m[2]].ts

Init ==
  /\ clock = 1
  /\ arrived = [c \in Chat |-> IF c \in Known THEN <<[ts |-> 1, shard |-> 1]>> ELSE <<>>]
  /\ stored = [c \in Chat |-> Len(arrived[c])]
  /\ noted = stored
  /\ home = [c \in Chat |-> 1]
  /\ state = [c \in Known |-> 1]
  /\ delivered = Known \X {1}
  /\ orderly = TRUE
  /\ pc = [k \in Client |-> "idle"]
  /\ loaded = [k \in Client |-> Empty]
  /\ session = [k \in Client |-> [c \in Chat |-> 0]]
  /\ next = [k \in Client |-> 0]
  /\ got = [k \in Client |-> {}]
  /\ out = [k \in Client |-> {}]
  /\ newState = [k \in Client |-> Empty]

-----------------------------------------------------------------------------
Tick ==
  /\ clock < MaxClock
  /\ clock' = clock + 1
  /\ UNCHANGED <<arrived, stored, noted, home, state, delivered, orderly, pc, loaded,
                 session, next, got, reply>>

Arrive(c) ==
  LET n == Len(arrived[c]) IN
  /\ n < MaxArrivals
  /\ n > 0 /\ ~AllowTies => arrived[c][n].ts < clock
  /\ arrived' = [arrived EXCEPT ![c] = Append(@, [ts |-> clock, shard |-> home[c]])]
  /\ UNCHANGED <<clock, stored, noted, home, state, delivered, orderly, pc, loaded,
                 session, next, got, reply>>

Store(c) ==
  /\ stored[c] < IF SessionFirst THEN noted[c] ELSE Len(arrived[c])
  /\ stored' = [stored EXCEPT ![c] = @ + 1]
  /\ orderly' = (orderly /\ stored[c] < noted[c])
  /\ UNCHANGED <<clock, arrived, noted, home, state, delivered, pc, loaded,
                 session, next, got, reply>>

Note(c) ==
  /\ noted[c] < Len(arrived[c])
  /\ noted' = [noted EXCEPT ![c] = @ + 1]
  /\ UNCHANGED <<clock, arrived, stored, home, state, delivered, orderly, pc, loaded,
                 session, next, got, reply>>

\* The shard is full: a chat's later messages go to the next one.  Bound: it
\* does so with nothing on its way and while no command reads the shards.
Roll(c) ==
  /\ home[c] < Shards
  /\ stored[c] = Len(arrived[c])
  /\ \A k \in Client : pc[k] # "read"
  /\ home' = [home EXCEPT ![c] = @ + 1]
  /\ UNCHANGED <<clock, arrived, stored, noted, state, delivered, orderly, pc, loaded,
                 session, next, got, reply>>

-----------------------------------------------------------------------------
\* The command is over, or has failed: nothing of it is left but the file.
Ended(k) ==
  /\ pc' = [pc EXCEPT ![k] = "idle"]
  /\ loaded' = [loaded EXCEPT ![k] = Empty]
  /\ session' = [session EXCEPT ![k] = [c \in Chat |-> 0]]
  /\ next' = [next EXCEPT ![k] = 0]
  /\ got' = [got EXCEPT ![k] = {}]
  /\ out' = [out EXCEPT ![k] = {}]
  /\ newState' = [newState EXCEPT ![k] = Empty]

\* load_state; a missing file or one that does not parse is a state with no chat.
LoadState(k) ==
  /\ pc[k] = "idle"
  /\ loaded' = [loaded EXCEPT ![k] = state]
  /\ pc' = [pc EXCEPT ![k] = "sessions"]
  /\ orderly' = (orderly /\ \A j \in Client \ {k} : pc[j] = "idle")
  /\ UNCHANGED <<wechat, state, delivered, session, next, got, reply>>

Since(k, c) == IF c \in DOMAIN loaded[k] THEN loaded[k][c] ELSE Fallback

LastTimestamp(c) == IF noted[c] = 0 THEN 0 ELSE arrived[c][noted[c]].ts

Changed(k, sess) == {c \in Chat : sess[c] > Since(k, c)}

\* all_sessions, and what follows when no chat has changed.
ReadSessions(k) ==
  LET sess == [c \in Chat |-> LastTimestamp(c)] IN
  /\ pc[k] = "sessions"
  /\ session' = [session EXCEPT ![k] = sess]
  /\ IF Changed(k, sess) = {}
     THEN pc' = [pc EXCEPT ![k] = "reply"] /\ UNCHANGED next
     ELSE pc' = [pc EXCEPT ![k] = "read"] /\ next' = [next EXCEPT ![k] = 1]
  /\ UNCHANGED <<wechat, state, delivered, orderly, loaded, got, reply>>

\* ORDER BY the time ascending, LIMIT n: ties fall as they may.
Earliest(S, n) ==
  {T \in SUBSET S :
     /\ Cardinality(T) = IF Cardinality(S) <= n THEN Cardinality(S) ELSE n
     /\ \A a \in T : \A b \in S \ T : Time(a) <= Time(b)}

\* Mutant: the row at the cursor is fetched again.
RowsFrom(k, s, c) ==
  {m \in {c} \X (1..stored[c]) : arrived[c][m[2]].shard = s /\ Time(m) >= Since(k, c)}

\* fetch_new_rows_since: what table c of shard s has beyond the cursor.
Rows(k, s, c) ==
  {m \in {c} \X (1..stored[c]) : arrived[c][m[2]].shard = s /\ Time(m) > Since(k, c)}

\* The place after this one in msg_db_keys, 0 after the last.
NextShard(k) == IF next[k] < Shards THEN next[k] + 1 ELSE 0

GoOn(k) ==
  /\ next' = [next EXCEPT ![k] = NextShard(k)]
  /\ pc' = [pc EXCEPT ![k] = IF NextShard(k) # 0 THEN "read" ELSE "reply"]

\* One shard of aggregate_new_messages_by_shard: every changed chat's table is
\* read through one connection.
ReadShard(k) ==
  LET chats == Changed(k, session[k]) IN
  /\ pc[k] = "read"
  /\ \E read \in SUBSET (UNION {Rows(k, next[k], c) : c \in chats}) :
       /\ \A c \in chats :
            read \cap ({c} \X Nat) \in Earliest(Rows(k, next[k], c), PerTable)
       /\ got' = [got EXCEPT ![k] = @ \cup read]
  /\ GoOn(k)
  /\ UNCHANGED <<wechat, state, delivered, orderly, loaded, session, reply>>

\* A shard that cannot be read is skipped, with a line on stderr.
ShardFails(k) ==
  /\ ShardMayFail
  /\ pc[k] = "read"
  /\ GoOn(k)
  /\ UNCHANGED <<wechat, state, delivered, orderly, loaded, session, got, reply>>

\* Mutant: a chat whose messages were all cut off goes on as if they were not.
AdvancedPastCut(k, c, res) ==
  LET mine == {m \in res : m[1] = c} IN
  IF c \in Changed(k, session[k]) /\ mine # {}
  THEN CHOOSE t \in {Time(m) : m \in mine} : \A m \in mine : Time(m) <= t
  ELSE session[k][c]

\* The cursor of chat c after a response with the messages in res.
Advanced(k, c, res) ==
  LET mine == {m \in res : m[1] = c} IN
  IF c \notin Changed(k, session[k]) THEN session[k][c]
  ELSE IF mine # {} THEN CHOOSE t \in {Time(m) : m \in mine} : \A m \in mine : Time(m) <= t
  ELSE IF c \in DOMAIN loaded[k] THEN loaded[k][c]
  ELSE session[k][c]

\* The messages are sorted by time and cut at limit; new_state is computed.
Reply(k) ==
  /\ pc[k] = "reply"
  /\ \E res \in Earliest(got[k], Limit) :
       /\ out' = [out EXCEPT ![k] = res]
       /\ newState' = [newState EXCEPT ![k] =
            [c \in {d \in Chat : session[k][d] # 0} |-> Advanced(k, c, res)]]
  /\ pc' = [pc EXCEPT ![k] = "save"]
  /\ loaded' = [loaded EXCEPT ![k] = Empty]
  /\ session' = [session EXCEPT ![k] = [c \in Chat |-> 0]]
  /\ got' = [got EXCEPT ![k] = {}]
  /\ UNCHANGED <<wechat, state, delivered, orderly, next>>

\* save_state, unless there is nothing to save; its failure is ignored.
SaveState(k) ==
  /\ pc[k] = "save"
  /\ state' \in {IF newState[k] = Empty THEN state ELSE newState[k]}
                 \cup IF SaveMayFail THEN {state} ELSE {}
  /\ pc' = [pc EXCEPT ![k] = "print"]
  /\ newState' = [newState EXCEPT ![k] = Empty]
  /\ orderly' = (orderly /\ (newState[k] # Empty => state' = newState[k]))
  /\ UNCHANGED <<wechat, delivered, loaded, session, next, got, out>>

PrintResponse(k) ==
  /\ pc[k] = "print"
  /\ delivered' = delivered \cup out[k]
  /\ Ended(k)
  /\ UNCHANGED <<wechat, state, orderly>>

\* The command is killed, or the daemon answers with an error or not at all.
Fails(k) ==
  /\ pc[k] \in {"sessions", "read", "reply", "save"}
  /\ Ended(k)
  /\ UNCHANGED <<wechat, state, delivered, orderly>>

WeChat == Tick \/ \E c \in Chat : Arrive(c) \/ Store(c) \/ Note(c) \/ Roll(c)

Command(k) ==
  \/ LoadState(k) \/ ReadSessions(k) \/ ReadShard(k) \/ ShardFails(k)
  \/ Reply(k) \/ SaveState(k) \/ PrintResponse(k)

Next == WeChat \/ \E k \in Client : Command(k) \/ Fails(k)

Spec == Init /\ [][Next]_vars

\* WeChat completes what it began; commands are run again and again, each
\* runs to its end, and from some moment on none fails any more.
Fairness ==
  /\ \A c \in Chat : WF_vars(Store(c)) /\ WF_vars(Note(c))
  /\ \A k \in Client : WF_vars(Command(k))
  /\ <>[][\A k \in Client : ~Fails(k)]_vars
-----------------------------------------------------------------------------
\* new_messages.rs:46-67, query.rs:5781-5787: a message that the saved cursor
\* has passed, be it in its shard already or not, was printed or is about to
\* be: no later command will return it.
NoLoss ==
  \A c \in DOMAIN state : \A i \in 1..Len(arrived[c]) :
    arrived[c][i].ts <= state[c] =>
      <<c, i>> \in delivered \cup UNION {out[k] : k \in {j \in Client : pc[j] = "print"}}

\* A command that prints prints nothing that was printed before.
PrintsNew ==
  \A k \in Client : pc[k] = "print" /\ pc'[k] = "idle" => out[k] \cap delivered = {}

\* query.rs:5786: "incremental fetch": until session.db is behind, commands run
\* at once or a save fails, no message is printed twice.
PrintedOnce == [][orderly => PrintsNew]_vars
=============================================================================
