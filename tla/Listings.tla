------------------------------ MODULE Listings ------------------------------
(***************************************************************************)
(* src/daemon/query.rs: the queries that list or count the rows of one     *)
(* database in one read, or of a chat's shards one after the other: the    *)
(* sessions, unread chats, favorites, moments (sns), articles of official  *)
(* accounts, images and the statistics of a chat.                          *)
(*                                                                         *)
(* `kind` says whose rows the store has.  Each row has the fields that the *)
(* query of that kind looks at; who and what stand for the username and    *)
(* the type or text that is filtered by.                                   *)
(***************************************************************************)
EXTENDS Naturals, FiniteSets

CONSTANTS
    Times,       \* seconds
    Milli,       \* 1000: update_time of some versions is in milliseconds
    MilliFrom,   \* 9_999_999_999: above it a time is in milliseconds
    Types,       \* what chat_type_of answers
    Shards,      \* the shards a chat's messages are in
    Bases,       \* local_type, low half; Image is 3, AppMsg is 49; AnyBase is no filter
    Image, AppMsg, AnyBase,
    Senders,     \* usernames in Name2Id; Chat is the chat's own
    Chat, NoOne, \* NoOne: a real_sender_id that names nobody
    Accounts,    \* official accounts, and authors of moments
    Gh,          \* those whose username begins with gh_
    Limits, Offsets,
    MaxScan,     \* SNS_MAX_SCAN
    MaxRows      \* bound on the store

\* The times are after 1970-04-26 and before 2286-11-20: in milliseconds they are
\* above the threshold, in seconds they are not.
ASSUME ListingsAssumption ==
    /\ Times \subseteq Nat /\ Limits \subseteq Nat /\ Offsets \subseteq Nat
    /\ MilliFrom \in Nat /\ Milli \in Nat \ {0} /\ MaxScan \in Nat
    /\ \A t \in Times : t <= MilliFrom /\ t * Milli > MilliFrom
    /\ IsFiniteSet(Shards) /\ IsFiniteSet(Bases) /\ IsFiniteSet(Senders)
    /\ Chat \notin Senders

VARIABLES
    kind,        \* whose rows these are
    rows,
    milli        \* the times of the favorites are in milliseconds
listVars == <<kind, rows, milli>>

Kinds == {"sessions", "favorites", "notices", "moments", "articles", "messages"}

\* One row, as WeChat may store it; n is its number.
RowOf(k, n) ==
    CASE k = "sessions" -> [id : {n}, time : Times \cup {0}, unread : {0, 1}, type : Types]
      [] k = "favorites" -> [id : {n}, time : Times, type : Bases, hit : BOOLEAN]
      [] k = "notices" -> [id : {n}, time : Times, unread : {0, 1}]
      [] k = "moments" -> [id : {n}, time : Times, column : Accounts \cup {NoOne},
                           author : Accounts, hit : BOOLEAN]
      [] k = "articles" -> [id : {n}, recv : Times, account : Accounts, unread : {0, 1},
                            base : {AppMsg}, items : (SUBSET Times \ {{}}) \cup {{0}}]
      [] k = "messages" -> [id : {n}, time : Times, shard : Shards, base : Bases,
                            sender : Senders \cup {Chat, NoOne}]

ListInit ==
    /\ kind \in Kinds
    /\ rows = {}
    /\ milli \in IF kind = "favorites" THEN BOOLEAN ELSE {FALSE}

Store(r) ==
    /\ Cardinality(rows) < MaxRows
    /\ rows' = rows \cup {r}
    /\ UNCHANGED <<kind, milli>>

ListNext == \E r \in RowOf(kind, Cardinality(rows) + 1) : Store(r)

ListSpec == ListInit /\ [][ListNext]_listVars
-----------------------------------------------------------------------------
Lesser(m, n) == IF m <= n THEN m ELSE n

\* ORDER BY At DESC LIMIT n over S: rows with equal keys come in any order.
Tops(S, n, At(_)) ==
    {p \in SUBSET S : /\ Cardinality(p) = Lesser(n, Cardinality(S))
                      /\ \A r \in p, s \in S \ p : At(r) >= At(s)}
Time(r) == r.time

In(since, until, t) == since <= t /\ t <= until

\* q_sessions
Sessions(limit) == Tops({r \in rows : r.time > 0}, limit, Time)

\* q_unread: a filter is applied to all rows, and then cut.
\* Mutant of Unread: cut first, as it is done without a filter.
UnreadCutFirst(limit, filter) ==
    {{r \in p : r.type \in filter} : p \in Tops({r \in rows : r.unread > 0}, limit, Time)}
Unread(limit, filter) ==
    LET all == {r \in rows : r.unread > 0}
    IN  IF filter = {} THEN Tops(all, limit, Time)
        ELSE Tops({r \in all : r.type \in filter}, limit, Time)

\* q_favorites orders by the column as it is and shows seconds.
Stored(r) == IF milli THEN r.time * Milli ELSE r.time
Seconds(t) == IF t > MilliFrom THEN t \div Milli ELSE t
Favorites(limit, type) ==
    {{[id |-> r.id, time |-> Seconds(Stored(r))] : r \in p} :
        p \in Tops({r \in rows : r.hit /\ type \in {AnyBase, r.type}}, limit, Stored)}

\* q_sns_notifications
Notices(read, since, until, limit) ==
    Tops({r \in rows : (read \/ r.unread = 1) /\ In(since, until, r.time)}, limit, Time)

\* parse_post_xml: the author of a forwarded post is only in its XML.
Author(r) == IF r.column = NoOne THEN r.author ELSE r.column

\* q_sns_feed and q_sns_search: of the rows in the order of their tid the first
\* MaxScan, filtered, put in the order of their times, and cut.
Scanned(S) == {r \in S : Cardinality({s \in S : s.id > r.id}) < MaxScan}
PostsOf(S, user, since, until) ==
    {r \in S : user \in {NoOne, Author(r)} /\ In(since, until, r.time)}
\* Mutant of Feed: the table is taken to be in the order of the times.
FeedCutFirst(S, user, since, until, limit) ==
    {PostsOf(p, user, since, until) : p \in Tops(S, limit, LAMBDA r : r.id)}
Feed(S, user, since, until, limit) ==
    Tops(PostsOf(Scanned(S), user, since, until), limit, Time)
Search(user, since, until, limit) == Feed({r \in rows : r.hit}, user, since, until, limit)

\* q_biz_articles: the messages are filtered by the time they were received, the
\* articles in them ordered by the time of publication.  Only usernames that
\* begin with gh_ are read from Name2Id: the others' articles have no account.
\* An article without a time of publication has that of its message.
Named(a) == IF a \in Gh THEN a ELSE NoOne
Items(r) ==
    {[id |-> r.id, account |-> Named(r.account), time |-> IF t = 0 THEN r.recv ELSE t] :
        t \in r.items}
Articles(accounts, since, until) ==
    UNION {Items(r) :
        r \in {s \in rows : /\ s.account \in accounts /\ s.base = AppMsg
                           /\ In(since, until, s.recv)}}

\* --unread: those of accounts with unread messages, the newest of each; --account
\* finds accounts by their names in Name2Id.
Wanted(asked) ==
    LET unread == {r.account : r \in {s \in rows : s.unread > 0}}
    IN  IF asked = {} THEN unread ELSE unread \cap asked \cap Gh
NewestOfEach(S) == {p \in SUBSET S :
    /\ \A a, b \in p : a.account = b.account => a = b
    /\ \A b \in S : \E a \in p : a.account = b.account /\ a.time >= b.time}
\* Mutant of UnreadArticles: the limit is applied to the articles, not the accounts.
CutThenNewest(asked, since, until, limit) ==
    UNION {NewestOfEach(p) : p \in Tops(Articles(Wanted(asked), since, until), limit, Time)}
UnreadArticles(asked, since, until, limit) ==
    UNION {Tops(p, limit, Time) : p \in NewestOfEach(Articles(Wanted(asked), since, until))}

-----------------------------------------------------------------------------
\* q_attachments: a shard gives at most twice the rows a page ends at; the page
\* is cut out of all shards' rows.
Images(s) == {r \in rows : r.shard = s /\ r.base = Image}
PerDbCapLimit(limit, offset) == limit  \* Mutant of PerDbCap: the offset is forgotten.
PerDbCap(limit, offset) == 2 * (limit + offset)
Merged(cap) ==
    {all \in SUBSET {r \in rows : r.base = Image} :
        \A s \in Shards : {r \in all : r.shard = s} \in Tops(Images(s), cap, Time)}
Page(all, limit, offset) ==
    UNION {{p \ q : q \in {t \in Tops(all, offset, Time) : t \subseteq p}} :
             p \in Tops(all, limit + offset, Time)}
ImageList(limit, offset) ==
    UNION {Page(all, limit, offset) : all \in Merged(PerDbCap(limit, offset))}

\* q_stats: the counts of each shard, added up.
\* Mutant of Windowed: the last second is left out.
WindowedOpen(s, since, until) == {r \in rows : r.shard = s /\ since <= r.time /\ r.time < until}
Windowed(s, since, until) == {r \in rows : r.shard = s /\ In(since, until, r.time)}
Count(s, since, until) == Cardinality(Windowed(s, since, until))
ByType(s, since, until, b) == Cardinality({r \in Windowed(s, since, until) : r.base = b})
BySender(s, since, until, u) ==
    IF u = Chat THEN 0 ELSE Cardinality({r \in Windowed(s, since, until) : r.sender = u})
\* The sum of f[x] over the domain of f.
Sum(f) == Cardinality(UNION {{x} \X (1 .. f[x]) : x \in DOMAIN f})
Stats(since, until) ==
    [total |-> Sum([s \in Shards |-> Count(s, since, until)]),
     type |-> [b \in Bases |-> Sum([s \in Shards |-> ByType(s, since, until, b)])],
     sender |-> [u \in Senders \cup {Chat} |->
                   Sum([s \in Shards |-> BySender(s, since, until, u)])]]
-----------------------------------------------------------------------------
Newest(p, S, n, At(_)) ==
    /\ p \subseteq S /\ Cardinality(p) = Lesser(n, Cardinality(S))
    /\ \A r \in p, s \in S \ p : At(r) >= At(s)

UnreadFirst(limit) ==
    kind = "sessions" => \A filter \in SUBSET Types : \A p \in Unread(limit, filter) :
        Newest(p, {r \in rows : r.unread > 0 /\ (filter = {} \/ r.type \in filter)}, limit, Time)

FavoritesFirst(limit) ==
    kind = "favorites" => \A type \in Bases \cup {AnyBase} : \A p \in Favorites(limit, type) :
        Newest(p, {[id |-> r.id, time |-> r.time] :
                     r \in {s \in rows : s.hit /\ type \in {AnyBase, s.type}}}, limit, Time)

NoticesFirst(limit) ==
    kind = "notices" => \A read \in BOOLEAN, since, until \in Times :
        \A p \in Notices(read, since, until, limit) :
          Newest(p, {r \in rows : (read \/ r.unread = 1) /\ In(since, until, r.time)}, limit, Time)

MomentsFirst(limit) ==
    kind = "moments" /\ Cardinality(rows) <= MaxScan =>
        \A user \in Accounts \cup {NoOne}, since, until \in Times :
          /\ \A p \in Feed(rows, user, since, until, limit) :
               Newest(p, PostsOf(rows, user, since, until), limit, Time)
          /\ \A p \in Search(user, since, until, limit) :
               Newest(p, {r \in PostsOf(rows, user, since, until) : r.hit}, limit, Time)

AllImages == UNION {Images(s) : s \in Shards}
ImagesFirst(limit, offset) ==
    kind = "messages" => \A p \in ImageList(limit, offset) :
        /\ Cardinality(p) = Lesser(limit,
              IF Cardinality(AllImages) < offset THEN 0 ELSE Cardinality(AllImages) - offset)
        /\ \A r \in p :
             /\ Cardinality({s \in AllImages : s.time > r.time}) < offset + limit
             /\ Cardinality({s \in AllImages : s.time < r.time}) < Cardinality(AllImages) - offset

\* What a list leaves out because of its limit is never newer than what it shows,
\* whatever it is filtered by: unread chats, favorites whose times have another
\* unit, moments whose order in the table is not that of their times
\* (query.rs:6563, as long as the table is not longer than one scan).  The pages of
\* a chat's images, cut out of several shards' rows that were cut before, tile the
\* list of all images: each follows the one before (query.rs:7049).
NewestFirst ==
    \A limit \in Limits :
        /\ UnreadFirst(limit) /\ FavoritesFirst(limit) /\ NoticesFirst(limit)
        /\ MomentsFirst(limit) /\ \A offset \in Offsets : ImagesFirst(limit, offset)

\* q_biz_articles --unread: the newest article of every account with unread
\* messages is shown, unless the limit is smaller than their number (query.rs:6945).
\* The accounts without a gh_ username, shown as if they were one, are left out.
EveryUnreadAccount ==
    kind = "articles" =>
      \A asked \in SUBSET Accounts, since, until \in Times, limit \in Limits :
      \A p \in UnreadArticles(asked, since, until, limit) :
        LET all == Articles(Wanted(asked), since, until)
        IN  Cardinality({a.account : a \in all}) <= limit =>
              \A a \in {b \in all : b.account \in Gh} :
                \E b \in p : b.account = a.account /\ b.time >= a.time

\* The statistics of a window are those of its two halves together; every message
\* is counted once by its type and at most once by its sender.
StatsAddUp ==
    kind = "messages" =>
      \A since, until \in Times :
        LET all == Stats(since, until)
        IN  /\ Sum(all.type) = all.total
            /\ Sum(all.sender) <= all.total
            /\ \A t \in Times : since <= t /\ t < until =>
                 LET one == Stats(since, t)
                     two == Stats(t + 1, until)
                 IN  /\ all.total = one.total + two.total
                     /\ \A u \in Senders : all.sender[u] = one.sender[u] + two.sender[u]
=============================================================================
