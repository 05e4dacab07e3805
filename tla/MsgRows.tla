------------------------------ MODULE MsgRows ------------------------------
(***************************************************************************)
(* How daemon/query.rs reads the messages of one chat out of one shard.    *)
(*                                                                         *)
(* A table Msg_<md5> has no index on create_time.  Newer WeChat versions   *)
(* index sort_seq, which is create_time in milliseconds plus an offset, so *)
(* the code asks by sort_seq and argues that nothing is lost.  This module *)
(* has every path to the rows and compares it with the plain table scan.   *)
(*                                                                         *)
(* A query sees one committed table: its statements run on one connection  *)
(* (MergedView!ReadsSnapshot).                                             *)
(***************************************************************************)
EXTENDS Integers, FiniteSets, Sequences

CONSTANTS
    NoSeq,       \* sort_seq IS NULL
    Absent,      \* an Option that is None: no since, no until, no type
    Times,       \* create_time, in seconds
    SeqOffsets,  \* what WeChat adds to create_time * Scale
    Types,       \* the low half of local_type
    AppMsg,      \* local_type 49
    Hits,        \* how a message answers to the keyword, see Row
    AllowBad,    \* some rows cannot be read into an MsgRow
    Scale,       \* 1000: sort_seq units in a second
    Extra,       \* 64: rows fetched beyond those needed
    Growth,      \* 8: the second attempt fetches that many times more
    MinRange,    \* 1024, and Factor, 4: how many rows of the index are few
    Factor,
    MaxInt,      \* i64::MAX, where the floors saturate
    PageSizes, Skips,  \* limits and offsets of the queries
    MaxRows      \* bound on the table

ASSUME MsgRowsAssumption ==
    /\ Times \subseteq Int /\ NoSeq \notin Int /\ Absent \notin Int \cup Types \cup {AppMsg}
    /\ SeqOffsets \subseteq Nat /\ SeqOffsets # {} /\ Hits \subseteq {"raw", "shown", "no"}
    /\ AllowBad \in BOOLEAN /\ Scale \in Nat \ {0} /\ MaxInt \in Nat \ {0}
    /\ Extra \in Nat /\ Growth \in Nat \ {0} /\ MinRange \in Nat /\ Factor \in Nat
    /\ PageSizes \subseteq Nat /\ Skips \subseteq Nat /\ MaxRows \in Nat

VARIABLES
    table,       \* the rows of Msg_<md5>
    indexed      \* the table has the index <table>_SORTSEQ
rowVars == <<table, indexed>>

(***************************************************************************)
(* A row.  hit says where the searched keyword is: in the stored bytes     *)
(* ("raw"), only in what is shown after decompression ("shown"), or        *)
(* nowhere ("no").  ok: every column has the type map_msg_row expects.     *)
(***************************************************************************)
Row == [id : 1..MaxRows, time : Times, seq : Int \cup {NoSeq},
        type : Types, hit : Hits, ok : BOOLEAN]

TableInit == table = {} /\ indexed \in BOOLEAN

HasSeq(r) == r.seq # NoSeq

(* WeChat stores a message; NULL and 0 are the anomalies the code expects.  *)
Arrive(t, s, y, h, b) ==
    /\ Cardinality(table) < MaxRows
    /\ table' = table \cup {[id |-> Cardinality(table) + 1, time |-> t, seq |-> s,
                             type |-> y, hit |-> h, ok |-> b]}
    /\ UNCHANGED indexed

TableNext == \E t \in Times, y \in Types, h \in Hits, b \in {TRUE, ~AllowBad} :
           \E s \in {NoSeq, 0} \cup {t * Scale + o : o \in SeqOffsets} :
               Arrive(t, s, y, h, b)

TableSpec == TableInit /\ [][TableNext]_rowVars

-----------------------------------------------------------------------------
(* Rows in an order of all of them.                                        *)
Sorted(S, Before(_, _)) ==
    [i \in 1..Cardinality(S) |->
        CHOOSE r \in S : Cardinality({x \in S : Before(x, r)}) = i - 1]

Least(a, b) == IF a <= b THEN a ELSE b
Most(a, b) == IF a <= b THEN b ELSE a

(* LIMIT n OFFSET o.                                                        *)
Window(s, o, n) == SubSeq(s, o + 1, Least(Len(s), o + n))

(* ORDER BY create_time DESC; rows of one second in the order of the table. *)
Newer(x, r) == x.time > r.time \/ (x.time = r.time /\ x.id < r.id)
Newest(S) == Sorted(S, Newer)

(* ORDER BY sort_seq DESC, along the index.                                 *)
Later(x, r) == x.seq > r.seq \/ (x.seq = r.seq /\ x.id > r.id)

(* The elements that are kept, in the order they are in.                    *)
Only(s, Keep(_)) ==
    LET kept == Sorted({i \in 1..Len(s) : Keep(s[i])}, LAMBDA i, j : i < j)
    IN  [k \in 1..Len(kept) |-> s[kept[k]]]

(* filter_map(|r| r.ok()): a row that cannot be mapped is dropped, silently *)
(* and after LIMIT.                                                         *)
Mapped(s) == Only(s, LAMBDA r : r.ok)

Bounded(x, lo, hi) == (lo = Absent \/ x >= lo) /\ (hi = Absent \/ x <= hi)
OfType(r, q) == q.type = Absent \/ r.type = q.type
Matches(r, q) == Bounded(r.time, q.since, q.until) /\ OfType(r, q)

FullScan(q) ==
    Mapped(Window(Newest({r \in table : Matches(r, q)}), q.offset, q.limit))

-----------------------------------------------------------------------------
(* The range of the index that has every row of create_time >= s, and of    *)
(* create_time > s; saturating_mul and saturating_add stop at i64::MAX.     *)
FloorGe(s) == Least(s * Scale, MaxInt)
FloorGt(s) == Least((s + 1) * Scale, MaxInt)

FromIndex(floor) == {r \in table : HasSeq(r) /\ r.seq >= floor}
WithoutSeq == {r \in table : ~HasSeq(r)}
NotPositive == {r \in table : HasSeq(r) /\ r.seq <= 0}

(* The row number threshold + 1 of the range does not exist.                *)
Selective(floor, threshold) == Cardinality(FromIndex(floor)) <= threshold
Threshold(n) == Most(MinRange, n * Factor)

(* UNION ALL of the range and the two kinds of row outside of it.  A row    *)
(* that two branches have is there twice.                                   *)
Union(floor) == ({1} \X FromIndex(floor)) \cup ({2} \X WithoutSeq) \cup ({3} \X NotPositive)
Rows(s) == [i \in 1..Len(s) |-> s[i][2]]

SinceScan(q) ==
    LET Before(x, y) == Newer(x[2], y[2]) \/ (x[2] = y[2] /\ x[1] < y[1])
    IN  Mapped(Window(Rows(Sorted({x \in Union(FloorGe(q.since)) : Matches(x[2], q)}, Before)),
                      q.offset, q.limit))

(***************************************************************************)
(* The newest rows, by the index: read the m highest sort_seq, order them  *)
(* by create_time, and accept the answer only when no row left unread can  *)
(* belong to it, because all of those have create_time <= last / Scale.    *)
(***************************************************************************)
Need(q) == q.offset + q.limit
ProbeCap(q) == Need(q) + Extra
ByIndex(q) == Sorted({r \in FromIndex(1) : OfType(r, q)}, Later)

(* Any ProbeCap(q) rows in the order of the index, here by id.              *)
Probed(S, q) == LET Before(x, y) == x.id < y.id
                IN  Mapped(Window(Sorted({r \in S : OfType(r, q)}, Before), 0, ProbeCap(q)))
Probes(q) == Probed(WithoutSeq, q) \o Probed(NotPositive, q)
ProbesOverflow(q) == \E S \in {WithoutSeq, NotPositive} : Len(Probed(S, q)) >= ProbeCap(q)

Fetched(q, m) == Mapped(Window(ByIndex(q), 0, m))
Elements(s) == {s[i] : i \in DOMAIN s}
Candidates(q, m) == Newest(Elements(Probes(q)) \cup Elements(Fetched(q, m)))

(* Mutant of Complete: the first m rows are the newest without further ado. *)
CompleteAlways(q, m) == TRUE
(* Mutant of Complete: the criterion off by one.                            *)
CompleteNearly(q, m) ==
    \/ Len(Fetched(q, m)) < m
    \/ /\ Need(q) <= Len(Candidates(q, m))
       /\ Fetched(q, m)[Len(Fetched(q, m))].seq \div Scale
             <= Candidates(q, m)[Need(q)].time + 1

Complete(q, m) ==
    \/ Len(Fetched(q, m)) < m        \* exhausted
    \/ /\ Need(q) <= Len(Candidates(q, m))
       /\ Fetched(q, m)[Len(Fetched(q, m))].seq \div Scale <= Candidates(q, m)[Need(q)].time

(* The numbers of rows the two attempts read.                               *)
ReadCounts(q) == {Need(q) + Extra, (Need(q) + Extra) * Growth}

TopN(q) ==
    IF Need(q) = 0 THEN <<>>
    ELSE IF ~ProbesOverflow(q) /\ \E m \in ReadCounts(q) : Complete(q, m)
    THEN LET m == CHOOSE m \in ReadCounts(q) :
                    Complete(q, m) /\ \A k \in ReadCounts(q) : Complete(q, k) => m <= k
         IN  Window(Candidates(q, m), q.offset, q.limit)
    ELSE FullScan(q)

(* fetch_message_rows: which path is taken.                                 *)
ByRange(q) == /\ indexed
              /\ q.since # Absent /\ q.since > 0
              /\ Selective(FloorGe(q.since), Threshold(q.limit + q.offset))
Fetch(q) ==
    CASE ByRange(q) -> SinceScan(q)
      [] indexed /\ q.since = Absent /\ q.until = Absent -> TopN(q)
      [] OTHER -> FullScan(q)

-----------------------------------------------------------------------------
(* The poll of new-messages: rows after s, the oldest first.                *)
Older(x, r) == x.time < r.time \/ (x.time = r.time /\ x.id < r.id)
PlainPoll(s, n) == Mapped(Window(Sorted({r \in table : r.time > s}, Older), 0, n))

(* Mutant of Fast: the guard since >= 0 dropped.                            *)
FastAlways(s, n) == indexed /\ Selective(FloorGt(s), Threshold(n))
Fast(s, n) == s >= 0 /\ indexed /\ Selective(FloorGt(s), Threshold(n))

Poll(s, n) ==
    LET Before(x, y) == Older(x[2], y[2]) \/ (x[2] = y[2] /\ x[1] < y[1])
    IN  IF Fast(s, n)
        THEN Mapped(Window(Rows(Sorted({x \in Union(FloorGt(s)) : x[2].time > s}, Before)), 0, n))
        ELSE PlainPoll(s, n)

(* max_create_time: the row of the highest sort_seq and both anomalies.     *)
Maximum(S) == IF S = {} THEN Absent ELSE CHOOSE t \in S : \A u \in S : u <= t
TimesOf(S) == {r.time : r \in S}

(* Mutant of MaxCreateTime: the anomalies are not asked for.                      *)
MaxCreateTimeByIndex ==
    LET main == Sorted({r \in table : HasSeq(r)}, Later)
    IN  Maximum(IF indexed THEN {main[i].time : i \in 1..Least(1, Len(main))} ELSE TimesOf(table))
MaxCreateTime ==
    LET main == Sorted({r \in table : HasSeq(r)}, Later)
    IN  IF indexed
        THEN Maximum({main[i].time : i \in 1..Least(1, Len(main))}
                       \cup TimesOf(WithoutSeq) \cup TimesOf(NotPositive))
        ELSE Maximum(TimesOf(table))

(***************************************************************************)
(* search_in_table.  Links and files are decoded before they are compared, *)
(* and only then counted; of all other types the stored bytes are.         *)
(***************************************************************************)
Decoded(q) == q.type = AppMsg

(* Mutant of Search: LIMIT also in the statement of a decoded search.       *)
SearchCutFirst(q) ==
    IF Decoded(q)
    THEN Only(Mapped(Window(Newest({r \in table : Matches(r, q)}), 0, q.limit)),
                   LAMBDA r : r.hit # "no")
    ELSE Mapped(Window(Newest({r \in table : Matches(r, q) /\ r.hit = "raw"}), 0, q.limit))
Search(q) ==
    IF Decoded(q)
    THEN Window(Only(Mapped(Newest({r \in table : Matches(r, q)})), LAMBDA r : r.hit # "no"),
                0, Most(q.limit, 1))
    ELSE Mapped(Window(Newest({r \in table : Matches(r, q) /\ r.hit = "raw"}), 0, q.limit))

-----------------------------------------------------------------------------
Since == Times \cup {Absent, -1, 0, MaxInt}
Until == Times \cup {Absent}
Query == [since : Since, until : Until, type : {Absent, AppMsg} \cup Types,
          limit : PageSizes, offset : Skips]

TableType == /\ table \in SUBSET Row
          /\ indexed \in BOOLEAN

(* Two answers are the same but for the order within one second.            *)
Same(s, t) == /\ Len(s) = Len(t)
              /\ \A i \in DOMAIN s : s[i].time = t[i].time
              /\ Cardinality(Elements(s)) = Len(s)

(* Whatever path fetch_message_rows takes, its rows are those of the scan   *)
(* of the whole table, each once and in the same order of times             *)
(* (query.rs:2216-2217: "output equivalent row by row").  An empty table has *)
(* no rows to lose.                                                         *)
FetchExact ==
    table # {} => \A q \in Query : Same(Fetch(q), FullScan(q)) /\ \A r \in Elements(Fetch(q)) : Matches(r, q)

(* The same of a poll: no row after the cursor is missed and none comes     *)
(* twice (query.rs:2531-2539).  The newest time, by which the shards are    *)
(* ordered, is never overstated and understated at most by the largest      *)
(* offset (query.rs:2076-2077).                                             *)
PollExact ==
    LET exact == Maximum(TimesOf(table))
    IN  /\ \A s \in Since \ {Absent}, n \in PageSizes :
            Same(Poll(s, n), PlainPoll(s, n)) /\ \A r \in Elements(Poll(s, n)) : r.time > s
        /\ IF table = {} THEN MaxCreateTime = Absent
           ELSE /\ MaxCreateTime # Absent /\ MaxCreateTime <= exact
                /\ \E o \in SeqOffsets : MaxCreateTime * Scale + o >= exact * Scale

(* A search of links and files has the newest matches of what is shown; of  *)
(* the other types, of what is stored (query.rs:2992-3080).                 *)
SearchNewest ==
    table # {} =>
      \A q \in [since : {Absent} \cup Times, until : Until, type : {Absent} \cup Types,
                limit : PageSizes \ {0}, offset : {0}] :
        Search(q) = Window(Newest({r \in table : /\ Matches(r, q)
                                                 /\ \/ r.hit = "raw"
                                                    \/ Decoded(q) /\ r.hit = "shown"}),
                           0, q.limit)
=============================================================================
