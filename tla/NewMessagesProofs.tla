-------------------------- MODULE NewMessagesProofs --------------------------
(***************************************************************************)
(* No message is passed by the cursor of last_check.json without having    *)
(* been printed: for any number of chats, messages, shards and commands    *)
(* that share the file, any limits, failing saves and commands that die at *)
(* any step.  last_check.json holds every chat, a chat's messages are of   *)
(* different seconds, and where there is more than one shard none of them  *)
(* fails: without any one of these a message can be lost.                  *)
(*                                                                         *)
(* Nor is a message printed twice, with no such conditions, as long as     *)
(* what happens is orderly: session.db is never behind the shards,         *)
(* commands do not overlap and every save succeeds.                        *)
(***************************************************************************)
EXTENDS NewMessages, FiniteSetTheorems, WellFoundedInduction, TLAPS

Arrived == [ts : Nat \ {0}, shard : Nat \ {0}]
PCs == {"idle", "sessions", "read", "reply", "save", "print"}

Types ==
  /\ clock \in Nat \ {0}
  /\ arrived \in [Chat -> Seq(Arrived)]
  /\ stored \in [Chat -> Nat] /\ noted \in [Chat -> Nat] /\ home \in [Chat -> Nat \ {0}]
  /\ \A c \in Chat : stored[c] \in 1..Len(arrived[c]) /\ noted[c] \in 1..Len(arrived[c])
  /\ state \in [Chat -> Nat]
  /\ pc \in [Client -> PCs]
  /\ loaded \in [Client -> [Chat -> Nat] \cup {Empty}]
  /\ newState \in [Client -> [Chat -> Nat] \cup {Empty}]
  /\ session \in [Client -> [Chat -> Nat]]
  /\ next \in [Client -> Nat]
  /\ got \in [Client -> SUBSET Message] /\ out \in [Client -> SUBSET Message]

\* A chat's messages are in the order of their times and of their shards, and
\* those of a shard it has left are all stored.
InOrder ==
  \A c \in Chat : \A i \in 1..Len(arrived[c]) :
    /\ arrived[c][i].ts <= clock /\ arrived[c][i].shard <= home[c]
    /\ arrived[c][i].shard < home[c] => i <= stored[c]
    /\ \A j \in 1..Len(arrived[c]) :
         i < j => /\ arrived[c][i].ts < arrived[c][j].ts
                  /\ arrived[c][i].shard <= arrived[c][j].shard

\* What is printed, or will be: the command has saved its cursors.
Printed == delivered \cup UNION {out[k] : k \in {j \in Client : pc[j] = "print"}}

Last(c) == arrived[c][Len(arrived[c])].ts

\* The cursor t has passed only messages of S.
Passed(c, t, S) ==
  /\ t <= Last(c)
  /\ \A i \in 1..Len(arrived[c]) : arrived[c][i].ts <= t => <<c, i>> \in S

\* Every copy of a cursor a command has may become the file's without passing an
\* unprinted message.
CommandCursors(k) ==
  /\ pc[k] \in {"sessions", "read", "reply"} =>
       loaded[k] \in [Chat -> Nat] /\ \A c \in Chat : Passed(c, loaded[k][c], Printed)
  /\ pc[k] \in {"read", "reply"} => \A c \in Chat : session[k][c] \in 1..Last(c)
  /\ pc[k] = "save" =>
       /\ newState[k] \in [Chat -> Nat]
       /\ \A c \in Chat : Passed(c, newState[k][c], Printed \cup out[k])

\* Message i of chat c has been fetched, or per_table_limit others that are no
\* later were.
Fetched(k, c, i) ==
  \/ <<c, i>> \in got[k]
  \/ \E S \in SUBSET got[k] :
       Cardinality(S) = PerTable /\ \A x \in S : Time(x) <= arrived[c][i].ts

\* Nothing earlier than a fetched message of the same chat was passed over.
Closed(k) ==
  \A m \in got[k] : \A i \in 1..Len(arrived[m[1]]) :
    i < m[2] /\ loaded[k][m[1]] < arrived[m[1]][i].ts => Fetched(k, m[1], i)

\* Nor was anything in a shard that has been read and that the chat has left.
Complete(k) ==
  \A c \in Changed(k, session[k]) : \A i \in 1..Len(arrived[c]) :
    /\ arrived[c][i].shard < next[k] /\ arrived[c][i].shard < home[c]
    /\ loaded[k][c] < arrived[c][i].ts
    => Fetched(k, c, i)

CommandReads(k) ==
  /\ IsFiniteSet(got[k])
  /\ \A m \in got[k] : m[2] \in 1..Len(arrived[m[1]])
  /\ pc[k] \notin {"read", "reply"} => got[k] = {}
  /\ Closed(k)
  /\ pc[k] = "read" => next[k] \in 1..Shards /\ Complete(k)

FileCursors == \A c \in Chat : Passed(c, state[c], Printed)

LossInv ==
  /\ Types /\ InOrder /\ FileCursors
  /\ \A k \in Client : CommandCursors(k) /\ CommandReads(k)

-----------------------------------------------------------------------------
\* A finite set of numbers that is not empty has a largest one.
LEMMA Largest ==
  ASSUME NEW T \in SUBSET Nat, IsFiniteSet(T), T # {}
  PROVE  \E x \in T : \A y \in T : y <= x
<1> DEFINE Above(x) == {y \in T : y > x}
           A == {Above(x) : x \in T}
           R == StrictSubsetOrdering(T)
<1>1. A # {} /\ A \subseteq FiniteSubsetsOf(T)
  <2>1. \A x \in T : Above(x) \in SUBSET T /\ IsFiniteSet(Above(x))
    BY FS_Subset
  <2> QED BY <2>1 DEF FiniteSubsetsOf
<1>2. PICK U \in A : \A V \in A : <<V, U>> \notin R
  <2> HIDE DEF A, R
  <2>1. IsWellFoundedOn(StrictSubsetOrdering(T), FiniteSubsetsOf(T))
    BY FS_StrictSubsetOrderingWellFounded
  <2> QED BY <1>1, <2>1, WFMin DEF R
<1>3. PICK x \in T : U = Above(x)
  OBVIOUS
<1>4. ASSUME NEW y \in T, ~ y <= x
      PROVE  FALSE
  <2>1. x \in Nat /\ y \in Nat /\ y > x
    BY <1>4
  <2>2. y \in U /\ y \notin Above(y)
    BY <1>3, <2>1
  <2>3. \A z \in Above(y) : z \in Above(x)
    <3> TAKE z \in Above(y)
    <3>1. z \in T /\ z \in Nat /\ z > y
      OBVIOUS
    <3> QED BY <2>1, <3>1
  <2>4. <<Above(y), U>> \in R
    BY <1>3, <2>2, <2>3 DEF StrictSubsetOrdering
  <2> QED BY <1>2, <2>4
<1> QED BY <1>4

LEMMA ArrivedTypes ==
  ASSUME Types, NEW c \in Chat
  PROVE  /\ arrived[c] \in Seq(Arrived) /\ Len(arrived[c]) \in Nat \ {0}
         /\ \A i \in 1..Len(arrived[c]) :
              arrived[c][i].ts \in Nat \ {0} /\ arrived[c][i].shard \in Nat \ {0}
         /\ Last(c) \in Nat \ {0}
<1>1. arrived[c] \in Seq(Arrived) /\ Len(arrived[c]) \in Nat \ {0}
  BY DEF Types
<1>2. \A i \in 1..Len(arrived[c]) : arrived[c][i] \in Arrived
  BY <1>1
<1> QED BY <1>1, <1>2 DEF Arrived, Last

\* An older cursor has passed less.
LEMMA PassedLess ==
  ASSUME Types, NEW c \in Chat, NEW t \in Nat, NEW u \in Nat, NEW S, NEW T,
         Passed(c, t, S), u <= t, S \subseteq T
  PROVE  Passed(c, u, T)
BY ArrivedTypes DEF Passed

\* What is printed or saved stays so.
LEMMA PrintedGrows == ASSUME Types, [Next]_vars PROVE Printed \subseteq Printed'
<1>1. CASE WeChat \/ UNCHANGED vars
  BY <1>1 DEF WeChat, Tick, Arrive, Store, Note, Roll, vars, reply, Printed
<1>2. ASSUME NEW k \in Client, Command(k) \/ Fails(k)
      PROVE  Printed \subseteq Printed'
  <2>1. CASE LoadState(k) \/ ReadSessions(k) \/ ReadShard(k) \/ ShardFails(k) \/ Fails(k)
    BY <2>1 DEF LoadState, ReadSessions, ReadShard, ShardFails, GoOn, Fails, Ended, Types,
      reply, Printed
  <2>2. CASE Reply(k) \/ SaveState(k)
    <3>1. /\ delivered' = delivered
          /\ \A j \in Client : pc[j] = "print" => pc'[j] = "print" /\ out'[j] = out[j]
      BY <2>2 DEF Reply, SaveState, Types
    <3> QED BY <3>1 DEF Printed
  <2>3. CASE PrintResponse(k)
    BY <2>3 DEF PrintResponse, Ended, Types, Printed
  <2> QED BY <1>2, <2>1, <2>2, <2>3 DEF Command
<1> QED BY <1>1, <1>2 DEF Next

LEMMA InitLoss == ASSUME Known = Chat PROVE Init => LossInv
<1> SUFFICES ASSUME Init PROVE LossInv
  OBVIOUS
<1> USE DEF Init
<1>1. Types
  BY DEF Types, Arrived, PCs, Empty, Message
<1>2. \A c \in Chat : Len(arrived[c]) = 1 /\ arrived[c][1] = [ts |-> 1, shard |-> 1]
  OBVIOUS
<1>3. InOrder
  BY <1>2 DEF InOrder
<1>4. FileCursors /\ \A k \in Client : CommandCursors(k)
  BY <1>2 DEF FileCursors, CommandCursors, Passed, Last, Printed
<1>5. \A k \in Client : CommandReads(k)
  BY FS_EmptySet DEF CommandReads, Closed
<1> QED BY <1>1, <1>3, <1>4, <1>5 DEF LossInv

\* Everything WeChat does goes forward, and a chat rolls over with nothing on
\* its way.
Grows ==
  /\ clock' \in Nat \ {0} /\ clock <= clock'
  /\ stored' \in [Chat -> Nat] /\ noted' \in [Chat -> Nat]
  /\ home' \in [Chat -> Nat \ {0}]
  /\ \A d \in Chat : /\ stored'[d] \in 1..Len(arrived[d]) /\ noted'[d] \in 1..Len(arrived[d])
                     /\ stored[d] <= stored'[d] /\ home[d] <= home'[d]
                     /\ home'[d] = home[d] \/ stored'[d] = Len(arrived[d])

LEMMA QuietKeeps ==
  ASSUME LossInv, Tick \/ \E c \in Chat : Store(c) \/ Note(c) \/ Roll(c)
  PROVE  LossInv'
<1>1. UNCHANGED <<arrived, state, delivered, pc, loaded, session, next, got, out, newState>>
  BY DEF Tick, Store, Note, Roll, reply
<1>2. /\ clock \in Nat \ {0} /\ stored \in [Chat -> Nat] /\ noted \in [Chat -> Nat]
      /\ home \in [Chat -> Nat \ {0}]
      /\ \A d \in Chat : /\ Len(arrived[d]) \in Nat
                         /\ stored[d] \in 1..Len(arrived[d]) /\ noted[d] \in 1..Len(arrived[d])
  BY DEF LossInv, Types
<1>3. Grows
  <2>1. CASE Tick
    BY <1>2, <2>1 DEF Tick, Grows
  <2>2. ASSUME NEW c \in Chat, Store(c)
      PROVE  Grows
    <3>1. stored[c] < Len(arrived[c]) /\ stored' = [stored EXCEPT ![c] = stored[c] + 1]
      BY <1>2, <2>2 DEF Store, Grows
    <3> QED BY <1>2, <2>2, <3>1 DEF Store, Grows
  <2>3. ASSUME NEW c \in Chat, Note(c)
      PROVE  Grows
    BY <1>2, <2>3 DEF Note, Grows
  <2>4. ASSUME NEW c \in Chat, Roll(c)
      PROVE  Grows
    BY <1>2, <2>4 DEF Roll, Grows
  <2> QED BY <2>1, <2>2, <2>3, <2>4
<1>4. Types'
  BY <1>1, <1>3 DEF LossInv, Types, Grows
<1>5. InOrder'
  <2> SUFFICES ASSUME NEW d \in Chat, NEW i \in 1..Len(arrived[d])
               PROVE  /\ arrived[d][i].ts <= clock' /\ arrived[d][i].shard <= home'[d]
                      /\ arrived[d][i].shard < home'[d] => i <= stored'[d]
    BY <1>1 DEF LossInv, InOrder
  <2>1. /\ arrived[d][i].ts <= clock /\ arrived[d][i].shard <= home[d]
        /\ arrived[d][i].shard < home[d] => i <= stored[d]
    BY DEF LossInv, InOrder
  <2>2. /\ arrived[d][i].ts \in Nat /\ arrived[d][i].shard \in Nat
        /\ i \in Nat /\ i <= Len(arrived[d]) /\ Len(arrived[d]) \in Nat
    BY ArrivedTypes DEF LossInv
  <2>3. /\ clock <= clock' /\ stored[d] <= stored'[d] /\ home[d] <= home'[d]
        /\ home'[d] = home[d] \/ stored'[d] = Len(arrived[d])
        /\ clock \in Nat /\ clock' \in Nat /\ stored[d] \in Nat /\ stored'[d] \in Nat
        /\ home[d] \in Nat /\ home'[d] \in Nat
    BY <1>2, <1>3 DEF Grows
  <2> QED BY <2>1, <2>2, <2>3
<1>6. FileCursors' /\ \A k \in Client : CommandCursors(k)'
  BY <1>1 DEF LossInv, FileCursors, CommandCursors, Passed, Last, Printed
<1>7. \A k \in Client : CommandReads(k)'
  <2>1. \A k \in Client : pc[k] = "read" => home' = home
    BY DEF Tick, Store, Note, Roll
  <2> SUFFICES ASSUME NEW k \in Client PROVE CommandReads(k)'
    OBVIOUS
  <2>2. Closed(k)' = Closed(k) /\ \A d \in Chat, i \in Nat : Fetched(k, d, i)' = Fetched(k, d, i)
    BY <1>1 DEF Closed, Fetched, Time
  <2>3. pc[k] = "read" /\ Complete(k) => Complete(k)'
    BY <1>1, <2>1 DEF Complete, Changed, Since, Fetched, Time
  <2> QED BY <1>1, <2>2, <2>3 DEF LossInv, CommandReads
<1> QED BY <1>4, <1>5, <1>6, <1>7 DEF LossInv

LEMMA ArriveKeeps ==
  ASSUME ~AllowTies, LossInv, NEW c \in Chat, Arrive(c)
  PROVE  LossInv'
<1> DEFINE n == Len(arrived[c])
           new == [ts |-> clock, shard |-> home[c]]
<1>1. /\ UNCHANGED <<clock, stored, noted, home, state, delivered, pc, loaded, session, next,
                     got, out, newState>>
      /\ arrived' = [arrived EXCEPT ![c] = Append(arrived[c], new)]
      /\ arrived \in [Chat -> Seq(Arrived)] /\ n \in Nat \ {0}
      /\ arrived[c][n].ts < clock
      /\ clock \in Nat \ {0} /\ home[c] \in Nat \ {0} /\ new \in Arrived
  <2>1. /\ arrived \in [Chat -> Seq(Arrived)] /\ n \in Nat \ {0}
        /\ clock \in Nat \ {0} /\ home[c] \in Nat \ {0}
    BY ArrivedTypes DEF LossInv, Types
  <2>2. new \in Arrived
    BY <2>1 DEF Arrived
  <2> QED BY <2>1, <2>2 DEF Arrive, reply
<1>2. /\ arrived' \in [Chat -> Seq(Arrived)]
      /\ Len(arrived'[c]) = n + 1 /\ arrived'[c][n + 1] = new
      /\ \A i \in 1..n : arrived'[c][i] = arrived[c][i]
      /\ \A d \in Chat : d # c => arrived'[d] = arrived[d]
  <2>1. /\ Append(arrived[c], new) \in Seq(Arrived)
        /\ Len(Append(arrived[c], new)) = n + 1
        /\ Append(arrived[c], new)[n + 1] = new
        /\ \A i \in 1..n : Append(arrived[c], new)[i] = arrived[c][i]
    BY <1>1
  <2> HIDE DEF new
  <2> QED BY <1>1, <2>1
<1>3. \A d \in Chat : /\ Len(arrived[d]) \in Nat /\ Len(arrived[d]) <= Len(arrived'[d])
                      /\ \A i \in 1..Len(arrived[d]) : arrived'[d][i] = arrived[d][i]
  BY <1>1, <1>2, ArrivedTypes DEF LossInv
<1> HIDE DEF n, new
<1>4. Types'
  BY <1>1, <1>2, <1>3 DEF LossInv, Types
<1>5. InOrder'
  <2>1. ASSUME NEW d \in Chat, d # c
        PROVE  \A i \in 1..Len(arrived'[d]) :
                 /\ arrived'[d][i].ts <= clock /\ arrived'[d][i].shard <= home[d]
                 /\ arrived'[d][i].shard < home[d] => i <= stored[d]
                 /\ \A j \in 1..Len(arrived'[d]) :
                      i < j => /\ arrived'[d][i].ts < arrived'[d][j].ts
                               /\ arrived'[d][i].shard <= arrived'[d][j].shard
    BY <1>2, <2>1 DEF LossInv, InOrder
  <2>2. \A i \in 1..n :
          /\ arrived[c][i].ts \in Nat /\ arrived[c][i].ts < clock
          /\ arrived[c][i].shard \in Nat /\ arrived[c][i].shard <= home[c]
          /\ arrived[c][i].shard < home[c] => i <= stored[c]
          /\ \A j \in 1..n : i < j => /\ arrived[c][i].ts < arrived[c][j].ts
                                      /\ arrived[c][i].shard <= arrived[c][j].shard
    <3>1. \A i \in 1..n : arrived[c][i].ts \in Nat /\ arrived[c][i].shard \in Nat
      BY ArrivedTypes DEF LossInv, n
    <3>2. \A i \in 1..n :
            /\ arrived[c][i].shard <= home[c]
            /\ arrived[c][i].shard < home[c] => i <= stored[c]
            /\ \A j \in 1..n : i < j => /\ arrived[c][i].ts < arrived[c][j].ts
                                        /\ arrived[c][i].shard <= arrived[c][j].shard
      BY DEF LossInv, InOrder, n
    <3>3. n \in 1..n /\ \A i \in 1..n : i = n \/ i < n
      BY <1>1
    <3>4. \A i \in 1..n : arrived[c][i].ts < clock
      BY <1>1, <3>1, <3>2, <3>3
    <3> QED BY <3>1, <3>2, <3>4
  <2>3. ASSUME NEW i \in 1..(n + 1)
        PROVE  /\ arrived'[c][i].ts <= clock /\ arrived'[c][i].shard <= home[c]
               /\ arrived'[c][i].shard < home[c] => i <= stored[c]
               /\ \A j \in 1..(n + 1) :
                    i < j => /\ arrived'[c][i].ts < arrived'[c][j].ts
                             /\ arrived'[c][i].shard <= arrived'[c][j].shard
    BY <1>1, <1>2, <2>2 DEF new
  <2> QED BY <1>1, <1>2, <2>1, <2>3 DEF InOrder
<1>6. ASSUME NEW d \in Chat, NEW t \in Nat, NEW S, Passed(d, t, S)
      PROVE  Passed(d, t, S)'
  <2>1. CASE d # c
    BY <1>2, <1>6, <2>1 DEF Passed, Last
  <2>2. CASE d = c
    <3>1. t <= arrived[c][n].ts /\ arrived[c][n].ts \in Nat
      BY <1>1, <1>6, <2>2, ArrivedTypes DEF Passed, Last, LossInv, n
    <3>2. arrived'[c][n + 1].ts = clock
      BY <1>2 DEF new
    <3>3. t < clock
      BY <1>1, <3>1
    <3> QED BY <1>1, <1>2, <1>6, <2>2, <3>2, <3>3 DEF Passed, Last, n
  <2> QED BY <2>1, <2>2
<1>7. Printed' = Printed
  BY <1>1 DEF Printed
<1>8. FileCursors'
  BY <1>1, <1>6, <1>7 DEF LossInv, Types, FileCursors
<1>9. ASSUME NEW k \in Client
      PROVE  CommandCursors(k)'
  <2>1. \A d \in Chat : Last(d) \in Nat /\ Last(d)' \in Nat /\ Last(d) <= Last(d)'
    <3>1. \A d \in Chat : Last(d) \in Nat
      BY ArrivedTypes DEF LossInv
    <3>2. \A d \in Chat : d # c => Last(d)' = Last(d)
      BY <1>2 DEF Last
    <3>3. Last(c)' = clock /\ Last(c) < clock
      BY <1>1, <1>2 DEF Last, n, new
    <3> QED BY <1>1, <3>1, <3>2, <3>3
  <2>2. pc[k] \in {"sessions", "read", "reply"} =>
          loaded'[k] \in [Chat -> Nat] /\ \A d \in Chat : Passed(d, loaded[k][d], Printed)'
    BY <1>1, <1>6, <1>7 DEF LossInv, CommandCursors
  <2>3. pc[k] \in {"read", "reply"} => \A d \in Chat : session'[k][d] \in 1..Last(d)'
    <3>1. pc[k] \in {"read", "reply"} => \A d \in Chat : session[k][d] \in 1..Last(d)
      BY DEF LossInv, CommandCursors
    <3> QED BY <1>1, <2>1, <3>1
  <2>4. pc[k] = "save" =>
          /\ newState'[k] \in [Chat -> Nat]
          /\ \A d \in Chat : Passed(d, newState[k][d], Printed \cup out[k])'
    BY <1>1, <1>6, <1>7 DEF LossInv, CommandCursors
  <2> QED BY <1>1, <2>2, <2>3, <2>4 DEF CommandCursors
<1>10. ASSUME NEW k \in Client
       PROVE  CommandReads(k)'
  <2>1. \A m \in got[k] : m[1] \in Chat /\ m[2] \in 1..Len(arrived[m[1]])
    BY DEF LossInv, Types, CommandReads, Message
  <2>2. ASSUME NEW d \in Chat, NEW i \in 1..Len(arrived[d]), Fetched(k, d, i)
        PROVE  Fetched(k, d, i)'
    <3>1. arrived'[d][i] = arrived[d][i] /\ \A x \in got[k] : Time(x)' = Time(x)
      BY <1>3, <2>1 DEF Time
    <3> QED BY <1>1, <2>2, <3>1 DEF Fetched
  <2>3. \A m \in got[k] : m[2] \in 1..Len(arrived'[m[1]])
    BY <1>3, <2>1
  <2>4. Closed(k)'
    BY <1>1, <1>3, <2>1, <2>2 DEF LossInv, CommandReads, Closed
  <2>5. Complete(k) => Complete(k)'
    BY <1>1, <1>2, <1>3, <2>2 DEF Complete, Changed, Since, n, new
  <2> QED BY <1>1, <2>3, <2>4, <2>5 DEF LossInv, CommandReads
<1> QED BY <1>4, <1>5, <1>8, <1>9, <1>10 DEF LossInv

-----------------------------------------------------------------------------
\* A step of one command leaves the messages and the other commands alone.
OthersAlone(k) ==
  /\ UNCHANGED wechat /\ Printed \subseteq Printed'
  /\ \A j \in Client \ {k} :
       /\ pc'[j] = pc[j] /\ loaded'[j] = loaded[j] /\ session'[j] = session[j]
       /\ next'[j] = next[j] /\ got'[j] = got[j] /\ out'[j] = out[j]
       /\ newState'[j] = newState[j]

LEMMA OthersKeep ==
  ASSUME LossInv, NEW k \in Client, OthersAlone(k)
  PROVE  \A j \in Client \ {k} : CommandCursors(j)' /\ CommandReads(j)'
<1> SUFFICES ASSUME NEW j \in Client \ {k}
             PROVE  CommandCursors(j)' /\ CommandReads(j)'
  OBVIOUS
<1>1. /\ UNCHANGED <<arrived, stored, home>> /\ Printed \subseteq Printed'
      /\ pc'[j] = pc[j] /\ loaded'[j] = loaded[j] /\ session'[j] = session[j]
      /\ next'[j] = next[j] /\ got'[j] = got[j] /\ out'[j] = out[j]
      /\ newState'[j] = newState[j]
  BY DEF OthersAlone, wechat
<1>2. CommandCursors(j) /\ CommandReads(j)
  BY DEF LossInv
<1>3. \A c \in Chat : Last(c)' = Last(c)
  BY <1>1 DEF Last
<1>4. CommandCursors(j)'
  BY <1>1, <1>2, <1>3 DEF CommandCursors, Passed
<1>5. Closed(j)' = Closed(j) /\ Complete(j)' = Complete(j)
  BY <1>1 DEF Closed, Complete, Changed, Since, Fetched, Time
<1>6. CommandReads(j)'
  BY <1>1, <1>2, <1>5 DEF CommandReads
<1> QED BY <1>4, <1>6

\* What is left to show of a command's step that does not save.
LEMMA CommandKeeps ==
  ASSUME LossInv, NEW k \in Client, OthersAlone(k), state' = state,
         Types', CommandCursors(k)', CommandReads(k)'
  PROVE  LossInv'
<1>1. InOrder'
  BY DEF OthersAlone, wechat, LossInv, InOrder
<1>2. FileCursors'
  BY DEF OthersAlone, wechat, LossInv, FileCursors, Passed, Last
<1> QED BY <1>1, <1>2, OthersKeep DEF LossInv

LEMMA CommandAlone ==
  ASSUME LossInv, NEW k \in Client, Command(k) \/ Fails(k)
  PROVE  OthersAlone(k)
<1>1. Printed \subseteq Printed'
  BY PrintedGrows DEF LossInv, Next
<1>2. CASE LoadState(k) \/ ReadSessions(k) \/ ShardFails(k) \/ Fails(k)
  BY <1>1, <1>2 DEF LossInv, Types, OthersAlone, LoadState, ReadSessions, ShardFails, GoOn,
    Fails, Ended, reply
<1>3. CASE ReadShard(k)
  BY <1>1, <1>3 DEF LossInv, Types, OthersAlone, ReadShard, GoOn, reply
<1>4. CASE Reply(k)
  BY <1>1, <1>4 DEF LossInv, Types, OthersAlone, Reply
<1>5. CASE SaveState(k) \/ PrintResponse(k)
  BY <1>1, <1>5 DEF LossInv, Types, OthersAlone, SaveState, PrintResponse, Ended
<1> QED BY <1>2, <1>3, <1>4, <1>5 DEF Command

LEMMA LoadStateKeeps ==
  ASSUME LossInv, NEW k \in Client, LoadState(k)
  PROVE  LossInv'
<1>1. Types'
  BY DEF LoadState, LossInv, Types, PCs, wechat, reply
<1>2. CommandCursors(k)'
  BY DEF LoadState, LossInv, Types, FileCursors, CommandCursors, Passed, Last, Printed,
    wechat, reply
<1>3. CommandReads(k)'
  BY DEF LoadState, LossInv, Types, CommandReads, Closed, wechat
<1> QED BY <1>1, <1>2, <1>3, CommandKeeps, CommandAlone DEF Command, LoadState

LEMMA ReadSessionsKeeps ==
  ASSUME LossInv, NEW k \in Client, ReadSessions(k)
  PROVE  LossInv'
<1> DEFINE sess == [c \in Chat |-> LastTimestamp(c)]
<1>1. \A c \in Chat : sess[c] \in 1..Last(c) /\ sess[c] \in Nat
  <2> SUFFICES ASSUME NEW c \in Chat PROVE sess[c] \in 1..Last(c) /\ sess[c] \in Nat
    OBVIOUS
  <2>1. noted[c] \in 1..Len(arrived[c]) /\ Len(arrived[c]) \in 1..Len(arrived[c])
    BY DEF LossInv, Types
  <2>2. sess[c] = arrived[c][noted[c]].ts
    BY <2>1 DEF LastTimestamp
  <2>3. sess[c] \in Nat \ {0} /\ Last(c) \in Nat
    BY <2>1, <2>2, ArrivedTypes DEF LossInv
  <2>4. noted[c] = Len(arrived[c]) \/ arrived[c][noted[c]].ts < Last(c)
    BY <2>1 DEF LossInv, InOrder, Last
  <2> QED BY <2>2, <2>3, <2>4 DEF Last
<1>2. /\ UNCHANGED <<wechat, state, delivered, loaded, got, reply>>
      /\ session' = [session EXCEPT ![k] = sess]
      /\ \/ pc' = [pc EXCEPT ![k] = "reply"] /\ next' = next
         \/ pc' = [pc EXCEPT ![k] = "read"] /\ next' = [next EXCEPT ![k] = 1]
      /\ pc[k] = "sessions"
  BY DEF ReadSessions
<1> HIDE DEF sess
<1>3. Types'
  <2>1. session' \in [Client -> [Chat -> Nat]]
    BY <1>1, <1>2 DEF sess, LossInv, Types
  <2>2. pc' \in [Client -> PCs] /\ next' \in [Client -> Nat]
    <3>1. pc \in [Client -> PCs] /\ next \in [Client -> Nat] /\ {"reply", "read"} \subseteq PCs
      BY DEF LossInv, Types, PCs
    <3> QED BY <1>2, <3>1
  <2> QED BY <1>2, <2>1, <2>2 DEF LossInv, Types, wechat, reply
<1>4. pc'[k] \in {"reply", "read"} /\ (pc'[k] = "read" => next'[k] = 1) /\ session'[k] = sess
  BY <1>2 DEF LossInv, Types
<1>5. CommandCursors(k)'
  <2>1. loaded[k] \in [Chat -> Nat] /\ \A c \in Chat : Passed(c, loaded[k][c], Printed)
    BY <1>2 DEF LossInv, CommandCursors
  <2>2. Printed \subseteq Printed'
    BY CommandAlone DEF Command, OthersAlone
  <2>3. \A c \in Chat : Passed(c, loaded[k][c], Printed)' /\ Last(c)' = Last(c)
    BY <1>2, <2>1, <2>2 DEF Passed, Last, wechat
  <2> QED BY <1>1, <1>2, <1>4, <2>1, <2>3 DEF CommandCursors
<1>6. CommandReads(k)'
  <2>1. got'[k] = {}
    BY <1>2 DEF LossInv, CommandReads
  <2>2. \A c \in Chat : \A i \in 1..Len(arrived'[c]) : ~(arrived'[c][i].shard < 1)
    BY <1>2, ArrivedTypes DEF LossInv, wechat
  <2> QED BY <1>4, <2>1, <2>2, FS_EmptySet, NewMessagesAssumption
     DEF CommandReads, Closed, Complete, Changed
<1> QED BY <1>2, <1>3, <1>5, <1>6, CommandKeeps, CommandAlone DEF Command

LEMMA ShardFailsKeeps ==
  ASSUME ShardMayFail => Shards = 1, LossInv, NEW k \in Client, ShardFails(k)
  PROVE  LossInv'
<1>1. pc[k] = "read" /\ next[k] = 1 /\ Shards = 1
  BY NewMessagesAssumption DEF ShardFails, LossInv, CommandReads
<1>2. /\ UNCHANGED <<wechat, state, delivered, loaded, session, got, reply>>
      /\ pc' = [pc EXCEPT ![k] = "reply"] /\ next' = [next EXCEPT ![k] = 0]
  BY <1>1 DEF ShardFails, GoOn, NextShard
<1>3. Types' /\ pc'[k] = "reply"
  BY <1>2 DEF LossInv, Types, PCs, wechat, reply
<1>4. Printed \subseteq Printed'
  BY CommandAlone DEF Command, OthersAlone
<1>5. CommandCursors(k)'
  BY <1>1, <1>2, <1>3, <1>4 DEF LossInv, CommandCursors, Passed, Last, wechat
<1>6. CommandReads(k)'
  <2>1. Closed(k)'
    BY <1>2 DEF LossInv, CommandReads, Closed, Fetched, Time, wechat
  <2> QED BY <1>2, <1>3, <2>1 DEF LossInv, CommandReads, wechat
<1> QED BY <1>2, <1>3, <1>5, <1>6, CommandKeeps, CommandAlone DEF Command

LEMMA RowsFinite ==
  ASSUME LossInv, NEW k \in Client, NEW s, NEW c \in Chat
  PROVE  IsFiniteSet(Rows(k, s, c))
<1>1. stored[c] \in Int
  BY DEF LossInv, Types
<1>2. IsFiniteSet({c})
  BY FS_Singleton
<1>3. IsFiniteSet(1..stored[c])
  BY <1>1, FS_Interval
<1>4. IsFiniteSet({c} \X (1..stored[c]))
  BY <1>2, <1>3, FS_Product
<1> QED BY <1>4, FS_Subset DEF Rows

\* What ReadShard has of one chat: everything beyond the cursor, or
\* per_table_limit messages that are no later than what is missing.
LEMMA EarliestFetches ==
  ASSUME LossInv, NEW k \in Client, NEW s \in Nat, NEW c \in Chat,
         loaded[k] \in [Chat -> Nat],
         NEW T \in Earliest(Rows(k, s, c), PerTable),
         NEW i \in 1..stored[c], arrived[c][i].shard = s, loaded[k][c] < arrived[c][i].ts
  PROVE  /\ IsFiniteSet(T)
         /\ \/ <<c, i>> \in T
            \/ Cardinality(T) = PerTable /\ \A x \in T : Time(x) <= arrived[c][i].ts
<1> DEFINE R == Rows(k, s, c)
<1>1. IsFiniteSet(R)
  BY RowsFinite
<1>2. T \in SUBSET R /\ IsFiniteSet(T)
  BY <1>1, FS_Subset DEF Earliest
<1>3. <<c, i>> \in R
  BY DEF Rows, Since, Time
<1>4. CASE Cardinality(R) <= PerTable
  <2>1. Cardinality(T) = Cardinality(R)
    BY <1>4 DEF Earliest
  <2>2. T = R
    BY <1>1, <1>2, <2>1, FS_Subset
  <2> QED BY <1>2, <1>3, <2>2
<1>5. CASE ~(Cardinality(R) <= PerTable)
  <2>1. Cardinality(T) = PerTable /\ \A a \in T : \A b \in R \ T : Time(a) <= Time(b)
    BY <1>5 DEF Earliest
  <2>2. Time(<<c, i>>) = arrived[c][i].ts
    BY DEF Time
  <2> QED BY <1>2, <1>3, <2>1, <2>2
<1> QED BY <1>4, <1>5

LEMMA ReadShardKeeps ==
  ASSUME LossInv, NEW k \in Client, ReadShard(k)
  PROVE  LossInv'
<1> DEFINE chats == Changed(k, session[k])
           s == next[k]
<1>1. PICK read \in SUBSET (UNION {Rows(k, s, c) : c \in chats}) :
        /\ \A c \in chats : read \cap ({c} \X Nat) \in Earliest(Rows(k, s, c), PerTable)
        /\ got' = [got EXCEPT ![k] = got[k] \cup read]
  BY DEF ReadShard
<1>2. /\ UNCHANGED <<wechat, state, delivered, loaded, session, reply>>
      /\ \/ /\ next' = [next EXCEPT ![k] = s + 1] /\ pc' = [pc EXCEPT ![k] = "read"]
            /\ s < Shards
         \/ next' = [next EXCEPT ![k] = 0] /\ pc' = [pc EXCEPT ![k] = "reply"]
      /\ pc[k] = "read" /\ s \in 1..Shards /\ s \in Nat
  BY DEF ReadShard, GoOn, NextShard, LossInv, Types, CommandReads
<1>3. loaded[k] \in [Chat -> Nat] /\ chats \subseteq Chat
  BY <1>2 DEF LossInv, CommandCursors, Changed
<1>4. \A m \in read :
        /\ m = <<m[1], m[2]>> /\ m[1] \in chats /\ m[2] \in 1..stored[m[1]]
        /\ m[2] \in Nat /\ arrived[m[1]][m[2]].shard = s
        /\ m[2] \in 1..Len(arrived[m[1]])
  <2>1. \A c \in Chat : stored[c] \in Nat /\ stored[c] <= Len(arrived[c])
                        /\ Len(arrived[c]) \in Nat
    BY DEF LossInv, Types
  <2>2. \A c \in chats : \A m \in Rows(k, s, c) :
          /\ m = <<m[1], m[2]>> /\ m[1] = c /\ m[2] \in 1..stored[c]
          /\ arrived[c][m[2]].shard = s
    BY DEF Rows
  <2>3. \A m \in read : \E c \in chats : m \in Rows(k, s, c)
    OBVIOUS
  <2> HIDE DEF chats, s
  <2> QED BY <1>3, <2>1, <2>2, <2>3
<1> HIDE DEF s, chats
<1>5. IsFiniteSet(read)
  <2> DEFINE part == [c \in chats |-> read \cap ({c} \X Nat)]
  <2>1. IsFiniteSet(chats)
    BY <1>3, NewMessagesAssumption, FS_Subset
  <2>2. \A c \in chats : IsFiniteSet(part[c])
    <3> TAKE c \in chats
    <3>1. IsFiniteSet(Rows(k, s, c))
      BY <1>3, RowsFinite
    <3>2. part[c] \in SUBSET Rows(k, s, c)
      BY <1>1 DEF Earliest
    <3> QED BY <3>1, <3>2, FS_Subset
  <2>3. IsFiniteSet({part[c] : c \in chats})
    <3> DEFINE parts == {part[c] : c \in chats}
    <3>1. part \in Surjection(chats, parts)
      BY DEF Surjection
    <3> HIDE DEF part, parts
    <3> QED BY <2>1, <3>1, FS_Surjection DEF parts
  <2>4. IsFiniteSet(UNION {part[c] : c \in chats})
    <3> HIDE DEF part
    <3> QED BY <2>2, <2>3, FS_UNION
  <2>5. read \subseteq UNION {part[c] : c \in chats}
    <3> SUFFICES ASSUME NEW m \in read PROVE m \in UNION {part[c] : c \in chats}
      OBVIOUS
    <3>1. m[1] \in chats /\ m \in {m[1]} \X Nat
      BY <1>4
    <3> QED BY <3>1
  <2> QED BY <2>4, <2>5, FS_Subset
<1>6. /\ got'[k] = got[k] \cup read
      /\ pc'[k] = "read" => next'[k] = s + 1 /\ s < Shards
      /\ pc'[k] \in {"read", "reply"}
      /\ UNCHANGED <<arrived, stored, noted, home, clock, loaded, session, out, newState>>
  BY <1>1, <1>2 DEF LossInv, Types, wechat, reply
<1>7. ASSUME NEW c \in Chat, NEW i, Fetched(k, c, i)
      PROVE  Fetched(k, c, i)'
  BY <1>6, <1>7 DEF Fetched, Time
<1>8. ASSUME NEW c \in chats, NEW i \in 1..stored[c], arrived[c][i].shard = s,
             loaded[k][c] < arrived[c][i].ts
      PROVE  Fetched(k, c, i)'
  <2> DEFINE T == read \cap ({c} \X Nat)
  <2>1. T \in Earliest(Rows(k, s, c), PerTable)
    BY <1>1
  <2>2. \/ <<c, i>> \in T
        \/ Cardinality(T) = PerTable /\ \A x \in T : Time(x) <= arrived[c][i].ts
    BY <1>2, <1>3, <1>8, <2>1, EarliestFetches
  <2>3. T \in SUBSET got'[k] /\ \A x \in T : Time(x)' = Time(x)
    BY <1>6 DEF Time
  <2> QED BY <1>6, <2>2, <2>3 DEF Fetched
<1>9. Types'
  <2>1. read \subseteq Message
    BY <1>3, <1>4 DEF Message
  <2>2. got' \in [Client -> SUBSET Message]
    BY <1>1, <2>1 DEF LossInv, Types
  <2>3. pc' \in [Client -> PCs] /\ next' \in [Client -> Nat]
    <3>1. pc \in [Client -> PCs] /\ next \in [Client -> Nat] /\ {"reply", "read"} \subseteq PCs
      BY DEF LossInv, Types, PCs
    <3> QED BY <1>2, <3>1
  <2> QED BY <1>2, <1>6, <2>2, <2>3 DEF LossInv, Types
<1>10. CommandCursors(k)'
  <2>1. Printed \subseteq Printed'
    BY CommandAlone DEF Command, OthersAlone
  <2> QED BY <1>2, <1>6, <2>1 DEF LossInv, CommandCursors, Passed, Last
<1>11. Closed(k)'
  <2> SUFFICES ASSUME NEW m \in got'[k], NEW i \in 1..Len(arrived[m[1]]),
                      i < m[2], loaded[k][m[1]] < arrived[m[1]][i].ts
               PROVE  Fetched(k, m[1], i)'
    BY <1>6 DEF Closed
  <2>1. CASE m \in got[k]
    <3>1. Fetched(k, m[1], i) /\ m[1] \in Chat
      BY <2>1 DEF LossInv, Types, Message, CommandReads, Closed
    <3> QED BY <1>7, <3>1
  <2>2. CASE m \in read
    <3>1. /\ m[1] \in chats /\ m[1] \in Chat /\ i \in 1..stored[m[1]]
          /\ m[2] \in 1..Len(arrived[m[1]]) /\ arrived[m[1]][m[2]].shard = s
      <4>1. m[1] \in chats /\ m[2] \in 1..stored[m[1]] /\ stored[m[1]] \in Nat
        BY <1>3, <1>4, <2>2 DEF LossInv, Types
      <4>2. i \in 1..stored[m[1]]
        BY <4>1
      <4> QED BY <1>3, <1>4, <2>2, <4>1, <4>2
    <3>2. arrived[m[1]][i].shard <= s /\ s <= home[m[1]]
      BY <3>1 DEF LossInv, InOrder
    <3>3. arrived[m[1]][i].shard \in Nat /\ home[m[1]] \in Nat
      BY <3>1, ArrivedTypes DEF LossInv, Types
    <3>4. CASE arrived[m[1]][i].shard = s
      BY <1>8, <3>1, <3>4
    <3>5. CASE arrived[m[1]][i].shard < s
      <4>1. arrived[m[1]][i].shard < home[m[1]]
        BY <1>2, <3>2, <3>3, <3>5
      <4>2. Complete(k)
        BY <1>2 DEF LossInv, CommandReads
      <4>3. Fetched(k, m[1], i)
        BY <3>1, <3>5, <4>1, <4>2 DEF Complete, chats, s
      <4> QED BY <1>7, <3>1, <4>3
    <3> QED BY <1>2, <3>2, <3>3, <3>4, <3>5
  <2> QED BY <1>6, <2>1, <2>2
<1>12. ASSUME pc'[k] = "read"
       PROVE  next'[k] \in 1..Shards /\ Complete(k)'
  <2>1. next'[k] \in 1..Shards
    BY <1>2, <1>6, <1>12, NewMessagesAssumption
  <2> SUFFICES ASSUME NEW c \in chats, NEW i \in 1..Len(arrived[c]),
                      arrived[c][i].shard < s + 1, arrived[c][i].shard < home[c],
                      loaded[k][c] < arrived[c][i].ts
               PROVE  Fetched(k, c, i)'
    BY <1>6, <1>12, <2>1 DEF Complete, Changed, Since, chats
  <2>2. arrived[c][i].shard \in Nat /\ c \in Chat
    BY <1>3, ArrivedTypes DEF LossInv
  <2>3. CASE arrived[c][i].shard = s
    <3>1. i <= stored[c] /\ stored[c] \in Nat
      BY <2>2 DEF LossInv, InOrder, Types
    <3>2. i \in 1..stored[c]
      BY <3>1
    <3> QED BY <1>8, <2>3, <3>2
  <2>4. CASE arrived[c][i].shard < s
    <3>1. Complete(k)
      BY <1>2 DEF LossInv, CommandReads
    <3>2. Fetched(k, c, i)
      BY <2>4, <3>1 DEF Complete, chats, s
    <3> QED BY <1>7, <2>2, <3>2
  <2> QED BY <1>2, <2>2, <2>3, <2>4
<1>13. CommandReads(k)'
  <2>1. IsFiniteSet(got[k] \cup read)
    BY <1>5, FS_Union DEF LossInv, CommandReads
  <2>2. \A m \in got[k] \cup read : m[2] \in 1..Len(arrived[m[1]])
    BY <1>4 DEF LossInv, CommandReads
  <2> QED BY <1>6, <1>11, <1>12, <2>1, <2>2 DEF CommandReads
<1> QED BY <1>2, <1>9, <1>10, <1>13, CommandKeeps, CommandAlone DEF Command

\* The cursors of a response pass only what was printed and what it prints.
LEMMA AdvancedPasses ==
  ASSUME LossInv, NEW k \in Client, pc[k] = "reply", NEW c \in Chat,
         NEW res \in Earliest(got[k], Limit)
  PROVE  /\ Advanced(k, c, res) \in Nat
         /\ Passed(c, Advanced(k, c, res), Printed \cup res)
<1> DEFINE mine == {m \in res : m[1] = c}
<1>1. /\ loaded[k] \in [Chat -> Nat] /\ Passed(c, loaded[k][c], Printed)
      /\ session[k][c] \in Nat
  BY DEF LossInv, CommandCursors, Types
<1>2. /\ res \subseteq got[k] /\ IsFiniteSet(res)
      /\ \A a \in res : \A b \in got[k] \ res : Time(a) <= Time(b)
  BY FS_Subset DEF LossInv, CommandReads, Earliest
<1>3. Cardinality(res) <= Limit /\ Cardinality(res) \in Nat
  <2>1. Cardinality(res) \in Nat /\ Cardinality(got[k]) \in Nat
    BY <1>2, FS_CardinalityType DEF LossInv, CommandReads
  <2> QED BY <2>1, NewMessagesAssumption DEF Earliest
<1>4. CASE c \notin Changed(k, session[k])
  <2>1. session[k][c] <= loaded[k][c]
    BY <1>1, <1>4 DEF Changed, Since
  <2>2. Passed(c, session[k][c], Printed \cup res)
    BY <1>1, <2>1, PassedLess DEF LossInv
  <2> QED BY <1>1, <1>4, <2>2 DEF Advanced
<1>5. CASE c \in Changed(k, session[k]) /\ mine = {}
  <2>1. Advanced(k, c, res) = loaded[k][c]
    BY <1>1, <1>5 DEF Advanced
  <2>2. Passed(c, loaded[k][c], Printed \cup res)
    BY <1>1, PassedLess DEF LossInv
  <2> QED BY <1>1, <2>1, <2>2
<1>6. CASE c \in Changed(k, session[k]) /\ mine # {}
  <2> DEFINE times == {Time(m) : m \in mine}
             t == CHOOSE u \in times : \A m \in mine : Time(m) <= u
  <2>1. \A m \in mine :
          /\ m = <<c, m[2]>> /\ m[2] \in 1..Len(arrived[c])
          /\ Time(m) = arrived[c][m[2]].ts /\ Time(m) \in Nat /\ Time(m) <= Last(c)
    <3> TAKE m \in mine
    <3>1. m = <<c, m[2]>> /\ m[2] \in 1..Len(arrived[c]) /\ Time(m) = arrived[c][m[2]].ts
      BY <1>2 DEF LossInv, Types, Message, CommandReads, Time
    <3>2. Time(m) \in Nat /\ Last(c) \in Nat /\ Len(arrived[c]) \in Nat \ {0}
      BY <3>1, ArrivedTypes DEF LossInv
    <3>3. m[2] = Len(arrived[c]) \/ arrived[c][m[2]].ts < Last(c)
      BY <3>1, <3>2 DEF LossInv, InOrder, Last
    <3> QED BY <3>1, <3>2, <3>3 DEF Last
  <2>2. times \in SUBSET Nat /\ times # {} /\ IsFiniteSet(times)
    <3>1. Last(c) \in Nat
      BY ArrivedTypes DEF LossInv
    <3>2. times \in SUBSET Nat /\ times # {} /\ \A u \in times : u <= Last(c)
      BY <1>6, <2>1
    <3> HIDE DEF times
    <3> QED BY <3>1, <3>2, FS_BoundedSetOfNaturals
  <2>3. t \in times /\ \A m \in mine : Time(m) <= t
    <3>1. PICK u \in times : \A v \in times : v <= u
      <4> HIDE DEF times
      <4> QED BY <2>2, Largest
    <3>2. \E w \in times : \A m \in mine : Time(m) <= w
      BY <3>1
    <3> HIDE DEF times
    <3> QED BY <3>2
  <2>4. PICK last \in mine : Time(last) = t
    BY <2>3
  <2>5. Advanced(k, c, res) = t
    BY <1>6 DEF Advanced
  <2> HIDE DEF t, times
  <2>6. ASSUME NEW i \in 1..Len(arrived[c]), arrived[c][i].ts <= t
        PROVE  <<c, i>> \in Printed \cup res
    <3>1. /\ last = <<c, last[2]>> /\ last \in res /\ last \in got[k] /\ last[1] = c
          /\ last[2] \in 1..Len(arrived[c]) /\ t = arrived[c][last[2]].ts
      BY <1>2, <2>1, <2>4
    <3>2. /\ arrived[c][i].ts \in Nat /\ t \in Nat /\ loaded[k][c] \in Nat
          /\ Len(arrived[c]) \in Nat
      BY <1>1, <3>1, ArrivedTypes DEF LossInv
    <3>3. CASE arrived[c][i].ts <= loaded[k][c]
      BY <1>1, <3>3 DEF Passed
    <3>4. CASE i = last[2]
      BY <3>1, <3>4
    <3>5. CASE loaded[k][c] < arrived[c][i].ts /\ i # last[2]
      <4>1. i < last[2] /\ arrived[c][i].ts < t
        BY <2>6, <3>1, <3>2, <3>5 DEF LossInv, InOrder
      <4>2. Fetched(k, c, i)
        BY <3>1, <3>5, <4>1 DEF LossInv, CommandReads, Closed
      <4>3. CASE <<c, i>> \in got[k]
        <5>1. Time(<<c, i>>) = arrived[c][i].ts
          BY DEF Time
        <5> QED BY <1>2, <2>4, <3>1, <3>2, <4>1, <4>3, <5>1
      <4>4. ASSUME NEW S \in SUBSET got[k], Cardinality(S) = PerTable,
                   \A x \in S : Time(x) <= arrived[c][i].ts
            PROVE  FALSE
        <5>1. \A x \in S : Time(x) \in Nat
          <6>1. \A x \in got[k] : x[1] \in Chat /\ x[2] \in 1..Len(arrived[x[1]])
            BY DEF LossInv, Types, Message, CommandReads
          <6> QED BY <6>1, ArrivedTypes DEF LossInv, Time
        <5>2. S \subseteq res /\ last \notin S
          BY <1>2, <2>4, <3>1, <3>2, <4>1, <4>4, <5>1
        <5>3. IsFiniteSet(S) /\ Cardinality(S \cup {last}) = PerTable + 1
          BY <1>2, <4>4, <5>2, FS_Subset, FS_AddElement
        <5>4. Cardinality(S \cup {last}) <= Cardinality(res)
          BY <1>2, <3>1, <5>2, FS_Subset
        <5> QED BY <1>3, <5>3, <5>4, NewMessagesAssumption
      <4> QED BY <4>2, <4>3, <4>4 DEF Fetched
    <3> QED BY <3>2, <3>3, <3>4, <3>5
  <2>7. t \in Nat /\ t <= Last(c)
    BY <2>1, <2>4
  <2> QED BY <2>5, <2>6, <2>7 DEF Passed
<1> QED BY <1>4, <1>5, <1>6

LEMMA ReplyKeeps ==
  ASSUME LossInv, NEW k \in Client, Reply(k)
  PROVE  LossInv'
<1>1. PICK res \in Earliest(got[k], Limit) :
        /\ out' = [out EXCEPT ![k] = res]
        /\ newState' = [newState EXCEPT ![k] =
             [c \in {d \in Chat : session[k][d] # 0} |-> Advanced(k, c, res)]]
  BY DEF Reply
<1>2. /\ pc[k] = "reply" /\ pc' = [pc EXCEPT ![k] = "save"]
      /\ loaded' = [loaded EXCEPT ![k] = Empty]
      /\ session' = [session EXCEPT ![k] = [c \in Chat |-> 0]]
      /\ got' = [got EXCEPT ![k] = {}]
      /\ UNCHANGED <<wechat, state, delivered, next>>
  BY DEF Reply
<1>3. {d \in Chat : session[k][d] # 0} = Chat
  <2>1. \A c \in Chat : session[k][c] \in 1..Last(c) /\ Last(c) \in Nat
    BY <1>2, ArrivedTypes DEF LossInv, CommandCursors
  <2> QED BY <2>1
<1>4. newState' = [newState EXCEPT ![k] = [c \in Chat |-> Advanced(k, c, res)]]
  BY <1>1, <1>3
<1>5. \A c \in Chat : /\ Advanced(k, c, res) \in Nat
                      /\ Passed(c, Advanced(k, c, res), Printed \cup res)
  BY <1>2, AdvancedPasses
<1>6. Types'
  <2>1. res \subseteq Message
    BY <1>1 DEF LossInv, Types, Earliest
  <2>2. /\ out' \in [Client -> SUBSET Message] /\ got' \in [Client -> SUBSET Message]
        /\ newState' \in [Client -> [Chat -> Nat] \cup {Empty}]
        /\ loaded' \in [Client -> [Chat -> Nat] \cup {Empty}]
        /\ session' \in [Client -> [Chat -> Nat]]
    BY <1>1, <1>2, <1>4, <1>5, <2>1 DEF LossInv, Types
  <2>3. pc' \in [Client -> PCs]
    BY <1>2 DEF LossInv, Types, PCs
  <2> QED BY <1>2, <2>2, <2>3 DEF LossInv, Types, wechat
<1>7. /\ pc'[k] = "save" /\ got'[k] = {} /\ out'[k] = res
      /\ newState'[k] = [c \in Chat |-> Advanced(k, c, res)]
  BY <1>1, <1>2, <1>4 DEF LossInv, Types
<1>8. CommandCursors(k)'
  <2>1. Printed \subseteq Printed'
    BY CommandAlone DEF Command, OthersAlone
  <2>2. \A c \in Chat : Passed(c, newState[k][c], Printed \cup out[k])'
    BY <1>2, <1>5, <1>7, <2>1 DEF Passed, Last, wechat
  <2> QED BY <1>5, <1>7, <2>2 DEF CommandCursors
<1>9. CommandReads(k)'
  BY <1>7, FS_EmptySet DEF CommandReads, Closed
<1> QED BY <1>2, <1>6, <1>8, <1>9, CommandKeeps, CommandAlone DEF Command

LEMMA SaveStateKeeps ==
  ASSUME LossInv, NEW k \in Client, SaveState(k)
  PROVE  LossInv'
<1>1. /\ pc[k] = "save" /\ pc' = [pc EXCEPT ![k] = "print"]
      /\ newState' = [newState EXCEPT ![k] = Empty]
      /\ state' \in {state, newState[k]}
      /\ UNCHANGED <<wechat, delivered, loaded, session, next, got, out>>
  BY DEF SaveState
<1>2. /\ newState[k] \in [Chat -> Nat]
      /\ \A c \in Chat : Passed(c, newState[k][c], Printed \cup out[k])
  BY <1>1 DEF LossInv, CommandCursors
<1>3. OthersAlone(k)
  BY CommandAlone DEF Command
<1>4. pc'[k] = "print"
  BY <1>1 DEF LossInv, Types
<1>5. Printed \cup out[k] \subseteq Printed'
  BY <1>1, <1>3, <1>4 DEF OthersAlone, Printed
<1>6. FileCursors'
  BY <1>1, <1>2, <1>5 DEF LossInv, FileCursors, Passed, Last, wechat
<1>7. Types'
  <2>1. /\ pc' \in [Client -> PCs] /\ state' \in [Chat -> Nat]
        /\ newState' \in [Client -> [Chat -> Nat] \cup {Empty}]
    BY <1>1, <1>2 DEF LossInv, Types, PCs
  <2> QED BY <1>1, <2>1 DEF LossInv, Types, wechat
<1>8. CommandCursors(k)' /\ CommandReads(k)'
  <2>1. CommandCursors(k)'
    BY <1>4 DEF CommandCursors
  <2>2. got'[k] = {}
    BY <1>1 DEF LossInv, CommandReads
  <2> QED BY <1>4, <2>1, <2>2, FS_EmptySet DEF CommandReads, Closed
<1>9. InOrder'
  BY <1>1 DEF wechat, LossInv, InOrder
<1> QED BY <1>3, <1>6, <1>7, <1>8, <1>9, OthersKeep DEF LossInv

LEMMA EndKeeps ==
  ASSUME LossInv, NEW k \in Client, PrintResponse(k) \/ Fails(k)
  PROVE  LossInv'
<1>1. Ended(k) /\ UNCHANGED <<wechat, state>>
  BY DEF PrintResponse, Fails
<1>2. /\ pc' = [pc EXCEPT ![k] = "idle"] /\ loaded' = [loaded EXCEPT ![k] = Empty]
      /\ session' = [session EXCEPT ![k] = [c \in Chat |-> 0]]
      /\ next' = [next EXCEPT ![k] = 0] /\ got' = [got EXCEPT ![k] = {}]
      /\ out' = [out EXCEPT ![k] = {}] /\ newState' = [newState EXCEPT ![k] = Empty]
  BY <1>1 DEF Ended
<1>3. Types'
  <2>1. /\ pc' \in [Client -> PCs] /\ next' \in [Client -> Nat]
        /\ out' \in [Client -> SUBSET Message] /\ got' \in [Client -> SUBSET Message]
        /\ newState' \in [Client -> [Chat -> Nat] \cup {Empty}]
        /\ loaded' \in [Client -> [Chat -> Nat] \cup {Empty}]
        /\ session' \in [Client -> [Chat -> Nat]]
    BY <1>2 DEF LossInv, Types, PCs
  <2> QED BY <1>1, <2>1 DEF LossInv, Types, wechat
<1>4. pc'[k] = "idle" /\ got'[k] = {}
  BY <1>2 DEF LossInv, Types
<1>5. CommandCursors(k)' /\ CommandReads(k)'
  BY <1>4, FS_EmptySet DEF CommandCursors, CommandReads, Closed
<1> QED BY <1>1, <1>3, <1>5, CommandKeeps, CommandAlone DEF Command

LEMMA StepLoss ==
  ASSUME ~AllowTies, ShardMayFail => Shards = 1
  PROVE  LossInv /\ [Next]_vars => LossInv'
<1> SUFFICES ASSUME LossInv, [Next]_vars
             PROVE  LossInv'
  OBVIOUS
<1>1. CASE UNCHANGED vars
  <2>1. Types'
    BY <1>1 DEF vars, wechat, reply, LossInv, Types
  <2>2. InOrder' /\ FileCursors'
    BY <1>1 DEF vars, wechat, LossInv, InOrder, FileCursors, Passed, Last, Printed, reply
  <2>3. \A k \in Client : CommandCursors(k)' /\ CommandReads(k)'
    <3> SUFFICES ASSUME NEW k \in Client PROVE CommandCursors(k)' /\ CommandReads(k)'
      OBVIOUS
    <3>1. UNCHANGED <<arrived, home, delivered, pc, loaded, session, next, got, out, newState>>
      BY <1>1 DEF vars, wechat, reply
    <3>2. CommandCursors(k)' = CommandCursors(k)
      BY <3>1 DEF CommandCursors, Passed, Last, Printed
    <3>3. Closed(k)' = Closed(k) /\ Complete(k)' = Complete(k)
      BY <3>1 DEF Closed, Complete, Changed, Since, Fetched, Time
    <3> QED BY <3>1, <3>2, <3>3 DEF LossInv, CommandReads
  <2> QED BY <2>1, <2>2, <2>3 DEF LossInv
<1>2. ASSUME NEW c \in Chat, Arrive(c) \/ Store(c) \/ Note(c) \/ Roll(c)
      PROVE  LossInv'
  BY <1>2, ArriveKeeps, QuietKeeps
<1>3. CASE Tick
  BY <1>3, QuietKeeps
<1>4. ASSUME NEW k \in Client, Command(k) \/ Fails(k)
      PROVE  LossInv'
  BY <1>4, LoadStateKeeps, ReadSessionsKeeps, ReadShardKeeps, ShardFailsKeeps, ReplyKeeps,
     SaveStateKeeps, EndKeeps DEF Command
<1> QED BY <1>1, <1>2, <1>3, <1>4 DEF Next, WeChat

\* query.rs:5781-5787: whatever a limit cuts off, whoever else runs the command
\* and however it ends, a message the saved cursor has passed was printed, or a
\* command that has saved its cursors is about to print it.
THEOREM CursorLosesNothing ==
  ASSUME Known = Chat, ~AllowTies, ShardMayFail => Shards = 1
  PROVE  Spec => []NoLoss
<1>1. Init => LossInv
  BY InitLoss
<1>2. LossInv /\ [Next]_vars => LossInv'
  BY StepLoss
<1>3. LossInv => NoLoss
  BY DEF LossInv, Types, FileCursors, Passed, Printed, NoLoss
<1> QED BY <1>1, <1>2, <1>3, PTL DEF Spec

-----------------------------------------------------------------------------
(* Nothing is printed twice *)

\* Cursors of some of the chats.
Cursors == UNION {[S -> Nat] : S \in SUBSET Chat}

FileTypes ==
  /\ clock \in Nat \ {0}
  /\ arrived \in [Chat -> Seq(Arrived)]
  /\ stored \in [Chat -> Nat] /\ noted \in [Chat -> Nat] /\ home \in [Chat -> Nat \ {0}]
  /\ \A c \in Chat : stored[c] <= Len(arrived[c]) /\ noted[c] <= Len(arrived[c])
  /\ state \in Cursors /\ delivered \subseteq Message /\ orderly \in BOOLEAN
  /\ pc \in [Client -> PCs]
  /\ loaded \in [Client -> Cursors] /\ newState \in [Client -> Cursors]
  /\ session \in [Client -> [Chat -> Nat]] /\ next \in [Client -> Nat]
  /\ got \in [Client -> SUBSET Message] /\ out \in [Client -> SUBSET Message]
  /\ \A k \in Client : \A m \in got[k] : m[2] \in 1..stored[m[1]]

\* Times go forward.
Ordered ==
  \A c \in Chat : \A i \in 1..Len(arrived[c]) :
    arrived[c][i].ts <= clock /\ \A j \in i..Len(arrived[c]) : arrived[c][i].ts <= arrived[c][j].ts

\* m is in its shard, and a cursor of s has passed it.
Behind(m, s) == m[2] \in 1..stored[m[1]] /\ m[1] \in DOMAIN s /\ Time(m) <= s[m[1]]

\* Cursors are not ahead of session.db, which is not behind the shards, and what
\* is printed they have passed.
FileShown ==
  /\ \A c \in DOMAIN state : state[c] <= LastTimestamp(c)
  /\ \A m \in delivered : Behind(m, state)

FileOnce ==
  /\ \A c \in Chat : stored[c] <= noted[c]
  /\ FileShown
  /\ \A j, k \in Client : pc[j] # "idle" /\ pc[k] # "idle" => j = k

\* What a command has fetched is newer than the file's cursor, which it alone can
\* move; what it saves is no older, and passes what it prints.
CommandOnce(k) ==
  /\ pc[k] \in {"sessions", "read", "reply"} => loaded[k] = state
  /\ pc[k] \in {"read", "reply"} =>
       /\ \A c \in Chat : session[k][c] <= LastTimestamp(c)
       /\ \A c \in DOMAIN state : state[c] <= session[k][c]
       /\ \A m \in got[k] : m[1] \in Changed(k, session[k]) /\ Time(m) > Since(k, m[1])
  /\ pc[k] \in {"idle", "sessions"} => got[k] = {}
  /\ pc[k] = "save" =>
       /\ \A c \in DOMAIN newState[k] : newState[k][c] <= LastTimestamp(c)
       /\ \A m \in delivered \cup out[k] : Behind(m, newState[k])
  /\ pc[k] = "print" => \A m \in out[k] : Behind(m, state)
  /\ pc[k] \in {"save", "print"} => out[k] \cap delivered = {}

OnceInv ==
  /\ FileTypes /\ Ordered
  /\ orderly => FileOnce /\ \A k \in Client : CommandOnce(k)
LEMMA CursorsOf ==
  /\ Empty \in Cursors /\ DOMAIN Empty = {}
  /\ \A s \in Cursors : DOMAIN s \subseteq Chat /\ \A c \in DOMAIN s : s[c] \in Nat
  /\ \A S \in SUBSET Chat : \A f \in [S -> Nat] : f \in Cursors
  BY DEF Cursors, Empty

LEMMA MessageTimes ==
  ASSUME FileTypes, NEW c \in Chat
  PROVE  /\ stored[c] \in Nat /\ noted[c] \in Nat /\ Len(arrived[c]) \in Nat
         /\ stored[c] <= Len(arrived[c]) /\ noted[c] <= Len(arrived[c])
         /\ \A i \in 1..Len(arrived[c]) :
              arrived[c][i] \in Arrived /\ arrived[c][i].ts \in Nat \ {0}
         /\ LastTimestamp(c) \in Nat
<1>1. /\ stored[c] \in Nat /\ noted[c] \in Nat /\ arrived[c] \in Seq(Arrived)
      /\ stored[c] <= Len(arrived[c]) /\ noted[c] <= Len(arrived[c])
  BY DEF FileTypes
<1>2. \A i \in 1..Len(arrived[c]) : arrived[c][i] \in Arrived
  BY <1>1
<1>3. \A i \in 1..Len(arrived[c]) : arrived[c][i].ts \in Nat \ {0}
  BY <1>2 DEF Arrived
<1>4. noted[c] # 0 => noted[c] \in 1..Len(arrived[c])
  BY <1>1
<1> QED
  BY <1>1, <1>2, <1>3, <1>4 DEF LastTimestamp

\* A message that session.db accounts for is no newer than what it shows.
LEMMA StoredShown ==
  ASSUME FileTypes, Ordered, NEW c \in Chat, NEW i \in 1..noted[c]
  PROVE  arrived[c][i].ts <= LastTimestamp(c)
<1>1. i \in 1..Len(arrived[c]) /\ noted[c] \in i..Len(arrived[c]) /\ noted[c] # 0
  BY MessageTimes
<1> QED
  BY <1>1 DEF Ordered, LastTimestamp

LEMMA InitOnce ==
  ASSUME Init
  PROVE  OnceInv
<1>1. \A c \in Chat : \/ arrived[c] = <<[ts |-> 1, shard |-> 1]>> /\ c \in Known
                      \/ arrived[c] = <<>> /\ c \notin Known
  BY DEF Init
<1>2. arrived \in [Chat -> Seq(Arrived)]
  <2>1. [ts |-> 1, shard |-> 1] \in Arrived
    BY DEF Arrived
  <2> QED
    BY <2>1 DEF Init
<1>3. state \in Cursors /\ Known \subseteq Chat
  BY CursorsOf, NewMessagesAssumption DEF Init
<1>4. FileTypes
  <2>1. loaded \in [Client -> Cursors] /\ newState \in [Client -> Cursors]
    BY CursorsOf DEF Init
  <2>2. /\ stored \in [Chat -> Nat] /\ noted \in [Chat -> Nat]
        /\ \A c \in Chat : stored[c] = Len(arrived[c]) /\ noted[c] = Len(arrived[c])
    BY <1>2 DEF Init
  <2>3. delivered \subseteq Message
    BY <1>3 DEF Init, Message
  <2> QED
    BY <1>2, <1>3, <2>1, <2>2, <2>3 DEF Init, FileTypes, PCs
<1>5. Ordered
  BY <1>1 DEF Ordered, Init
<1>6. FileOnce
  <2>1. \A c \in Known : LastTimestamp(c) = 1 /\ stored[c] = 1
    BY <1>1, <1>3 DEF Init, LastTimestamp
  <2>2. \A m \in delivered : Behind(m, state)
    <3> SUFFICES ASSUME NEW m \in delivered PROVE Behind(m, state)
      OBVIOUS
    <3>1. m[1] \in Known /\ m[2] = 1
      BY DEF Init
    <3>2. Time(m) = 1
      BY <1>1, <1>3, <3>1 DEF Time
    <3> QED
      BY <2>1, <3>1, <3>2 DEF Init, Behind
  <2>3. \A c \in Chat : stored[c] <= noted[c]
    BY <1>4 DEF Init, FileTypes
  <2>4. \A c \in DOMAIN state : state[c] <= LastTimestamp(c)
    <3>1. DOMAIN state = Known /\ \A c \in Known : state[c] = 1
      BY DEF Init
    <3> QED
      BY <2>1, <3>1
  <2>5. \A k \in Client : pc[k] = "idle"
    BY DEF Init
  <2> QED
    BY <2>2, <2>3, <2>4, <2>5 DEF FileOnce, FileShown
<1>7. \A k \in Client : CommandOnce(k)
  BY DEF Init, CommandOnce
<1> QED
  BY <1>4, <1>5, <1>6, <1>7 DEF OnceInv

\* WeChat adds to what there is.
Forward ==
  /\ \A c \in Chat :
       /\ Len(arrived[c]) <= Len(arrived'[c]) /\ stored[c] <= stored'[c]
       /\ \A i \in 1..Len(arrived[c]) : arrived'[c][i] = arrived[c][i]
       /\ LastTimestamp(c) <= LastTimestamp(c)'
  /\ orderly' => orderly /\ \A c \in Chat : stored'[c] <= noted'[c]
  /\ UNCHANGED <<state, delivered, pc, loaded, session, next, got, out, newState>>

LEMMA ForwardOnce ==
  ASSUME OnceInv, FileTypes', Ordered', Forward
  PROVE  OnceInv'
<1> SUFFICES ASSUME orderly' PROVE FileOnce' /\ \A k \in Client : CommandOnce(k)'
  BY DEF OnceInv
<1>1. orderly /\ FileOnce /\ \A k \in Client : CommandOnce(k)
  BY DEF OnceInv, Forward
<1>2. \A c \in Chat, i \in Nat : i \in 1..stored[c] =>
        i \in 1..stored'[c] /\ arrived'[c][i] = arrived[c][i]
  <2> TAKE c \in Chat, i \in Nat
  <2>1. /\ stored[c] \in Nat /\ Len(arrived[c]) \in Nat /\ stored[c] <= Len(arrived[c])
        /\ stored'[c] \in Nat /\ stored[c] <= stored'[c]
    BY MessageTimes DEF OnceInv, Forward, FileTypes
  <2> QED
    BY <2>1 DEF Forward
<1>3. ASSUME NEW m \in Message, m[2] \in 1..stored[m[1]]
      PROVE  m[2] \in 1..stored'[m[1]] /\ Time(m)' = Time(m)
  BY <1>2, <1>3 DEF Message, Time
<1>4. ASSUME NEW m \in Message, NEW s, Behind(m, s)
      PROVE  m[2] \in 1..stored'[m[1]] /\ m[1] \in DOMAIN s /\ Time(m)' <= s[m[1]]
  BY <1>3, <1>4 DEF Behind
<1>5. \A c \in Chat, x \in Nat : x <= LastTimestamp(c) => x <= LastTimestamp(c)'
  <2>1. \A c \in Chat : LastTimestamp(c) \in Nat
    BY MessageTimes DEF OnceInv
  <2>2. ASSUME NEW c \in Chat PROVE LastTimestamp(c)' \in Nat
    <3>1. /\ arrived'[c] \in Seq(Arrived) /\ noted'[c] \in Nat
          /\ noted'[c] <= Len(arrived'[c])
      BY DEF FileTypes
    <3>2. noted'[c] # 0 => arrived'[c][noted'[c]] \in Arrived
      BY <3>1
    <3> QED
      BY <3>2 DEF LastTimestamp, Arrived
  <2> QED
    BY <2>1, <2>2 DEF Forward
<1>6. FileOnce'
  <2>1. \A c \in DOMAIN state : c \in Chat /\ state[c] \in Nat
    BY CursorsOf DEF OnceInv, FileTypes
  <2>2. \A m \in delivered : Behind(m, state)'
    BY <1>1, <1>4 DEF FileOnce, FileShown, Behind, Forward, OnceInv, FileTypes
  <2> QED
    BY <1>1, <1>5, <2>1, <2>2 DEF FileOnce, FileShown, Forward
<1>7. ASSUME NEW k \in Client PROVE CommandOnce(k)'
  <2>1. CommandOnce(k) /\ got[k] \subseteq Message /\ out[k] \subseteq Message
    BY <1>1 DEF OnceInv, FileTypes
  <2>2. \A m \in got[k] : Time(m)' = Time(m)
    BY <1>3, <2>1 DEF OnceInv, FileTypes
  <2>3. pc[k] \in {"read", "reply"} =>
          /\ \A c \in Chat : session[k][c] <= LastTimestamp(c)'
          /\ \A m \in got[k] : m[1] \in Changed(k, session[k])' /\ Time(m)' > Since(k, m[1])'
    <3>1. \A c \in Chat : session[k][c] \in Nat
      BY DEF OnceInv, FileTypes
    <3> QED
      BY <1>5, <2>1, <2>2, <3>1 DEF CommandOnce, Changed, Since, Forward
  <2>4. pc[k] = "save" =>
          /\ \A c \in DOMAIN newState[k] : newState[k][c] <= LastTimestamp(c)'
          /\ \A m \in delivered \cup out[k] : Behind(m, newState[k])'
    <3>1. \A c \in DOMAIN newState[k] : c \in Chat /\ newState[k][c] \in Nat
      BY CursorsOf DEF OnceInv, FileTypes
    <3>2. delivered \subseteq Message
      BY DEF OnceInv, FileTypes
    <3> QED
      BY <1>4, <1>5, <2>1, <3>1, <3>2 DEF CommandOnce, Behind, Forward
  <2>5. pc[k] = "print" => \A m \in out[k] : Behind(m, state)'
    BY <1>4, <2>1 DEF CommandOnce, Behind, Forward
  <2> QED
    BY <2>1, <2>3, <2>4, <2>5 DEF CommandOnce, Forward
<1> QED
  BY <1>6, <1>7
LEMMA WeChatOnce ==
  ASSUME OnceInv, WeChat
  PROVE  OnceInv'
<1>1. /\ UNCHANGED <<state, delivered, pc, loaded, session, next, got, out, newState>>
      /\ orderly' => orderly
  <2>1. CASE Tick
    BY <2>1 DEF Tick, reply
  <2>2. ASSUME NEW c \in Chat, Arrive(c) \/ Note(c) \/ Roll(c)
        PROVE  /\ UNCHANGED <<state, delivered, pc, loaded, session, next, got, out, newState>>
               /\ orderly' => orderly
    BY <2>2 DEF Arrive, Note, Roll, reply
  <2>3. ASSUME NEW c \in Chat, Store(c)
        PROVE  /\ UNCHANGED <<state, delivered, pc, loaded, session, next, got, out, newState>>
               /\ orderly' => orderly
    BY <2>3 DEF Store, reply
  <2> QED
    BY <2>1, <2>2, <2>3 DEF WeChat
<1>2. FileTypes /\ Ordered /\ (orderly => \A c \in Chat : stored[c] <= noted[c])
  BY DEF OnceInv, FileOnce
<1>3. \A c \in Chat : /\ stored[c] \in Nat /\ noted[c] \in Nat /\ Len(arrived[c]) \in Nat
                      /\ arrived[c] \in Seq(Arrived) /\ LastTimestamp(c) \in Nat
  BY <1>2, MessageTimes DEF FileTypes
<1>4. CASE Tick \/ \E c \in Chat : Roll(c)
  <2>1. /\ UNCHANGED <<arrived, stored, noted, orderly>>
        /\ clock' \in Nat \ {0} /\ clock <= clock' /\ home' \in [Chat -> Nat \ {0}]
    <3>1. CASE Tick
      BY <1>2, <3>1 DEF Tick, FileTypes
    <3>2. ASSUME NEW c \in Chat, Roll(c)
          PROVE  /\ UNCHANGED <<clock, arrived, stored, noted, orderly>>
                 /\ home' \in [Chat -> Nat \ {0}]
      <4>1. home[c] + 1 \in Nat \ {0}
        BY <1>2 DEF FileTypes
      <4> QED
        BY <1>2, <3>2, <4>1 DEF Roll, FileTypes
    <3>3. CASE \E c \in Chat : Roll(c)
      BY <1>2, <3>2, <3>3 DEF FileTypes
    <3> QED
      BY <1>4, <3>1, <3>3
  <2>2. FileTypes'
    BY <1>1, <1>2, <2>1 DEF FileTypes
  <2>3. Ordered'
    <3>1. \A c \in Chat : \A i \in 1..Len(arrived[c]) : arrived[c][i].ts \in Nat
      BY <1>2, MessageTimes
    <3> QED
      BY <1>2, <2>1, <3>1 DEF Ordered, FileTypes
  <2>4. Forward
    BY <1>1, <1>2, <1>3, <2>1 DEF Forward, LastTimestamp
  <2> QED
    BY <2>2, <2>3, <2>4, ForwardOnce
<1>5. ASSUME NEW c \in Chat, Store(c) PROVE OnceInv'
  <2>1. /\ stored' = [stored EXCEPT ![c] = @ + 1] /\ stored[c] < Len(arrived[c])
        /\ orderly' = (orderly /\ stored[c] < noted[c])
        /\ UNCHANGED <<clock, arrived, noted, home>>
    BY <1>2, <1>3, <1>5 DEF Store, FileTypes
  <2>2. FileTypes'
    <3>1. \A d \in Chat : stored'[d] \in Nat /\ stored[d] <= stored'[d] /\ stored'[d] <= Len(arrived[d])
      BY <1>2, <1>3, <2>1 DEF FileTypes
    <3>2. \A k \in Client : \A m \in got[k] : m[2] \in 1..stored'[m[1]]
      BY <1>2, <1>3, <3>1 DEF FileTypes, Message
    <3> QED
      BY <1>1, <1>2, <2>1, <3>1, <3>2 DEF FileTypes
  <2>3. Ordered'
    BY <1>2, <2>1 DEF Ordered
  <2>4. Forward
    <3>1. \A d \in Chat : LastTimestamp(d)' = LastTimestamp(d)
      BY <2>1 DEF LastTimestamp
    <3>2. ASSUME orderly', NEW d \in Chat PROVE stored'[d] <= noted'[d]
      <4>1. orderly /\ stored[c] < noted[c]
        BY <2>1, <3>2, Zenon
      <4>2. stored[d] <= noted[d] /\ stored[c] + 1 <= noted[c]
        BY <1>2, <1>3, <4>1
      <4>3. stored'[d] = IF d = c THEN stored[c] + 1 ELSE stored[d]
        BY <1>2, <2>1 DEF FileTypes
      <4> QED
        BY <2>1, <4>2, <4>3
    <3>3. \A d \in Chat : stored[d] <= stored'[d]
      BY <1>2, <1>3, <2>1 DEF FileTypes
    <3> QED
      BY <1>1, <1>3, <2>1, <3>1, <3>2, <3>3 DEF Forward
  <2> QED
    BY <2>2, <2>3, <2>4, ForwardOnce
<1>6. ASSUME NEW c \in Chat, Note(c) PROVE OnceInv'
  <2>1. /\ noted' = [noted EXCEPT ![c] = @ + 1] /\ noted[c] < Len(arrived[c])
        /\ UNCHANGED <<clock, arrived, stored, home, orderly>>
    BY <1>6 DEF Note
  <2>2. FileTypes'
    BY <1>1, <1>2, <1>3, <2>1 DEF FileTypes
  <2>3. Ordered'
    BY <1>2, <2>1 DEF Ordered
  <2>4. \A d \in Chat : LastTimestamp(d) <= LastTimestamp(d)'
    <3> SUFFICES ASSUME NEW d \in Chat, d = c PROVE LastTimestamp(d) <= LastTimestamp(d)'
      BY <1>2, <1>3, <2>1 DEF LastTimestamp, FileTypes
    <3>1. noted'[c] = noted[c] + 1 /\ noted'[c] \in 1..Len(arrived[c])
      BY <1>2, <1>3, <2>1 DEF FileTypes
    <3>2. LastTimestamp(c)' = arrived[c][noted[c] + 1].ts
          /\ arrived[c][noted[c] + 1].ts \in Nat
      BY <1>2, <1>3, <2>1, <3>1, MessageTimes DEF LastTimestamp
    <3>3. noted[c] # 0 => arrived[c][noted[c]].ts <= arrived[c][noted[c] + 1].ts
      <4>1. noted[c] # 0 => noted[c] \in 1..Len(arrived[c])
                            /\ noted[c] + 1 \in noted[c]..Len(arrived[c])
        BY <1>3, <2>1
      <4> QED
        BY <1>2, <4>1 DEF Ordered
    <3> QED
      BY <3>2, <3>3 DEF LastTimestamp
  <2>5. Forward
    BY <1>1, <1>2, <1>3, <2>1, <2>4 DEF Forward, FileTypes
  <2> QED
    BY <2>2, <2>3, <2>5, ForwardOnce
<1>7. ASSUME NEW c \in Chat, Arrive(c) PROVE OnceInv'
  <2> DEFINE n == Len(arrived[c])
             new == [ts |-> clock, shard |-> home[c]]
  <2>1. /\ arrived' = [arrived EXCEPT ![c] = Append(@, new)]
        /\ UNCHANGED <<clock, stored, noted, home, orderly>>
    BY <1>7 DEF Arrive
  <2>2. n \in Nat /\ new \in Arrived /\ arrived[c] \in Seq(Arrived)
    BY <1>2, <1>3 DEF Arrived, FileTypes
  <2>3. /\ arrived' \in [Chat -> Seq(Arrived)]
        /\ Len(arrived'[c]) = n + 1 /\ arrived'[c][n + 1] = new
        /\ \A i \in 1..n : arrived'[c][i] = arrived[c][i]
        /\ \A d \in Chat : d # c => arrived'[d] = arrived[d]
    <3>1. /\ Append(arrived[c], new) \in Seq(Arrived)
          /\ Len(Append(arrived[c], new)) = n + 1
          /\ Append(arrived[c], new)[n + 1] = new
          /\ \A i \in 1..n : Append(arrived[c], new)[i] = arrived[c][i]
      BY <2>2
    <3> HIDE DEF new
    <3> QED
      BY <1>2, <2>1, <3>1 DEF FileTypes
  <2>4. \A d \in Chat : Len(arrived[d]) <= Len(arrived'[d])
    <3>1. Len(arrived[c]) <= Len(arrived'[c])
      BY <2>2, <2>3
    <3>2. ASSUME NEW d \in Chat, d # c PROVE Len(arrived[d]) <= Len(arrived'[d])
      BY <1>3, <2>3, <3>2
    <3> QED
      BY <3>1, <3>2
  <2>5. FileTypes'
    <3>1. \A d \in Chat : Len(arrived[d]) <= Len(arrived'[d])
      BY <2>4
    <3>2. \A d \in Chat : Len(arrived'[d]) \in Nat
      BY <1>3, <2>2, <2>3
    <3> QED
      BY <1>1, <1>2, <1>3, <2>1, <2>3, <3>1, <3>2 DEF FileTypes
  <2>6. Ordered'
    <3>1. \A i \in 1..n : arrived[c][i].ts <= clock
      BY <1>2 DEF Ordered
    <3>2. new.ts = clock /\ clock \in Nat
      BY <1>2 DEF FileTypes
    <3> HIDE DEF new
    <3>3. ASSUME NEW i \in 1..(n + 1), NEW j \in i..(n + 1)
          PROVE  arrived'[c][i].ts <= clock /\ arrived'[c][i].ts <= arrived'[c][j].ts
      <4>1. CASE i \in 1..n /\ j \in 1..n
        <5>1. j \in i..n
          BY <2>2, <4>1
        <5> QED
          BY <1>2, <2>3, <4>1, <5>1 DEF Ordered
      <4>2. CASE i \in 1..n /\ j = n + 1
        BY <2>3, <3>1, <3>2, <4>2
      <4>3. CASE i = n + 1 /\ j = n + 1
        BY <2>3, <3>2, <4>3
      <4> QED
        BY <2>2, <4>1, <4>2, <4>3
    <3>4. ASSUME NEW d \in Chat, d # c
          PROVE  \A i \in 1..Len(arrived'[d]) : arrived'[d][i].ts <= clock /\
                   \A j \in i..Len(arrived'[d]) : arrived'[d][i].ts <= arrived'[d][j].ts
      BY <1>2, <2>3, <3>4 DEF Ordered
    <3>5. \A i \in 1..(n + 1) : n + 1 \in i..(n + 1)
      BY <2>2
    <3> QED
      BY <2>1, <2>3, <3>3, <3>4, <3>5 DEF Ordered
  <2>7. Forward
    <3>1. \A d \in Chat : /\ Len(arrived[d]) <= Len(arrived'[d])
                          /\ \A i \in 1..Len(arrived[d]) : arrived'[d][i] = arrived[d][i]
      <4>1. \A i \in 1..Len(arrived[c]) : arrived'[c][i] = arrived[c][i]
        BY <2>3
      <4>2. ASSUME NEW d \in Chat, d # c
            PROVE  \A i \in 1..Len(arrived[d]) : arrived'[d][i] = arrived[d][i]
        BY <2>3, <4>2
      <4>3. \A d \in Chat : Len(arrived[d]) <= Len(arrived'[d])
        BY <2>4
      <4> QED
        BY <4>1, <4>2, <4>3
    <3>2. \A d \in Chat : LastTimestamp(d)' = LastTimestamp(d)
      BY <1>2, <1>3, <2>1, <3>1 DEF LastTimestamp, FileTypes
    <3> QED
      BY <1>1, <1>2, <1>3, <2>1, <3>1, <3>2 DEF Forward
  <2> QED
    BY <2>5, <2>6, <2>7, ForwardOnce
<1> QED
  BY <1>4, <1>5, <1>6, <1>7 DEF WeChat

\* A step of a command, the only one there is while `orderly' holds, leaves
\* WeChat's files and the other commands as they are.
LEMMA CommandStep ==
  ASSUME OnceInv, NEW k \in Client, FileTypes', UNCHANGED wechat,
         \A j \in Client \ {k} : pc'[j] = pc[j] /\ got'[j] = got[j],
         orderly' => orderly,
         orderly' => pc[k] # "idle" \/ \A j \in Client \ {k} : pc[j] = "idle",
         orderly' => FileShown' /\ CommandOnce(k)'
  PROVE  OnceInv'
<1>1. Ordered'
  BY DEF OnceInv, Ordered, wechat
<1> SUFFICES ASSUME orderly' PROVE FileOnce' /\ \A j \in Client : CommandOnce(j)'
  BY <1>1 DEF OnceInv
<1>2. FileOnce /\ \A j \in Client : CommandOnce(j)
  BY DEF OnceInv
<1>3. \A j \in Client \ {k} : pc[j] = "idle"
  BY <1>2 DEF FileOnce
<1>4. FileOnce'
  BY <1>2, <1>3 DEF FileOnce, wechat
<1>5. \A j \in Client \ {k} : CommandOnce(j)'
  BY <1>2, <1>3 DEF CommandOnce
<1> QED
  BY <1>4, <1>5

LEMMA LoadStateOnce ==
  ASSUME OnceInv, NEW k \in Client, LoadState(k)
  PROVE  OnceInv'
<1>1. /\ pc[k] = "idle" /\ pc' = [pc EXCEPT ![k] = "sessions"]
      /\ loaded' = [loaded EXCEPT ![k] = state]
      /\ UNCHANGED <<wechat, state, delivered, session, next, got, out, newState>>
  BY DEF LoadState, reply
<1>2. /\ orderly' \in BOOLEAN /\ orderly' => orderly
      /\ orderly' => \A j \in Client \ {k} : pc[j] = "idle"
  BY DEF LoadState
<1>3. FileTypes
  BY DEF OnceInv
<1>4. FileTypes'
  <2>1. pc' \in [Client -> PCs] /\ loaded' \in [Client -> Cursors]
    BY <1>1, <1>3 DEF FileTypes, PCs
  <2>2. orderly' \in BOOLEAN
    BY DEF LoadState
  <2> QED
    BY <1>1, <1>3, <2>1, <2>2 DEF FileTypes, wechat
<1>5. pc'[k] = "sessions" /\ loaded'[k] = state
  BY <1>1, <1>3 DEF FileTypes
<1>6. orderly' => FileShown' /\ CommandOnce(k)'
  <2> SUFFICES ASSUME orderly' PROVE FileShown' /\ CommandOnce(k)'
    OBVIOUS
  <2>1. FileShown /\ CommandOnce(k)
    BY <1>2 DEF OnceInv, FileOnce
  <2>2. FileShown'
    BY <1>1, <2>1 DEF FileShown, Behind, LastTimestamp, Time, wechat
  <2>3. CommandOnce(k)'
    BY <1>1, <1>5, <2>1 DEF CommandOnce
  <2> QED
    BY <2>2, <2>3
<1>7. \A j \in Client \ {k} : pc'[j] = pc[j] /\ got'[j] = got[j]
  BY <1>1, <1>3 DEF FileTypes
<1> QED
  BY <1>1, <1>2, <1>4, <1>6, <1>7, CommandStep

LEMMA ReadSessionsOnce ==
  ASSUME OnceInv, NEW k \in Client, ReadSessions(k)
  PROVE  OnceInv'
<1> DEFINE sess == [c \in Chat |-> LastTimestamp(c)]
<1>1. /\ pc[k] = "sessions"
      /\ session' = [session EXCEPT ![k] = sess]
      /\ UNCHANGED <<wechat, state, delivered, orderly, loaded, got, out, newState>>
  BY DEF ReadSessions, reply
<1>2. FileTypes
  BY DEF OnceInv
<1>3. sess \in [Chat -> Nat]
  BY <1>2, MessageTimes
<1>4. /\ pc' \in [Client -> PCs] /\ next' \in [Client -> Nat]
      /\ pc'[k] \in {"read", "reply"} /\ \A j \in Client \ {k} : pc'[j] = pc[j]
  <2>1. CASE pc' = [pc EXCEPT ![k] = "reply"] /\ next' = next
    BY <1>2, <2>1 DEF FileTypes, PCs
  <2>2. CASE pc' = [pc EXCEPT ![k] = "read"] /\ next' = [next EXCEPT ![k] = 1]
    BY <1>2, <2>2 DEF FileTypes, PCs
  <2> QED
    BY <2>1, <2>2 DEF ReadSessions
<1>5. FileTypes'
  <2>1. session' \in [Client -> [Chat -> Nat]]
    BY <1>1, <1>2, <1>3 DEF FileTypes
  <2> QED
    BY <1>1, <1>2, <1>4, <2>1 DEF FileTypes, wechat
<1>6. \A c \in Chat : session'[k][c] = LastTimestamp(c)
  BY <1>1, <1>2 DEF FileTypes
<1>7. orderly' => FileShown' /\ CommandOnce(k)'
  <2> SUFFICES ASSUME orderly' PROVE FileShown' /\ CommandOnce(k)'
    OBVIOUS
  <2>1. FileShown /\ CommandOnce(k)
    BY <1>1 DEF OnceInv, FileOnce
  <2>2. FileShown'
    BY <1>1, <2>1 DEF FileShown, Behind, LastTimestamp, Time, wechat
  <2>3. DOMAIN state \subseteq Chat
    BY <1>2, CursorsOf DEF FileTypes
  <2>4. \A c \in Chat : LastTimestamp(c)' = LastTimestamp(c) /\ LastTimestamp(c) \in Nat
    BY <1>1, <1>2, MessageTimes DEF LastTimestamp, wechat
  <2>5. \A c \in DOMAIN state : state[c] <= session'[k][c]
    BY <1>6, <2>1, <2>3 DEF FileShown
  <2>6. loaded'[k] = state /\ got'[k] = {} /\ state' = state
    BY <1>1, <2>1 DEF CommandOnce
  <2>7. \A c \in Chat : session'[k][c] <= LastTimestamp(c)'
    BY <1>6, <2>4
  <2> QED
    BY <1>4, <2>2, <2>5, <2>6, <2>7 DEF CommandOnce
<1>8. \A j \in Client \ {k} : pc'[j] = pc[j] /\ got'[j] = got[j]
  BY <1>1, <1>4
<1> QED
  BY <1>1, <1>5, <1>7, <1>8, CommandStep

\* GoOn goes on with the command, which has the messages of `more' besides.
LEMMA ReadOnce ==
  ASSUME OnceInv, NEW k \in Client, pc[k] = "read", GoOn(k),
         NEW more \in SUBSET (UNION {Rows(k, next[k], c) : c \in Changed(k, session[k])}),
         got' = [got EXCEPT ![k] = got[k] \cup more],
         UNCHANGED <<wechat, state, delivered, orderly, loaded, session, reply>>
  PROVE  OnceInv'
<1>1. FileTypes
  BY DEF OnceInv
<1>2. \A m \in more : /\ m \in Message /\ m[2] \in 1..stored[m[1]]
                      /\ m[1] \in Changed(k, session[k]) /\ Time(m) > Since(k, m[1])
  <2> SUFFICES ASSUME NEW c \in Changed(k, session[k]), NEW m \in Rows(k, next[k], c)
               PROVE  /\ m \in Message /\ m[2] \in 1..stored[m[1]]
                      /\ m[1] \in Changed(k, session[k]) /\ Time(m) > Since(k, m[1])
    OBVIOUS
  <2>1. c \in Chat /\ stored[c] \in Nat
    BY <1>1 DEF Changed, FileTypes
  <2>2. m \in {c} \X (1..stored[c]) /\ Time(m) > Since(k, c)
    BY DEF Rows
  <2>3. m[1] = c /\ m[2] \in 1..stored[c] /\ m = <<m[1], m[2]>>
    BY <2>2
  <2> QED
    BY <2>1, <2>2, <2>3 DEF Message
<1>3. /\ pc' \in [Client -> PCs] /\ next' \in [Client -> Nat]
      /\ pc'[k] \in {"read", "reply"} /\ \A j \in Client \ {k} : pc'[j] = pc[j]
  <2>1. NextShard(k) \in Nat
    BY <1>1, NewMessagesAssumption DEF NextShard, FileTypes
  <2> QED
    BY <1>1, <2>1 DEF GoOn, FileTypes, PCs
<1>4. got'[k] = got[k] \cup more /\ \A j \in Client \ {k} : got'[j] = got[j]
  BY <1>1 DEF FileTypes
<1>5. FileTypes'
  <2>1. got' \in [Client -> SUBSET Message]
    BY <1>1, <1>2 DEF FileTypes
  <2>2. \A j \in Client : \A m \in got'[j] : m[2] \in 1..stored[m[1]]
    BY <1>1, <1>2, <1>4 DEF FileTypes
  <2> QED
    BY <1>1, <1>3, <2>1, <2>2 DEF FileTypes, wechat, reply
<1>6. orderly' => FileShown' /\ CommandOnce(k)'
  <2> SUFFICES ASSUME orderly' PROVE FileShown' /\ CommandOnce(k)'
    OBVIOUS
  <2>1. FileShown /\ CommandOnce(k)
    BY DEF OnceInv, FileOnce
  <2>2. FileShown'
    BY <2>1 DEF FileShown, Behind, LastTimestamp, Time, wechat
  <2>3. \A m \in got'[k] : m[1] \in Changed(k, session[k]) /\ Time(m) > Since(k, m[1])
    BY <1>2, <1>4, <2>1 DEF CommandOnce
  <2>4. \A m \in got'[k] : m[1] \in Changed(k, session[k])' /\ Time(m)' > Since(k, m[1])'
    BY <2>3 DEF Changed, Since, Time, wechat
  <2>5. \A c \in Chat : session'[k][c] <= LastTimestamp(c)'
    BY <2>1 DEF CommandOnce, LastTimestamp, wechat
  <2> QED
    BY <1>3, <2>1, <2>2, <2>4, <2>5 DEF CommandOnce
<1> QED
  BY <1>3, <1>4, <1>5, <1>6, CommandStep

LEMMA ReadShardOnce ==
  ASSUME OnceInv, NEW k \in Client, ReadShard(k) \/ ShardFails(k)
  PROVE  OnceInv'
<1> DEFINE Unread == UNION {Rows(k, next[k], c) : c \in Changed(k, session[k])}
<1>1. pc[k] = "read" /\ GoOn(k)
  BY DEF ReadShard, ShardFails
<1>2. UNCHANGED <<wechat, state, delivered, orderly, loaded, session, reply>>
  BY DEF ReadShard, ShardFails
<1>3. CASE ReadShard(k)
  <2>1. PICK read \in SUBSET Unread : got' = [got EXCEPT ![k] = @ \cup read]
    BY <1>3 DEF ReadShard
  <2> HIDE DEF Unread
  <2>2. got' = [got EXCEPT ![k] = got[k] \cup read]
    BY <2>1 DEF OnceInv, FileTypes
  <2> QED
    BY <1>1, <1>2, <2>1, <2>2, ReadOnce DEF Unread
<1>4. CASE ShardFails(k)
  <2>1. got' = got
    BY <1>4 DEF ShardFails
  <2>2. got' = [got EXCEPT ![k] = got[k] \cup {}]
    BY <2>1 DEF OnceInv, FileTypes
  <2>3. {} \in SUBSET Unread
    OBVIOUS
  <2> HIDE DEF Unread
  <2> QED
    BY <1>1, <1>2, <2>2, <2>3, ReadOnce DEF Unread
<1> QED
  BY <1>3, <1>4

\* The cursor after a response: a number; the greatest time of the chat's
\* messages in it where there are any.
LEMMA AdvancedTime ==
  ASSUME FileTypes, Ordered, NEW k \in Client, NEW c \in Chat, NEW res \in SUBSET got[k]
  PROVE  /\ Advanced(k, c, res) \in Nat
         /\ c \in Changed(k, session[k]) =>
              /\ \A m \in res : m[1] = c => Time(m) \in Nat /\ Time(m) <= Advanced(k, c, res)
              /\ \/ \E m \in res : m[1] = c /\ Advanced(k, c, res) = Time(m)
                 \/ c \in DOMAIN loaded[k] /\ Advanced(k, c, res) = loaded[k][c]
                 \/ c \notin DOMAIN loaded[k] /\ Advanced(k, c, res) = session[k][c]
         /\ c \notin Changed(k, session[k]) => Advanced(k, c, res) = session[k][c]
<1> DEFINE mine == {m \in res : m[1] = c}
           T == {Time(m) : m \in mine}
<1>1. session[k][c] \in Nat /\ (c \in DOMAIN loaded[k] => loaded[k][c] \in Nat)
  BY CursorsOf DEF FileTypes
<1>2. \A m \in mine : Time(m) \in 0..clock
  <2> SUFFICES ASSUME NEW m \in mine PROVE Time(m) \in 0..clock
    OBVIOUS
  <2>1. m[1] = c /\ m[2] \in 1..stored[c]
    BY DEF FileTypes
  <2>2. m[2] \in 1..Len(arrived[c])
    BY <2>1, MessageTimes
  <2>3. arrived[c][m[2]].ts \in Nat /\ arrived[c][m[2]].ts <= clock
    BY <2>2, MessageTimes DEF Ordered
  <2> QED
    BY <2>1, <2>3 DEF Time, FileTypes
<1>3. IsFiniteSet(T) /\ T \in SUBSET Nat
  <2>1. T \subseteq 0..clock
    BY <1>2
  <2>2. clock \in Nat
    BY DEF FileTypes
  <2>3. IsFiniteSet(0..clock) /\ 0..clock \subseteq Nat
    BY <2>2, FS_Interval
  <2> HIDE DEF T
  <2> QED
    BY <2>1, <2>3, FS_Subset
<1>4. CASE mine = {}
  <2>1. \A m \in res : m[1] # c
    BY <1>4
  <2> QED
    BY <1>1, <1>4, <2>1 DEF Advanced
<1>5. CASE mine # {}
  <2> DEFINE top == CHOOSE t \in T : \A m \in mine : Time(m) <= t
  <2>1. \E t \in T : \A m \in mine : Time(m) <= t
    <3>1. T # {}
      BY <1>5
    <3>2. PICK t \in T : \A u \in T : u <= t
      <4> HIDE DEF T
      <4> QED
        BY <1>3, <3>1, Largest
    <3> QED
      BY <3>2
  <2>2. top \in T /\ \A m \in mine : Time(m) <= top
    BY <2>1
  <2>3. c \in Changed(k, session[k]) => Advanced(k, c, res) = top
    BY <1>5 DEF Advanced
  <2>4. c \notin Changed(k, session[k]) => Advanced(k, c, res) = session[k][c]
    BY DEF Advanced
  <2>5. \E m \in res : m[1] = c /\ top = Time(m)
    <3> HIDE DEF top
    <3> QED
      BY <2>2
  <2>6. top \in Nat
    <3> HIDE DEF top, T
    <3> QED
      BY <1>3, <2>2
  <2>7. \A m \in res : m[1] = c => Time(m) \in Nat /\ Time(m) <= top
    <3> HIDE DEF top
    <3> QED
      BY <1>2, <2>2
  <2> HIDE DEF top, T, mine
  <2> QED
    BY <1>1, <2>3, <2>4, <2>5, <2>6, <2>7
<1> QED
  BY <1>4, <1>5

LEMMA ReplyOnce ==
  ASSUME OnceInv, NEW k \in Client, Reply(k)
  PROVE  OnceInv'
<1> DEFINE shown == {d \in Chat : session[k][d] # 0}
<1>1. PICK res \in SUBSET got[k] :
        /\ out' = [out EXCEPT ![k] = res]
        /\ newState' = [newState EXCEPT ![k] = [c \in shown |-> Advanced(k, c, res)]]
  BY DEF Reply, Earliest
<1>2. /\ pc[k] = "reply" /\ pc' = [pc EXCEPT ![k] = "save"]
      /\ loaded' = [loaded EXCEPT ![k] = Empty]
      /\ session' = [session EXCEPT ![k] = [c \in Chat |-> 0]]
      /\ got' = [got EXCEPT ![k] = {}]
      /\ UNCHANGED <<wechat, state, delivered, orderly, next>>
  BY DEF Reply
<1>3. FileTypes /\ Ordered
  BY DEF OnceInv
<1> DEFINE new == [c \in shown |-> Advanced(k, c, res)]
<1>4. new \in Cursors /\ DOMAIN new = shown /\ shown \subseteq Chat
      /\ \A c \in shown : new[c] = Advanced(k, c, res)
  <2>1. \A c \in Chat : Advanced(k, c, res) \in Nat
    BY <1>3, AdvancedTime
  <2>2. new \in [shown -> Nat] /\ shown \in SUBSET Chat
    BY <2>1
  <2> QED
    BY <2>2, CursorsOf
<1> HIDE DEF new
<1>5. pc'[k] = "save" /\ newState'[k] = new /\ out'[k] = res /\ got'[k] = {}
  BY <1>1, <1>2, <1>3 DEF FileTypes, new
<1>6. FileTypes'
  <2>1. /\ pc' \in [Client -> PCs] /\ loaded' \in [Client -> Cursors]
        /\ session' \in [Client -> [Chat -> Nat]] /\ got' \in [Client -> SUBSET Message]
    BY <1>2, <1>3, CursorsOf DEF FileTypes, PCs
  <2>2. out' \in [Client -> SUBSET Message] /\ newState' \in [Client -> Cursors]
    BY <1>1, <1>3, <1>4 DEF FileTypes, new
  <2>3. \A j \in Client : \A m \in got'[j] : m[2] \in 1..stored[m[1]]
    BY <1>2, <1>3 DEF FileTypes
  <2> QED
    BY <1>2, <1>3, <2>1, <2>2, <2>3 DEF FileTypes, wechat
<1>7. orderly' => FileShown' /\ CommandOnce(k)'
  <2> SUFFICES ASSUME orderly' PROVE FileShown' /\ CommandOnce(k)'
    OBVIOUS
  <2>1. FileOnce /\ FileShown /\ CommandOnce(k)
    BY <1>2 DEF OnceInv, FileOnce
  <2>2. FileShown'
    BY <1>2, <2>1 DEF FileShown, Behind, LastTimestamp, Time, wechat
  <2>3. /\ loaded[k] = state /\ DOMAIN state \subseteq Chat
        /\ \A c \in DOMAIN state : state[c] \in Nat /\ state[c] <= session[k][c]
        /\ \A c \in Chat : session[k][c] \in Nat /\ session[k][c] <= LastTimestamp(c)
        /\ \A c \in Chat : LastTimestamp(c) \in Nat
        /\ \A m \in got[k] : m[1] \in Changed(k, session[k]) /\ Time(m) > Since(k, m[1])
    BY <1>2, <1>3, <2>1, CursorsOf, MessageTimes DEF CommandOnce, FileTypes
  <2>4. \A m \in Message : m[2] \in 1..stored[m[1]] =>
          Time(m) \in Nat \ {0} /\ Time(m) <= LastTimestamp(m[1])
    <3> SUFFICES ASSUME NEW c \in Chat, NEW i \in 1..stored[c]
                 PROVE  arrived[c][i].ts \in Nat \ {0} /\ arrived[c][i].ts <= LastTimestamp(c)
      BY DEF Message, Time
    <3>1. stored[c] \in Nat /\ noted[c] \in Nat /\ stored[c] <= noted[c]
          /\ noted[c] <= Len(arrived[c]) /\ Len(arrived[c]) \in Nat
      BY <1>3, <2>1, MessageTimes DEF FileOnce
    <3>2. i \in 1..noted[c] /\ i \in 1..Len(arrived[c])
      BY <3>1
    <3> QED
      BY <1>3, <3>2, MessageTimes, StoredShown
  <2>5. \A m \in res : m \in Message /\ m[1] \in Chat /\ m[2] \in 1..stored[m[1]]
    BY <1>3 DEF FileTypes, Message
  <2>6. \A c \in shown : new[c] <= LastTimestamp(c)
    <3> TAKE c \in shown
    <3>1. c \in Chat /\ new[c] = Advanced(k, c, res)
      BY <1>4
    <3>2. CASE c \notin Changed(k, session[k])
      BY <1>3, <2>3, <3>1, <3>2, AdvancedTime
    <3>3. CASE \E m \in res : m[1] = c /\ new[c] = Time(m)
      BY <2>4, <2>5, <3>3
    <3>4. CASE c \in DOMAIN loaded[k] /\ new[c] = loaded[k][c]
      BY <2>3, <3>1, <3>4
    <3>5. CASE new[c] = session[k][c]
      BY <2>3, <3>1, <3>5
    <3> QED
      BY <1>3, <3>1, <3>2, <3>3, <3>4, <3>5, AdvancedTime
  <2>7. \A m \in res : m[1] \in shown /\ Time(m) <= new[m[1]]
    <3> TAKE m \in res
    <3>1. m[1] \in Chat /\ m[1] \in Changed(k, session[k])
      BY <2>3, <2>5
    <3>2. session[k][m[1]] > Since(k, m[1]) /\ Since(k, m[1]) \in Nat
      BY <2>3, <3>1 DEF Changed, Since, Fallback
    <3>3. m[1] \in shown
      BY <2>3, <3>1, <3>2
    <3> QED
      BY <1>3, <1>4, <3>1, <3>3, AdvancedTime
  <2>8. \A m \in delivered : m[1] \in shown /\ Time(m) <= new[m[1]]
    <3> TAKE m \in delivered
    <3>1. m \in Message /\ m[2] \in 1..stored[m[1]] /\ m[1] \in DOMAIN state
          /\ Time(m) <= state[m[1]]
      BY <1>3, <2>1 DEF FileTypes, FileShown, Behind
    <3>2. m[1] \in Chat /\ Time(m) \in Nat \ {0} /\ session[k][m[1]] \in Nat
          /\ state[m[1]] \in Nat /\ state[m[1]] <= session[k][m[1]]
      BY <2>3, <2>4, <3>1
    <3>3. m[1] \in shown
      BY <3>1, <3>2
    <3>4. state[m[1]] <= new[m[1]] /\ new[m[1]] \in Nat
      <4>1. new[m[1]] = Advanced(k, m[1], res) /\ new[m[1]] \in Nat
        BY <1>3, <1>4, <3>2, <3>3, AdvancedTime
      <4>2. CASE m[1] \notin Changed(k, session[k])
        BY <1>3, <3>2, <4>1, <4>2, AdvancedTime
      <4>3. CASE \E x \in res : x[1] = m[1] /\ new[m[1]] = Time(x)
        <5>1. PICK x \in res : x[1] = m[1] /\ new[m[1]] = Time(x)
          BY <4>3
        <5>2. Time(x) > state[m[1]]
          BY <2>3, <3>1, <5>1 DEF Since
        <5> QED
          BY <3>2, <4>1, <5>1, <5>2
      <4>4. CASE new[m[1]] = loaded[k][m[1]]
        BY <2>3, <3>2, <4>4
      <4> QED
        BY <1>3, <2>3, <3>1, <3>2, <4>1, <4>2, <4>3, <4>4, AdvancedTime
    <3> QED
      BY <3>1, <3>2, <3>3, <3>4
  <2>9. \A m \in delivered \cup res : m[2] \in 1..stored[m[1]]
    BY <2>1, <2>5 DEF FileShown, Behind
  <2>10. res \cap delivered = {}
    <3> SUFFICES ASSUME NEW m \in res, m \in delivered PROVE FALSE
      OBVIOUS
    <3>1. m[1] \in DOMAIN state /\ Time(m) <= state[m[1]]
      BY <2>1 DEF FileShown, Behind
    <3>2. Time(m) > state[m[1]]
      BY <2>3, <3>1 DEF Since
    <3>3. Time(m) \in Nat /\ state[m[1]] \in Nat
      BY <2>3, <2>4, <2>5, <3>1
    <3> QED
      BY <3>1, <3>2, <3>3
  <2>11. /\ \A c \in Chat : LastTimestamp(c)' = LastTimestamp(c)
         /\ \A m \in delivered \cup res : Time(m)' = Time(m)
         /\ stored' = stored /\ delivered' = delivered
    BY <1>2 DEF LastTimestamp, Time, wechat
  <2>12. \A m \in (delivered \cup out[k])' : Behind(m, newState[k])'
    BY <1>4, <1>5, <2>7, <2>8, <2>9, <2>11 DEF Behind
  <2>13. \A c \in DOMAIN newState'[k] : newState'[k][c] <= LastTimestamp(c)'
    BY <1>4, <1>5, <2>6, <2>11
  <2> HIDE DEF shown
  <2> QED
    BY <1>5, <2>2, <2>10, <2>11, <2>12, <2>13 DEF CommandOnce
<1>8. \A j \in Client \ {k} : pc'[j] = pc[j] /\ got'[j] = got[j]
  BY <1>2, <1>3 DEF FileTypes
<1> QED
  BY <1>2, <1>6, <1>7, <1>8, CommandStep

LEMMA SaveStateOnce ==
  ASSUME OnceInv, NEW k \in Client, SaveState(k)
  PROVE  OnceInv'
<1>1. /\ pc[k] = "save" /\ pc' = [pc EXCEPT ![k] = "print"]
      /\ newState' = [newState EXCEPT ![k] = Empty]
      /\ state' \in {state, newState[k]}
      /\ UNCHANGED <<wechat, delivered, loaded, session, next, got, out>>
  BY DEF SaveState
<1>2. newState[k] = Empty => state' = state
  BY DEF SaveState
<1>3. orderly' \in BOOLEAN /\ (orderly' => orderly)
  BY DEF SaveState
<1>4. orderly' => (newState[k] # Empty => state' = newState[k])
  BY DEF SaveState
<1>5. FileTypes
  BY DEF OnceInv
<1>6. FileTypes'
  <2>1. pc' \in [Client -> PCs] /\ newState' \in [Client -> Cursors] /\ state' \in Cursors
    BY <1>1, <1>5, CursorsOf DEF FileTypes, PCs
  <2>2. orderly' \in BOOLEAN
    BY <1>3
  <2> QED
    BY <1>1, <1>5, <2>1, <2>2 DEF FileTypes, wechat
<1>7. pc'[k] = "print" /\ \A j \in Client \ {k} : pc'[j] = pc[j] /\ got'[j] = got[j]
  BY <1>1, <1>5 DEF FileTypes
<1>8. orderly' => FileShown' /\ CommandOnce(k)'
  <2> SUFFICES ASSUME orderly' PROVE FileShown' /\ CommandOnce(k)'
    OBVIOUS
  <2>1. FileShown /\ CommandOnce(k)
    BY <1>3 DEF OnceInv, FileOnce
  <2>2. /\ \A c \in DOMAIN newState[k] : newState[k][c] <= LastTimestamp(c)
        /\ \A m \in delivered \cup out[k] : Behind(m, newState[k])
        /\ out[k] \cap delivered = {}
    BY <1>1, <2>1 DEF CommandOnce
  <2>3. /\ \A c \in DOMAIN state' : state'[c] <= LastTimestamp(c)
        /\ \A m \in delivered \cup out[k] : Behind(m, state')
    <3>1. CASE newState[k] = Empty
      <4>1. DOMAIN newState[k] = {}
        BY <3>1, CursorsOf
      <4>2. delivered \cup out[k] = {}
        BY <2>2, <4>1 DEF Behind
      <4> QED
        BY <1>2, <2>1, <3>1, <4>2 DEF FileShown
    <3>2. CASE newState[k] # Empty
      BY <1>4, <2>2, <3>2
    <3> QED
      BY <3>1, <3>2
  <2>4. FileShown' /\ \A m \in out'[k] : Behind(m, state)'
    BY <1>1, <2>3 DEF FileShown, Behind, LastTimestamp, Time, wechat
  <2> QED
    BY <1>1, <1>7, <2>2, <2>4 DEF CommandOnce
<1> QED
  BY <1>1, <1>3, <1>6, <1>7, <1>8, CommandStep

LEMMA EndOnce ==
  ASSUME OnceInv, NEW k \in Client, PrintResponse(k) \/ Fails(k)
  PROVE  OnceInv'
<1>1. Ended(k) /\ pc[k] # "idle" /\ UNCHANGED <<wechat, state, orderly>>
  BY DEF PrintResponse, Fails
<1>2. /\ pc' = [pc EXCEPT ![k] = "idle"] /\ loaded' = [loaded EXCEPT ![k] = Empty]
      /\ session' = [session EXCEPT ![k] = [c \in Chat |-> 0]]
      /\ next' = [next EXCEPT ![k] = 0] /\ got' = [got EXCEPT ![k] = {}]
      /\ out' = [out EXCEPT ![k] = {}] /\ newState' = [newState EXCEPT ![k] = Empty]
  BY <1>1 DEF Ended
<1>3. \/ delivered' = delivered
      \/ pc[k] = "print" /\ delivered' = delivered \cup out[k]
  <2>1. PrintResponse(k) => pc[k] = "print" /\ delivered' = delivered \cup out[k]
    BY DEF PrintResponse
  <2>2. Fails(k) => delivered' = delivered
    BY DEF Fails, wechat
  <2> QED
    BY <2>1, <2>2
<1>4. FileTypes
  BY DEF OnceInv
<1>5. FileTypes'
  <2>1. /\ pc' \in [Client -> PCs] /\ loaded' \in [Client -> Cursors]
        /\ newState' \in [Client -> Cursors] /\ session' \in [Client -> [Chat -> Nat]]
        /\ next' \in [Client -> Nat]
    BY <1>2, <1>4, CursorsOf DEF FileTypes, PCs
  <2>2. got' \in [Client -> SUBSET Message] /\ out' \in [Client -> SUBSET Message]
    BY <1>2, <1>4 DEF FileTypes
  <2>3. delivered' \subseteq Message
    BY <1>3, <1>4 DEF FileTypes
  <2>4. \A j \in Client : \A m \in got'[j] : m[2] \in 1..stored[m[1]]
    BY <1>2, <1>4 DEF FileTypes
  <2> QED
    BY <1>1, <1>4, <2>1, <2>2, <2>3, <2>4 DEF FileTypes, wechat
<1>6. /\ pc'[k] = "idle" /\ got'[k] = {}
      /\ \A j \in Client \ {k} : pc'[j] = pc[j] /\ got'[j] = got[j]
  BY <1>2, <1>4 DEF FileTypes
<1>7. orderly' => FileShown' /\ CommandOnce(k)'
  <2> SUFFICES ASSUME orderly' PROVE FileShown' /\ CommandOnce(k)'
    OBVIOUS
  <2>1. FileShown /\ CommandOnce(k)
    BY <1>1 DEF OnceInv, FileOnce
  <2>2. \A m \in delivered' : Behind(m, state)
    BY <1>3, <2>1 DEF FileShown, CommandOnce
  <2>3. FileShown'
    BY <1>1, <2>1, <2>2 DEF FileShown, Behind, LastTimestamp, Time, wechat
  <2> QED
    BY <1>6, <2>3 DEF CommandOnce
<1> QED
  BY <1>1, <1>5, <1>6, <1>7, CommandStep

LEMMA StepOnce == OnceInv /\ [Next]_vars => OnceInv'
<1> SUFFICES ASSUME OnceInv, [Next]_vars PROVE OnceInv'
  OBVIOUS
<1>1. CASE UNCHANGED vars
  <2>1. FileTypes' /\ Ordered'
    BY <1>1 DEF OnceInv, FileTypes, Ordered, vars, wechat, reply
  <2>2. FileOnce => FileOnce'
    BY <1>1 DEF FileOnce, FileShown, Behind, LastTimestamp, Time, vars, wechat
  <2>3. \A k \in Client : CommandOnce(k) => CommandOnce(k)'
    BY <1>1 DEF CommandOnce, Behind, LastTimestamp, Time, Changed, Since, vars, wechat, reply
  <2> QED
    BY <1>1, <2>1, <2>2, <2>3 DEF OnceInv, vars
<1>2. CASE WeChat
  BY <1>2, WeChatOnce
<1>3. ASSUME NEW k \in Client, Command(k) \/ Fails(k) PROVE OnceInv'
  BY <1>3, LoadStateOnce, ReadSessionsOnce, ReadShardOnce, ReplyOnce, SaveStateOnce, EndOnce
    DEF Command
<1> QED
  BY <1>1, <1>2, <1>3 DEF Next

\* query.rs:5786 ("incremental fetch"): as long as session.db is never behind
\* the shards, commands run one after the other and each saves its cursors, no
\* command prints a message that an earlier one has printed: with messages of
\* the same second, shards that fail, commands that die at any step, chats that
\* last_check.json does not hold, and for any limits.
THEOREM PrintedNoTwice == Spec => PrintedOnce
<1>1. Init => OnceInv
  BY InitOnce
<1>2. OnceInv /\ [Next]_vars => OnceInv'
  BY StepOnce
<1>3. OnceInv /\ [Next]_vars => [orderly => PrintsNew]_vars
  <2> SUFFICES ASSUME OnceInv, orderly, NEW k \in Client, pc[k] = "print"
               PROVE  out[k] \cap delivered = {}
    BY DEF PrintsNew
  <2> QED
    BY DEF OnceInv, CommandOnce
<1> QED
  BY <1>1, <1>2, <1>3, PTL DEF Spec, PrintedOnce
=============================================================================
