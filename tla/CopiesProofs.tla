----------------------------- MODULE CopiesProofs -----------------------------
(***************************************************************************)
(* What a daemon trusts by modification times is what it takes it for:     *)
(* contacts taken from names_cache.bin are of the daemon's own account and *)
(* no older than the times told when its load began, for any number of     *)
(* daemons and accounts, of writes and of changes of account; and the      *)
(* plaintext copy of a database is the committed database when the times   *)
(* say so, for any number of pages, frames, generations and transactions.  *)
(***************************************************************************)
EXTENDS NamesCache, DecryptCache, WalLogProofs

-----------------------------------------------------------------------------
(* Contacts.  The file is matched by the modification times of contact.db  *)
(* and its log alone, so the argument is about those: once a version the   *)
(* file lacks is told, the times have passed the file's for good, because  *)
(* every write takes a tick of its own and a log goes away only when the   *)
(* database is newer.  It needs the two times of a snapshot to be read     *)
(* without the log going away in between, and a log to be seen when it is  *)
(* there.                                                                  *)

Data == [acc : Account \cup {None}, ver : Nat, snap : Stamp]
Steps == {"off", "stat", "statWal", "lookup", "hit", "statAgain", "statWalAgain", "scan",
          "scanned", "done", "gone"}

NamesType ==
  /\ now \in Nat
  /\ ver \in [Account -> Nat] /\ told \in [Account -> Nat]
  /\ wrote \in [Account -> Stamp] /\ shown \in [Account -> Stamp]
  /\ account \in Account
  /\ acct \in [Daemon -> Account \cup {None}]
  /\ pc \in [Daemon -> Steps]
  /\ snap \in [Daemon -> Stamp]
  /\ names \in [Daemon -> [acc : Account \cup {None}, ver : Nat] \cup {None}]
  /\ since \in [Daemon -> [ver : Nat, told : Nat]]
  /\ inode \in [Daemon -> Data]
  /\ name \in [bin : Daemon \cup {None}, tmp : Daemon \cup {None}]
  /\ writer \in [Daemon -> [at : {"none", "open", "write", "rename"}, data : Data,
                            file : Daemon \cup {None}]]
  /\ \A d \in Daemon : writer[d].at = "write" => writer[d].file \in Daemon

\* Other processes see an earlier moment of the two files.
WorldInv ==
  /\ now # 0
  /\ \A a \in Account :
       /\ told[a] <= ver[a]
       /\ shown[a].db <= wrote[a].db /\ shown[a].wal <= wrote[a].wal
       /\ wrote[a].db <= now /\ wrote[a].wal <= now

\* The two files with the times t are past the snapshot s, and stay past it.
Beyond(t, s) == t.db > s.db \/ (t.db = s.db /\ t.wal > s.wal /\ t.wal >= s.db)

\* The snapshot s was told of account a some time ago.
SeenInv(a, s) ==
  /\ s.db <= wrote[a].db /\ s.wal <= now
  /\ s.wal = now => wrote[a].wal = now

\* The load of d will not find the snapshot s.
Passed(d, s) ==
  /\ pc[d] = "stat" => Beyond(shown[acct[d]], s)
  /\ pc[d] = "statWal" => \/ snap[d].db > s.db
                          \/ snap[d].db = s.db /\ shown[acct[d]].wal > s.wal
  /\ pc[d] = "lookup" => snap[d] # s

\* Contacts of version v of account a, filed under the snapshot s, will not be
\* taken for newer ones.
Covered(a, v, s) ==
  /\ SeenInv(a, s)
  /\ v >= ver[a] \/ Beyond(wrote[a], s)
  /\ v >= told[a] \/ Beyond(shown[a], s)
  /\ \A d \in Daemon : acct[d] = a => v >= since[d].told \/ Passed(d, s)

CoverInv(x) == x.acc \in Account => Covered(x.acc, x.ver, x.snap)

LoadInv(d) ==
  /\ pc[d] \notin {"off", "gone"} => acct[d] \in Account
  /\ acct[d] \in Account => since[d].told <= told[acct[d]]
  /\ pc[d] \in {"statWalAgain", "scan"} => SeenInv(acct[d], snap[d])
  /\ pc[d] = "statWalAgain" => snap[d].wal = 0
  /\ pc[d] = "scanned" =>
       /\ names[d] \in [acc : {acct[d]}, ver : Nat]
       /\ Covered(acct[d], names[d].ver, snap[d])
  /\ pc[d] = "hit" => names[d].acc = acct[d] /\ names[d].ver >= since[d].told

NamesInv ==
  /\ NamesType /\ WorldInv
  /\ \A d \in Daemon : LoadInv(d) /\ CoverInv(writer[d].data) /\ CoverInv(inode[d])

LEMMA EmptyTypes ==
         /\ Empty \in Data /\ Empty.snap \in Stamp /\ CoverInv(Empty) /\ NoWriter.data = Empty
         /\ NoSince \in [ver : Nat, told : Nat]
         /\ NoWriter \in [at : {"none", "open", "write", "rename"}, data : Data,
                          file : Daemon \cup {None}]
  BY NamesCacheAssumption DEF Empty, Data, Stamp, CoverInv, NoWriter, NoSince

LEMMA InitNames ==
  ASSUME Init
  PROVE  NamesInv
<1>1. NamesType
  BY EmptyTypes DEF Init, NamesType, Stamp, Steps, Empty, NoWriter
<1>2. WorldInv
  BY DEF Init, WorldInv
<1>3. \A d \in Daemon : LoadInv(d) /\ CoverInv(writer[d].data) /\ CoverInv(inode[d])
  BY EmptyTypes, NamesCacheAssumption DEF Init, LoadInv
<1> QED
  BY <1>1, <1>2, <1>3 DEF NamesInv

-----------------------------------------------------------------------------
(* Steps of WeChat and of the clock *)

WorldStep ==
  /\ Tick \/ \E a \in Account : Show(a) \/ WriteContact(a) \/ Checkpoint(a) \/ CloseLog(a)

\* What such a step does to the account a: nothing, a write of the log, a write
\* of the database, or the end of the log; what is told is kept or brought up
\* to date.
Moves(a) ==
  /\ now' \in Nat /\ now <= now'
  /\ ver'[a] \in Nat /\ told'[a] \in Nat /\ wrote'[a] \in Stamp /\ shown'[a] \in Stamp
  /\ \/ ver'[a] = ver[a] /\ wrote'[a] = wrote[a]
     \/ /\ now' = now /\ wrote[a].wal < now /\ ver[a] <= ver'[a]
        /\ wrote'[a].db = wrote[a].db /\ wrote'[a].wal = now
     \/ /\ now' = now /\ ver'[a] = ver[a] /\ wrote[a].db < now
        /\ wrote'[a].db = now /\ wrote'[a].wal = wrote[a].wal
     \/ /\ now' = now /\ ver'[a] = ver[a] /\ wrote[a].wal < wrote[a].db
        /\ wrote'[a].db = wrote[a].db /\ wrote'[a].wal = 0
        /\ shown'[a] = wrote'[a] /\ told'[a] = ver'[a]
        /\ \A d \in Daemon : pc[d] # "statWal"
  /\ \/ shown'[a] = shown[a] /\ told'[a] = told[a]
     \/ shown'[a] = wrote'[a] /\ told'[a] = ver'[a]

LEMMA WorldMoves ==
  ASSUME NamesType, WorldStep, ~Straddle, NEW a \in Account
  PROVE  Moves(a)
<1>1. /\ now \in Nat /\ ver[a] \in Nat /\ told[a] \in Nat
      /\ wrote[a] \in Stamp /\ shown[a] \in Stamp
  BY DEF NamesType
<1>2. CASE Tick
  BY <1>1, <1>2 DEF Tick, Moves
<1>3. ASSUME NEW b \in Account, Show(b) PROVE Moves(a)
  BY <1>1, <1>3 DEF Show, NamesType, Moves
<1>4. ASSUME NEW b \in Account, NEW f \in {"db", "wal"}, Touch(b, f), ver' \in [Account -> Nat]
      PROVE  /\ wrote[b][f] < now
             /\ wrote'[b] = [wrote[b] EXCEPT ![f] = now]
             /\ (a # b => wrote'[a] = wrote[a] /\ shown'[a] = shown[a] /\ told'[a] = told[a])
             /\ \/ shown'[b] = shown[b] /\ told'[b] = told[b]
                \/ shown'[b] = wrote'[b] /\ told'[b] = ver'[b]
  BY <1>4 DEF Touch, NamesType
<1>5. ASSUME NEW b \in Account, WriteContact(b) PROVE Moves(a)
  <2>1. ver' \in [Account -> Nat] /\ ver[b] <= ver'[b] /\ ver'[b] \in Nat /\ (a # b => ver'[a] = ver[a])
    BY <1>5 DEF WriteContact, NamesType
  <2>2. Touch(b, "wal") /\ now' = now /\ UNCHANGED <<account, load, store>>
    BY <1>5 DEF WriteContact
  <2>3. /\ wrote'[b] = [wrote[b] EXCEPT !["wal"] = now] /\ wrote[b]["wal"] < now
        /\ (a # b => wrote'[a] = wrote[a] /\ shown'[a] = shown[a] /\ told'[a] = told[a])
        /\ \/ shown'[b] = shown[b] /\ told'[b] = told[b]
           \/ shown'[b] = wrote'[b] /\ told'[b] = ver'[b]
    BY <1>4, <2>1, <2>2
  <2>4. wrote[b] \in Stamp
    BY DEF NamesType
  <2>5. /\ wrote'[b] \in Stamp /\ wrote'[b].db = wrote[b].db /\ wrote'[b].wal = now
        /\ wrote[b].wal < now
    BY <2>3, <2>4, <1>1 DEF Stamp
  <2>6. CASE a = b
    <3>1. ver'[b] \in Nat /\ told'[b] \in Nat /\ shown'[b] \in Stamp /\ now' \in Nat /\ now <= now'
      BY <2>1, <2>2, <2>3, <2>5, <2>6, <1>1
    <3> QED
      BY <3>1, <2>1, <2>2, <2>3, <2>5, <2>6 DEF Moves
  <2>7. CASE a # b
    BY <2>1, <2>2, <2>3, <2>7, <1>1 DEF Moves
  <2> QED
    BY <2>6, <2>7
<1>6. ASSUME NEW b \in Account, Checkpoint(b) PROVE Moves(a)
  <2>2. Touch(b, "db") /\ now' = now /\ ver' = ver /\ UNCHANGED <<account, load, store>>
        /\ wrote[b].wal >= wrote[b].db /\ wrote[b].wal < now
    BY <1>6 DEF Checkpoint
  <2>1. ver' \in [Account -> Nat]
    BY <2>2 DEF NamesType
  <2>3. /\ wrote'[b] = [wrote[b] EXCEPT !["db"] = now] /\ wrote[b]["db"] < now
        /\ (a # b => wrote'[a] = wrote[a] /\ shown'[a] = shown[a] /\ told'[a] = told[a])
        /\ \/ shown'[b] = shown[b] /\ told'[b] = told[b]
           \/ shown'[b] = wrote'[b] /\ told'[b] = ver'[b]
    BY <1>4, <2>1, <2>2
  <2>4. wrote[b] \in Stamp
    BY DEF NamesType
  <2>5. /\ wrote'[b] \in Stamp /\ wrote'[b].wal = wrote[b].wal /\ wrote'[b].db = now
        /\ wrote[b].db < now
    BY <2>3, <2>4, <1>1 DEF Stamp
  <2>6. CASE a = b
    <3>1. ver'[b] \in Nat /\ told'[b] \in Nat /\ shown'[b] \in Stamp /\ now' \in Nat /\ now <= now'
      BY <2>2, <2>3, <2>5, <2>6, <1>1
    <3> QED
      BY <3>1, <2>2, <2>3, <2>5, <2>6 DEF Moves
  <2>7. CASE a # b
    BY <2>2, <2>3, <2>7, <1>1 DEF Moves
  <2> QED
    BY <2>6, <2>7
<1>7. ASSUME NEW b \in Account, CloseLog(b) PROVE Moves(a)
  <2>1. /\ wrote' = [wrote EXCEPT ![b].wal = 0] /\ shown' = [shown EXCEPT ![b] = wrote'[b]]
        /\ told' = [told EXCEPT ![b] = ver[b]] /\ ver' = ver /\ now' = now
        /\ UNCHANGED <<account, load, store>>
        /\ wrote[b].db > wrote[b].wal /\ \A d \in Daemon : pc[d] # "statWal"
    BY <1>7 DEF CloseLog
  <2>2. wrote[b] \in Stamp
    BY DEF NamesType
  <2>3. /\ wrote'[b] \in Stamp /\ wrote'[b].db = wrote[b].db /\ wrote'[b].wal = 0
        /\ wrote[b].wal < wrote[b].db /\ shown'[b] = wrote'[b] /\ told'[b] = ver[b]
        /\ (a # b => wrote'[a] = wrote[a] /\ shown'[a] = shown[a] /\ told'[a] = told[a])
    BY <2>1, <2>2 DEF NamesType, Stamp
  <2>6. CASE a = b
    BY <2>1, <2>3, <2>6, <1>1 DEF Moves
  <2>7. CASE a # b
    BY <2>1, <2>3, <2>7, <1>1 DEF Moves
  <2> QED
    BY <2>6, <2>7
<1> QED
  BY <1>2, <1>3, <1>5, <1>6, <1>7 DEF WorldStep

\* The times only go on, and what has passed a snapshot stays past it.
LEMMA TimesGoOn ==
  ASSUME NamesType, WorldInv, NEW a \in Account, Moves(a)
  PROVE  /\ told'[a] <= ver'[a] /\ told[a] <= told'[a]
         /\ shown'[a].db <= wrote'[a].db /\ shown'[a].wal <= wrote'[a].wal
         /\ wrote'[a].db <= now' /\ wrote'[a].wal <= now'
         /\ \A s \in Stamp : Beyond(shown[a], s) => Beyond(shown[a], s)'
         /\ \A s \in Stamp : Beyond(wrote[a], s) => Beyond(wrote[a], s)'
<1>1. /\ now \in Nat /\ ver[a] \in Nat /\ told[a] \in Nat
      /\ wrote[a].db \in Nat /\ wrote[a].wal \in Nat
      /\ shown[a].db \in Nat /\ shown[a].wal \in Nat
      /\ wrote'[a].db \in Nat /\ wrote'[a].wal \in Nat
      /\ ver'[a] \in Nat /\ told'[a] \in Nat /\ now' \in Nat
  BY DEF NamesType, Moves, Stamp
<1>2. /\ told[a] <= ver[a] /\ ver[a] <= ver'[a] /\ now <= now'
      /\ shown[a].db <= wrote[a].db /\ shown[a].wal <= wrote[a].wal
      /\ wrote[a].db <= now /\ wrote[a].wal <= now
  <2>1. /\ told[a] <= ver[a]
        /\ shown[a].db <= wrote[a].db /\ shown[a].wal <= wrote[a].wal
        /\ wrote[a].db <= now /\ wrote[a].wal <= now
    BY DEF WorldInv
  <2>2. now <= now' /\ (ver'[a] = ver[a] \/ ver[a] <= ver'[a])
    BY DEF Moves
  <2> QED
    BY <2>1, <2>2, <1>1
<1>3. /\ wrote[a].db <= wrote'[a].db
      /\ \/ wrote[a].wal <= wrote'[a].wal
         \/ /\ wrote'[a].wal = 0 /\ wrote[a].wal < wrote[a].db /\ wrote'[a].db = wrote[a].db
            /\ shown'[a] = wrote'[a]
  <2>1. \/ wrote'[a] = wrote[a]
        \/ wrote'[a].db = wrote[a].db /\ wrote'[a].wal = now
        \/ wrote'[a].db = now /\ wrote'[a].wal = wrote[a].wal
        \/ /\ wrote'[a].wal = 0 /\ wrote[a].wal < wrote[a].db /\ wrote'[a].db = wrote[a].db
           /\ shown'[a] = wrote'[a]
    BY DEF Moves
  <2> QED
    BY <2>1, <1>1, <1>2
<1>4. /\ wrote'[a].db <= now' /\ wrote'[a].wal <= now'
      /\ \/ shown'[a] = shown[a] /\ told'[a] = told[a]
         \/ shown'[a] = wrote'[a] /\ told'[a] = ver'[a]
  <2>1. /\ \/ wrote'[a] = wrote[a]
           \/ now' = now /\ wrote'[a].db = wrote[a].db /\ wrote'[a].wal = now
           \/ now' = now /\ wrote'[a].db = now /\ wrote'[a].wal = wrote[a].wal
           \/ now' = now /\ wrote'[a].wal = 0 /\ wrote'[a].db = wrote[a].db
        /\ \/ shown'[a] = shown[a] /\ told'[a] = told[a]
           \/ shown'[a] = wrote'[a] /\ told'[a] = ver'[a]
    BY DEF Moves
  <2> QED
    BY <2>1, <1>1, <1>2
<1>5. ASSUME NEW s \in Stamp, Beyond(wrote[a], s) PROVE Beyond(wrote[a], s)'
  <2>1. s.db \in Nat /\ s.wal \in Nat
    BY DEF Stamp
  <2> QED
    BY <2>1, <1>1, <1>3, <1>5 DEF Beyond
<1>6. ASSUME NEW s \in Stamp, Beyond(shown[a], s) PROVE Beyond(shown[a], s)'
  <2>1. s.db \in Nat /\ s.wal \in Nat
    BY DEF Stamp
  <2>2. Beyond(wrote[a], s)
    BY <2>1, <1>1, <1>2, <1>6 DEF Beyond
  <2>3. Beyond(wrote[a], s)'
    BY <2>2, <1>5
  <2> QED
    BY <2>3, <1>4, <1>6 DEF Beyond
<1> QED
  BY <1>1, <1>2, <1>3, <1>4, <1>5, <1>6

\* What is covered stays covered: a new version is written at a time of its
\* own, which is past every snapshot told before.
LEMMA WorldCovered ==
  ASSUME NamesType, WorldInv, UNCHANGED load, NEW a \in Account, Moves(a),
         NEW v \in Nat, NEW s \in Stamp
  PROVE  /\ SeenInv(a, s) => SeenInv(a, s)'
         /\ Covered(a, v, s) => Covered(a, v, s)'
<1>1. /\ now \in Nat /\ ver[a] \in Nat /\ told[a] \in Nat
      /\ wrote[a].db \in Nat /\ wrote[a].wal \in Nat
      /\ shown[a].db \in Nat /\ shown[a].wal \in Nat
      /\ wrote'[a].db \in Nat /\ wrote'[a].wal \in Nat
      /\ shown'[a].db \in Nat /\ shown'[a].wal \in Nat
      /\ ver'[a] \in Nat /\ told'[a] \in Nat /\ now' \in Nat
      /\ s.db \in Nat /\ s.wal \in Nat
  BY DEF NamesType, Moves, Stamp
<1>2. /\ told[a] <= ver[a] /\ now <= now'
      /\ shown[a].db <= wrote[a].db /\ shown[a].wal <= wrote[a].wal
      /\ wrote[a].db <= now /\ wrote[a].wal <= now
  BY <1>1 DEF WorldInv, Moves
<1>3. ASSUME SeenInv(a, s) PROVE SeenInv(a, s)'
  <2>1. s.db <= wrote[a].db /\ s.wal <= now /\ (s.wal = now => wrote[a].wal = now)
    BY <1>3 DEF SeenInv
  <2>2. wrote[a].db <= wrote'[a].db
    BY <1>1, <1>2 DEF Moves
  <2>3. s.wal = now' => wrote'[a].wal = now'
    <3> SUFFICES ASSUME s.wal = now' PROVE wrote'[a].wal = now'
      OBVIOUS
    <3>1. now' = now /\ wrote[a].wal = now
      BY <2>1, <1>1, <1>2
    <3> QED
      BY <3>1, <1>1, <1>2 DEF Moves
  <2> QED
    BY <2>1, <2>2, <2>3, <1>1, <1>2 DEF SeenInv
<1>4. ASSUME Covered(a, v, s) PROVE Covered(a, v, s)'
  <2>1. SeenInv(a, s) /\ SeenInv(a, s)'
    BY <1>3, <1>4 DEF Covered
  <2>2. v >= ver'[a] \/ Beyond(wrote[a], s)'
    <3>1. CASE ver'[a] = ver[a]
      BY <3>1, <1>4, TimesGoOn DEF Covered
    <3>2. CASE ver'[a] # ver[a]
      <4>1. /\ now' = now /\ wrote[a].wal < now
            /\ wrote'[a].db = wrote[a].db /\ wrote'[a].wal = now
        BY <3>2 DEF Moves
      <4>2. s.db <= wrote[a].db /\ s.wal < now
        BY <4>1, <2>1, <1>1 DEF SeenInv
      <4> QED
        BY <4>1, <4>2, <1>1, <1>2 DEF Beyond
    <3> QED
      BY <3>1, <3>2
  <2>3. v >= told'[a] \/ Beyond(shown[a], s)'
    <3>1. CASE shown'[a] = shown[a] /\ told'[a] = told[a]
      BY <3>1, <1>4 DEF Covered, Beyond
    <3>2. CASE shown'[a] = wrote'[a] /\ told'[a] = ver'[a]
      BY <3>2, <2>2 DEF Beyond
    <3> QED
      BY <3>1, <3>2 DEF Moves
  <2>4. ASSUME NEW d \in Daemon, acct[d] = a, Passed(d, s) PROVE Passed(d, s)'
    <3>1. acct' = acct /\ pc' = pc /\ snap' = snap
      BY DEF load
    <3>2. pc[d] = "stat" => Beyond(shown'[a], s)
      <4>1. pc[d] = "stat" => Beyond(shown[a], s)
        BY <2>4 DEF Passed
      <4>2. Beyond(shown[a], s) => Beyond(shown[a], s)'
        BY TimesGoOn
      <4> QED
        BY <4>1, <4>2 DEF Beyond
    <3>3. pc[d] = "statWal" => shown[a].wal <= shown'[a].wal
      BY <1>1, <1>2 DEF Moves
    <3>4. pc[d] = "statWal" => \/ snap[d].db > s.db
                               \/ snap[d].db = s.db /\ shown'[a].wal > s.wal
      BY <2>4, <3>3, <1>1 DEF Passed
    <3> QED
      BY <3>1, <3>2, <3>4, <2>4 DEF Passed
  <2>5. acct' = acct /\ since' = since
    BY DEF load
  <2>6. \A d \in Daemon : acct'[d] = a => v >= since'[d].told \/ Passed(d, s)'
    BY <2>4, <2>5, <1>4 DEF Covered
  <2> QED
    BY <2>1, <2>2, <2>3, <2>6 DEF Covered
<1> QED
  BY <1>3, <1>4

LEMMA WorldNames ==
  ASSUME NamesInv, WorldStep, ~Straddle
  PROVE  NamesInv'
<1>1. NamesType /\ WorldInv /\ UNCHANGED <<account, load, store>>
  BY DEF NamesInv, WorldStep, Tick, Show, WriteContact, Checkpoint, CloseLog
<1>2. \A a \in Account : Moves(a)
  BY <1>1, WorldMoves
<1>3. now' \in Nat /\ now <= now'
  BY <1>1, <1>2 DEF NamesType, Moves
<1>4. NamesType'
  <2>1. /\ ver' = [a \in Account |-> ver'[a]] /\ told' = [a \in Account |-> told'[a]]
        /\ wrote' = [a \in Account |-> wrote'[a]] /\ shown' = [a \in Account |-> shown'[a]]
    <3>1. CASE Tick
      BY <3>1, <1>1 DEF Tick, NamesType
    <3>2. ASSUME NEW b \in Account, Show(b)
          PROVE  /\ ver' = [a \in Account |-> ver'[a]] /\ told' = [a \in Account |-> told'[a]]
                 /\ wrote' = [a \in Account |-> wrote'[a]] /\ shown' = [a \in Account |-> shown'[a]]
      BY <3>2, <1>1 DEF Show, NamesType
    <3>3. ASSUME NEW b \in Account, WriteContact(b) \/ Checkpoint(b)
          PROVE  /\ ver' = [a \in Account |-> ver'[a]] /\ told' = [a \in Account |-> told'[a]]
                 /\ wrote' = [a \in Account |-> wrote'[a]] /\ shown' = [a \in Account |-> shown'[a]]
      BY <3>3, <1>1 DEF WriteContact, Checkpoint, Touch, NamesType
    <3>4. ASSUME NEW b \in Account, CloseLog(b)
          PROVE  /\ ver' = [a \in Account |-> ver'[a]] /\ told' = [a \in Account |-> told'[a]]
                 /\ wrote' = [a \in Account |-> wrote'[a]] /\ shown' = [a \in Account |-> shown'[a]]
      BY <3>4, <1>1 DEF CloseLog, NamesType
    <3> QED
      BY <3>1, <3>2, <3>3, <3>4 DEF WorldStep
  <2>2. \A a \in Account : ver'[a] \in Nat /\ told'[a] \in Nat /\ wrote'[a] \in Stamp
                           /\ shown'[a] \in Stamp
    BY <1>2 DEF Moves
  <2>3. /\ ver' \in [Account -> Nat] /\ told' \in [Account -> Nat]
        /\ wrote' \in [Account -> Stamp] /\ shown' \in [Account -> Stamp]
    BY <2>1, <2>2
  <2> QED
    BY <2>3, <1>1, <1>3 DEF NamesType, load, store
<1>5. WorldInv'
  <2>1. now' # 0
    BY <1>1, <1>3 DEF WorldInv, NamesType
  <2> QED
    BY <2>1, <1>1, <1>2, TimesGoOn DEF WorldInv
<1>6. \A x \in Data : CoverInv(x) => CoverInv(x)'
  <2>1. \A x \in Data : x.ver \in Nat /\ x.snap \in Stamp
    BY DEF Data
  <2> QED
    BY <2>1, <1>1, <1>2, WorldCovered DEF CoverInv
<1>7. ASSUME NEW d \in Daemon PROVE CoverInv(writer[d].data)' /\ CoverInv(inode[d])'
  <2>1. writer[d].data \in Data /\ inode[d] \in Data
    BY <1>1 DEF NamesType
  <2>2. writer' = writer /\ inode' = inode
    BY <1>1 DEF store
  <2>3. CoverInv(writer[d].data) /\ CoverInv(inode[d])
    BY DEF NamesInv
  <2>4. PICK x \in Data, y \in Data : x = writer[d].data /\ y = inode[d]
    BY <2>1
  <2>5. CoverInv(x)' /\ CoverInv(y)'
    BY <2>3, <2>4, <1>6
  <2>6. writer'[d].data = x /\ inode'[d] = y
    BY <2>2, <2>4
  <2> QED
    BY <2>5, <2>6 DEF CoverInv, Covered, SeenInv, Beyond, Passed
<1>8. ASSUME NEW d \in Daemon PROVE LoadInv(d)'
  <2>1. acct' = acct /\ pc' = pc /\ snap' = snap /\ names' = names /\ since' = since
    BY <1>1 DEF load
  <2>2. LoadInv(d) /\ snap[d] \in Stamp /\ since[d].told \in Nat
    BY <1>1 DEF NamesInv, NamesType
  <2>3. ASSUME acct[d] \in Account, since[d].told <= told[acct[d]]
        PROVE  since'[d].told <= told'[acct[d]]
    <3>1. told[acct[d]] <= told'[acct[d]] /\ told[acct[d]] \in Nat /\ told'[acct[d]] \in Nat
      BY <2>3, <1>1, <1>2, TimesGoOn DEF Moves, NamesType
    <3> QED
      BY <3>1, <2>1, <2>2, <2>3
  <2>4. ASSUME acct[d] \in Account, SeenInv(acct[d], snap[d])
        PROVE  SeenInv(acct[d], snap[d])'
    <3>1. PICK a \in Account, s \in Stamp : a = acct[d] /\ s = snap[d]
      BY <2>2, <2>4
    <3>2. 0 \in Nat
      OBVIOUS
    <3>3. SeenInv(a, s) => SeenInv(a, s)'
      BY <3>2, <1>1, <1>2, WorldCovered
    <3> QED
      BY <3>1, <3>3, <2>1, <2>4 DEF SeenInv
  <2>5. ASSUME acct[d] \in Account, names[d] \in [acc : {acct[d]}, ver : Nat],
               Covered(acct[d], names[d].ver, snap[d])
        PROVE  Covered(acct[d], names[d].ver, snap[d])'
    <3>1. PICK a \in Account, v \in Nat, s \in Stamp :
            a = acct[d] /\ v = names[d].ver /\ s = snap[d]
      BY <2>2, <2>5
    <3>2. Covered(a, v, s)'
      BY <3>1, <2>5, <1>1, <1>2, WorldCovered
    <3>3. a = acct'[d] /\ v = names'[d].ver /\ s = snap'[d]
      BY <3>1, <2>1
    <3> QED
      BY <3>2, <3>3 DEF Covered, SeenInv, Beyond, Passed
  <2> QED
    BY <2>1, <2>2, <2>3, <2>4, <2>5 DEF LoadInv
<1> QED
  BY <1>4, <1>5, <1>7, <1>8 DEF NamesInv

-----------------------------------------------------------------------------
(* Steps of the daemons: the files stay as they are, one load moves *)

OthersStay(d) ==
  \A e \in Daemon \ {d} : /\ acct'[e] = acct[e] /\ pc'[e] = pc[e] /\ snap'[e] = snap[e]
                          /\ names'[e] = names[e] /\ since'[e] = since[e]

\* What is covered does not fool the load of d in its next state.
NotFooled(d) ==
  \A a \in Account, v \in Nat, s \in Stamp :
    Covered(a, v, s) /\ acct'[d] = a => v >= since'[d].told \/ Passed(d, s)'

\* Everything that is stored comes from data that was covered.
StoresCovered ==
  \A e \in Daemon : \E x \in Data, y \in Data :
    CoverInv(x) /\ CoverInv(y) /\ writer'[e].data = x /\ inode'[e] = y

LEMMA LoadCovered ==
  ASSUME UNCHANGED world, NEW d \in Daemon, OthersStay(d), NotFooled(d),
         NEW a \in Account, NEW v \in Nat, NEW s \in Stamp, Covered(a, v, s)
  PROVE  Covered(a, v, s)'
<1>1. /\ now' = now /\ ver' = ver /\ told' = told /\ wrote' = wrote /\ shown' = shown
  BY DEF world
<1>2. SeenInv(a, s)'
  BY <1>1 DEF Covered, SeenInv
<1>3. (v >= ver[a] \/ Beyond(wrote[a], s))' /\ (v >= told[a] \/ Beyond(shown[a], s))'
  BY <1>1 DEF Covered, Beyond
<1>4. ASSUME NEW e \in Daemon, acct'[e] = a PROVE v >= since'[e].told \/ Passed(e, s)'
  <2>1. CASE e = d
    BY <2>1, <1>4 DEF NotFooled
  <2>2. CASE e # d
    <3>1. acct'[e] = acct[e] /\ pc'[e] = pc[e] /\ snap'[e] = snap[e] /\ since'[e] = since[e]
      BY <2>2 DEF OthersStay
    <3>2. v >= since[e].told \/ Passed(e, s)
      BY <3>1, <1>4 DEF Covered
    <3>3. Passed(e, s) => Passed(e, s)'
      BY <3>1, <1>1 DEF Passed, Beyond
    <3> QED
      BY <3>1, <3>2, <3>3
  <2> QED
    BY <2>1, <2>2
<1> QED
  BY <1>2, <1>3, <1>4 DEF Covered

LEMMA LoadNames ==
  ASSUME NamesInv, NamesType', UNCHANGED world, NEW d \in Daemon, OthersStay(d),
         NotFooled(d), StoresCovered, LoadInv(d)'
  PROVE  NamesInv'
<1>1. /\ now' = now /\ ver' = ver /\ told' = told /\ wrote' = wrote /\ shown' = shown
  BY DEF world
<1>2. WorldInv'
  BY <1>1 DEF NamesInv, WorldInv
<1>3. ASSUME NEW x \in Data, CoverInv(x) PROVE CoverInv(x)'
  <2>1. x.ver \in Nat /\ x.snap \in Stamp
    BY DEF Data
  <2> QED
    BY <2>1, <1>3, LoadCovered DEF CoverInv
<1>4. ASSUME NEW e \in Daemon PROVE CoverInv(writer[e].data)' /\ CoverInv(inode[e])'
  <2>1. PICK x \in Data, y \in Data :
          CoverInv(x) /\ CoverInv(y) /\ writer'[e].data = x /\ inode'[e] = y
    BY DEF StoresCovered
  <2>2. CoverInv(x)' /\ CoverInv(y)'
    BY <2>1, <1>3
  <2> QED
    BY <2>1, <2>2 DEF CoverInv, Covered, SeenInv, Beyond, Passed
<1>5. ASSUME NEW e \in Daemon, e # d PROVE LoadInv(e)'
  <2>1. /\ acct'[e] = acct[e] /\ pc'[e] = pc[e] /\ snap'[e] = snap[e]
        /\ names'[e] = names[e] /\ since'[e] = since[e]
    BY <1>5 DEF OthersStay
  <2>2. LoadInv(e) /\ snap[e] \in Stamp
    BY DEF NamesInv, NamesType
  <2>3. SeenInv(acct[e], snap[e]) => SeenInv(acct[e], snap[e])'
    BY <2>1, <1>1 DEF SeenInv
  <2>4. ASSUME acct[e] \in Account, names[e] \in [acc : {acct[e]}, ver : Nat],
               Covered(acct[e], names[e].ver, snap[e])
        PROVE  Covered(acct[e], names[e].ver, snap[e])'
    <3>1. PICK a \in Account, v \in Nat, s \in Stamp :
            a = acct[e] /\ v = names[e].ver /\ s = snap[e]
      BY <2>2, <2>4
    <3>2. Covered(a, v, s)'
      BY <3>1, <2>4, LoadCovered
    <3>3. a = acct'[e] /\ v = names'[e].ver /\ s = snap'[e]
      BY <3>1, <2>1
    <3> QED
      BY <3>2, <3>3 DEF Covered, SeenInv, Beyond, Passed
  <2> QED
    BY <2>1, <2>2, <2>3, <2>4, <1>1 DEF LoadInv
<1> QED
  BY <1>2, <1>4, <1>5 DEF NamesInv

\* What a daemon moves when its store is left alone.
LEMMA StoreKept ==
  ASSUME NamesInv, UNCHANGED store
  PROVE  StoresCovered
<1>1. \A e \in Daemon : /\ writer[e].data \in Data /\ inode[e] \in Data
                        /\ CoverInv(writer[e].data) /\ CoverInv(inode[e])
  BY DEF NamesInv, NamesType
<1>2. writer' = writer /\ inode' = inode
  BY DEF store
<1> QED
  BY <1>1, <1>2 DEF StoresCovered

LEMMA LoadKept ==
  ASSUME NamesInv, UNCHANGED <<world, load>>, NEW d \in Daemon
  PROVE  OthersStay(d) /\ NotFooled(d) /\ LoadInv(d)'
<1>1. /\ acct' = acct /\ pc' = pc /\ snap' = snap /\ names' = names /\ since' = since
      /\ now' = now /\ ver' = ver /\ told' = told /\ wrote' = wrote /\ shown' = shown
  BY DEF world, load
<1>2. OthersStay(d)
  BY <1>1 DEF OthersStay
<1>3. NotFooled(d)
  BY <1>1 DEF NotFooled, Covered, Passed, Beyond
<1>4. LoadInv(d)'
  BY <1>1 DEF NamesInv, LoadInv, Covered, SeenInv, Passed, Beyond
<1> QED
  BY <1>2, <1>3, <1>4

\* A load that is not looking for the file is not fooled by it.
LEMMA NotLooking ==
  ASSUME NEW d \in Daemon, pc'[d] \notin {"stat", "statWal", "lookup"}
  PROVE  NotFooled(d)
  BY DEF NotFooled, Passed

LEMMA StartNames ==
  ASSUME NamesInv, NEW d \in Daemon, Start(d)
  PROVE  NamesInv'
<1>1. /\ acct' = [acct EXCEPT ![d] = account] /\ pc' = [pc EXCEPT ![d] = "stat"]
      /\ since' = [since EXCEPT ![d] = [ver |-> ver[account], told |-> told[account]]]
      /\ UNCHANGED <<world, account, snap, names, store>>
  BY DEF Start, Go
<1>2. NamesType
  BY DEF NamesInv
<1>3. account \in Account /\ ver[account] \in Nat /\ told[account] \in Nat
  BY <1>2 DEF NamesType
<1>4. /\ acct'[d] = account /\ pc'[d] = "stat" /\ since'[d].told = told[account]
      /\ told' = told /\ shown' = shown
  BY <1>1, <1>2 DEF NamesType, world
<1>5. NamesType'
  <2>1. /\ acct' \in [Daemon -> Account \cup {None}]
        /\ since' \in [Daemon -> [ver : Nat, told : Nat]]
        /\ pc' \in [Daemon -> Steps]
    BY <1>1, <1>2, <1>3 DEF NamesType, Steps
  <2> QED
    BY <2>1, <1>1, <1>2 DEF NamesType, world, store
<1>6. OthersStay(d)
  BY <1>1, <1>2 DEF OthersStay, NamesType
<1>7. NotFooled(d)
  <2> SUFFICES ASSUME NEW a \in Account, NEW v \in Nat, NEW s \in Stamp,
                      Covered(a, v, s), acct'[d] = a
               PROVE  v >= since'[d].told \/ Passed(d, s)'
    BY DEF NotFooled
  <2>1. v >= told[a] \/ Beyond(shown[a], s)
    BY DEF Covered
  <2> QED
    BY <2>1, <1>4 DEF Passed, Beyond
<1>8. StoresCovered
  BY <1>1, StoreKept
<1>9. LoadInv(d)'
  BY <1>3, <1>4 DEF LoadInv
<1> QED
  BY <1>1, <1>5, <1>6, <1>7, <1>8, <1>9, LoadNames

LEMMA CaptureDbNames ==
  ASSUME NamesInv, NEW d \in Daemon, CaptureDb(d)
  PROVE  NamesInv'
<1> DEFINE s0 == [db |-> shown[acct[d]].db, wal |-> 0]
<1>1. /\ pc' = [pc EXCEPT ![d] = IF pc[d] = "stat" THEN "statWal" ELSE "statWalAgain"]
      /\ snap' = [snap EXCEPT ![d] = s0] /\ pc[d] \in {"stat", "statAgain"}
      /\ UNCHANGED <<world, account, acct, names, since, store>>
  BY DEF CaptureDb, Go, At
<1>2. NamesType /\ WorldInv /\ LoadInv(d)
  BY DEF NamesInv
<1>3. acct[d] \in Account /\ since[d].told <= told[acct[d]]
  BY <1>1, <1>2 DEF LoadInv
<1>4. shown[acct[d]] \in Stamp /\ wrote[acct[d]] \in Stamp
  BY <1>2, <1>3 DEF NamesType
<1>5. s0 \in Stamp /\ s0.db = shown[acct[d]].db /\ s0.wal = 0
  BY <1>4 DEF Stamp
<1> HIDE DEF s0
<1>6. /\ snap'[d] = s0 /\ acct' = acct /\ since' = since /\ told' = told /\ shown' = shown
      /\ wrote' = wrote /\ now' = now
      /\ pc'[d] = IF pc[d] = "stat" THEN "statWal" ELSE "statWalAgain"
  BY <1>1, <1>2 DEF NamesType, world
<1>7. NamesType'
  <2>1. snap' \in [Daemon -> Stamp] /\ pc' \in [Daemon -> Steps]
    BY <1>1, <1>2, <1>5 DEF NamesType, Steps
  <2> QED
    BY <2>1, <1>1, <1>2 DEF NamesType, world, store
<1>8. OthersStay(d)
  BY <1>1, <1>2 DEF OthersStay, NamesType
<1>9. NotFooled(d)
  <2> SUFFICES ASSUME NEW a \in Account, NEW v \in Nat, NEW s \in Stamp,
                      Covered(a, v, s), acct'[d] = a
               PROVE  v >= since'[d].told \/ Passed(d, s)'
    BY DEF NotFooled
  <2>1. CASE pc[d] = "stat"
    <3>1. v >= since[d].told \/ Beyond(shown[a], s)
      BY <2>1, <1>6 DEF Covered, Passed
    <3>2. shown[a].db \in Nat /\ shown[a].wal \in Nat /\ s.db \in Nat /\ s.wal \in Nat
      BY <1>2 DEF NamesType, Stamp
    <3>3. pc'[d] = "statWal" /\ snap'[d].db = shown[a].db /\ shown'[acct'[d]] = shown[a]
      BY <2>1, <1>5, <1>6
    <3>4. Beyond(shown[a], s) =>
            snap'[d].db > s.db \/ (snap'[d].db = s.db /\ shown'[acct'[d]].wal > s.wal)
      BY <3>2, <3>3 DEF Beyond
    <3> QED
      BY <3>1, <3>3, <3>4, <1>6 DEF Passed
  <2>2. CASE pc[d] # "stat"
    BY <2>2, <1>6, NotLooking DEF NotFooled
  <2> QED
    BY <2>1, <2>2
<1>10. StoresCovered
  BY <1>1, StoreKept
<1>11. LoadInv(d)'
  <2>1. SeenInv(acct[d], s0)
    <3>1. /\ s0.db <= wrote[acct[d]].db /\ wrote[acct[d]].db \in Nat /\ now \in Nat /\ now # 0
      BY <1>2, <1>3, <1>4, <1>5 DEF WorldInv, NamesType, Stamp
    <3> QED
      BY <3>1, <1>5 DEF SeenInv
  <2>2. SeenInv(acct[d], snap[d])'
    BY <2>1, <1>6 DEF SeenInv
  <2>3. snap'[d].wal = 0
    BY <1>5, <1>6
  <2>4. pc'[d] \in {"statWal", "statWalAgain"}
    BY <1>6
  <2> QED
    BY <2>2, <2>3, <2>4, <1>3, <1>6 DEF LoadInv
<1> QED
  BY <1>1, <1>7, <1>8, <1>9, <1>10, <1>11, LoadNames

LEMMA CaptureWalNames ==
  ASSUME NamesInv, ~Transient, NEW d \in Daemon, CaptureWal(d)
  PROVE  NamesInv'
<1>1. /\ pc' = [pc EXCEPT ![d] = IF pc[d] = "statWal" THEN "lookup" ELSE "scan"]
      /\ snap' = [snap EXCEPT ![d].wal = shown[acct[d]].wal]
      /\ pc[d] \in {"statWal", "statWalAgain"}
      /\ UNCHANGED <<world, account, acct, names, since, store>>
  BY DEF CaptureWal, Go, At
<1>2. NamesType /\ WorldInv /\ LoadInv(d)
  BY DEF NamesInv
<1>3. acct[d] \in Account /\ since[d].told <= told[acct[d]] /\ snap[d] \in Stamp
  BY <1>1, <1>2 DEF LoadInv, NamesType
<1>4. shown[acct[d]] \in Stamp /\ wrote[acct[d]] \in Stamp
  BY <1>2, <1>3 DEF NamesType
<1>5. /\ snap'[d] = [snap[d] EXCEPT !.wal = shown[acct[d]].wal] /\ acct' = acct
      /\ since' = since /\ told' = told /\ shown' = shown /\ wrote' = wrote /\ now' = now
      /\ pc'[d] = IF pc[d] = "statWal" THEN "lookup" ELSE "scan"
  BY <1>1, <1>2 DEF NamesType, world
<1>6. /\ snap'[d] \in Stamp /\ snap'[d].db = snap[d].db /\ snap'[d].wal = shown[acct[d]].wal
  BY <1>3, <1>4, <1>5 DEF Stamp
<1>7. NamesType'
  <2>1. snap' = [snap EXCEPT ![d] = snap'[d]]
    BY <1>1, <1>2 DEF NamesType
  <2>2. snap' \in [Daemon -> Stamp] /\ pc' \in [Daemon -> Steps]
    BY <2>1, <1>1, <1>2, <1>6 DEF NamesType, Steps
  <2> QED
    BY <2>2, <1>1, <1>2 DEF NamesType, world, store
<1>8. OthersStay(d)
  BY <1>1, <1>2 DEF OthersStay, NamesType
<1>9. NotFooled(d)
  <2> SUFFICES ASSUME NEW a \in Account, NEW v \in Nat, NEW s \in Stamp,
                      Covered(a, v, s), acct'[d] = a
               PROVE  v >= since'[d].told \/ Passed(d, s)'
    BY DEF NotFooled
  <2>1. CASE pc[d] = "statWal"
    <3>1. v >= since[d].told \/ snap[d].db > s.db
                             \/ (snap[d].db = s.db /\ shown[a].wal > s.wal)
      BY <2>1, <1>5 DEF Covered, Passed
    <3>2. snap[d].db \in Nat /\ shown[a].wal \in Nat /\ s.db \in Nat /\ s.wal \in Nat
      BY <1>2, <1>3 DEF NamesType, Stamp
    <3>3. v >= since[d].told \/ snap'[d].db # s.db \/ snap'[d].wal # s.wal
      BY <3>1, <3>2, <1>5, <1>6
    <3>4. pc'[d] = "lookup"
      BY <2>1, <1>5
    <3> QED
      BY <3>3, <3>4, <1>5 DEF Passed
  <2>2. CASE pc[d] # "statWal"
    BY <2>2, <1>5, NotLooking DEF NotFooled
  <2> QED
    BY <2>1, <2>2
<1>10. StoresCovered
  BY <1>1, StoreKept
<1>11. LoadInv(d)'
  <2>1. CASE pc[d] = "statWal"
    <3>1. pc'[d] = "lookup"
      BY <2>1, <1>5
    <3> QED
      BY <3>1, <1>3, <1>5 DEF LoadInv
  <2>2. CASE pc[d] = "statWalAgain"
    <3>1. pc'[d] = "scan"
      BY <2>2, <1>5
    <3>2. snap[d].db <= wrote[acct[d]].db
      BY <2>2, <1>2 DEF LoadInv, SeenInv
    <3>3. /\ shown[acct[d]].wal <= wrote[acct[d]].wal /\ wrote[acct[d]].wal <= now
          /\ shown[acct[d]].wal \in Nat /\ wrote[acct[d]].wal \in Nat /\ now \in Nat
      BY <1>2, <1>3, <1>4 DEF WorldInv, NamesType, Stamp
    <3>4. SeenInv(acct[d], snap[d])'
      BY <3>2, <3>3, <1>5, <1>6 DEF SeenInv
    <3> QED
      BY <3>1, <3>4, <1>3, <1>5 DEF LoadInv
  <2> QED
    BY <2>1, <2>2, <1>1
<1> QED
  BY <1>1, <1>7, <1>8, <1>9, <1>10, <1>11, LoadNames

LEMMA LoadCachedNames ==
  ASSUME NamesInv, NEW d \in Daemon, LoadCached(d)
  PROVE  NamesInv'
<1>1. /\ names' = [names EXCEPT ![d] = [acc |-> Stored.acc, ver |-> Stored.ver]]
      /\ pc' = [pc EXCEPT ![d] = "hit"] /\ pc[d] = "lookup"
      /\ Stored # Empty /\ Stored.acc = acct[d] /\ Stored.snap = snap[d]
      /\ UNCHANGED <<world, account, acct, snap, since, store>>
  BY DEF LoadCached, Go, At, Hit, Serves
<1>2. NamesType /\ LoadInv(d)
  BY DEF NamesInv
<1>3. acct[d] \in Account /\ since[d].told <= told[acct[d]] /\ snap[d] \in Stamp
  BY <1>1, <1>2 DEF LoadInv, NamesType
<1>4. Stored \in Data /\ CoverInv(Stored)
  BY <1>1, <1>2 DEF Stored, NamesInv, NamesType
<1>5. Stored.ver \in Nat /\ Stored.acc \in Account
  BY <1>1, <1>3, <1>4 DEF Data
<1>6. Stored.ver >= since[d].told
  <2>1. Covered(acct[d], Stored.ver, snap[d])
    BY <1>1, <1>3, <1>4 DEF CoverInv
  <2> QED
    BY <2>1, <1>1 DEF Covered, Passed
<1>7. /\ names'[d].acc = acct[d] /\ names'[d].ver = Stored.ver
      /\ acct' = acct /\ since' = since /\ told' = told /\ pc'[d] = "hit"
  BY <1>1, <1>2 DEF NamesType, world
<1>8. NamesType'
  <2>1. /\ names' \in [Daemon -> [acc : Account \cup {None}, ver : Nat] \cup {None}]
        /\ pc' \in [Daemon -> Steps]
    BY <1>1, <1>2, <1>5 DEF NamesType, Steps
  <2> QED
    BY <2>1, <1>1, <1>2 DEF NamesType, world, store
<1>9. OthersStay(d)
  BY <1>1, <1>2 DEF OthersStay, NamesType
<1>10. NotFooled(d) /\ StoresCovered
  BY <1>1, <1>7, NotLooking, StoreKept
<1>11. LoadInv(d)'
  BY <1>3, <1>6, <1>7 DEF LoadInv
<1> QED
  BY <1>1, <1>8, <1>9, <1>10, <1>11, LoadNames

LEMMA MissNames ==
  ASSUME NamesInv, NEW d \in Daemon, Miss(d)
  PROVE  NamesInv'
<1>1. /\ pc' = [pc EXCEPT ![d] = "statAgain"] /\ pc[d] = "lookup"
      /\ UNCHANGED <<world, account, acct, snap, names, since, store>>
  BY DEF Miss, Go, At
<1>2. NamesType /\ LoadInv(d)
  BY DEF NamesInv
<1>3. acct[d] \in Account /\ since[d].told <= told[acct[d]]
  BY <1>1, <1>2 DEF LoadInv
<1>4. pc'[d] = "statAgain" /\ acct' = acct /\ since' = since /\ told' = told
  BY <1>1, <1>2 DEF NamesType, world
<1>5. NamesType'
  <2>1. pc' \in [Daemon -> Steps]
    BY <1>1, <1>2 DEF NamesType, Steps
  <2> QED
    BY <2>1, <1>1, <1>2 DEF NamesType, world, store
<1>6. OthersStay(d)
  BY <1>1, <1>2 DEF OthersStay, NamesType
<1>7. NotFooled(d) /\ StoresCovered
  BY <1>1, <1>4, NotLooking, StoreKept
<1>8. LoadInv(d)'
  BY <1>3, <1>4 DEF LoadInv
<1> QED
  BY <1>1, <1>5, <1>6, <1>7, <1>8, LoadNames

LEMMA ScanNames ==
  ASSUME NamesInv, NEW d \in Daemon, Scan(d)
  PROVE  NamesInv'
<1>1. /\ names' = [names EXCEPT ![d] = [acc |-> acct[d], ver |-> ver[acct[d]]]]
      /\ pc' = [pc EXCEPT ![d] = "scanned"] /\ pc[d] = "scan"
      /\ UNCHANGED <<world, account, acct, snap, since, store>>
  BY DEF Scan, Go, At
<1>2. NamesType /\ WorldInv /\ \A e \in Daemon : LoadInv(e)
  BY DEF NamesInv
<1>3. /\ acct[d] \in Account /\ since[d].told <= told[acct[d]] /\ snap[d] \in Stamp
      /\ SeenInv(acct[d], snap[d])
  BY <1>1, <1>2 DEF LoadInv, NamesType
<1>4. PICK a \in Account, v \in Nat, s \in Stamp :
        a = acct[d] /\ v = ver[acct[d]] /\ s = snap[d]
  BY <1>2, <1>3 DEF NamesType
<1>5. /\ names'[d] = [acc |-> a, ver |-> v] /\ pc'[d] = "scanned"
      /\ acct' = acct /\ since' = since /\ told' = told /\ snap' = snap
  BY <1>1, <1>2, <1>4 DEF NamesType, world
<1>6. NamesType'
  <2>1. /\ names' \in [Daemon -> [acc : Account \cup {None}, ver : Nat] \cup {None}]
        /\ pc' \in [Daemon -> Steps]
    BY <1>1, <1>2, <1>4 DEF NamesType, Steps
  <2> QED
    BY <2>1, <1>1, <1>2 DEF NamesType, world, store
<1>7. OthersStay(d)
  BY <1>1, <1>2 DEF OthersStay, NamesType
<1>8. NotFooled(d) /\ StoresCovered
  BY <1>1, <1>5, NotLooking, StoreKept
<1>9. Covered(a, v, s)
  <2>1. v >= ver[a] /\ told[a] <= v /\ told[a] \in Nat
    BY <1>2, <1>4 DEF WorldInv, NamesType
  <2>2. ASSUME NEW e \in Daemon, acct[e] = a PROVE v >= since[e].told
    <3>1. since[e].told <= told[a] /\ since[e].told \in Nat
      BY <2>2, <1>2 DEF LoadInv, NamesType
    <3> QED
      BY <3>1, <2>1
  <2> QED
    BY <2>1, <2>2, <1>3, <1>4 DEF Covered
<1>10. LoadInv(d)'
  <2>1. Covered(a, v, s)'
    BY <1>1, <1>7, <1>8, <1>9, LoadCovered
  <2>2. acct'[d] = a /\ snap'[d] = s /\ names'[d].ver = v /\ names'[d] \in [acc : {a}, ver : Nat]
    BY <1>4, <1>5
  <2>3. Covered(acct[d], names[d].ver, snap[d])'
    BY <2>1, <2>2 DEF Covered, SeenInv, Beyond, Passed
  <2> QED
    BY <2>2, <2>3, <1>3, <1>4, <1>5 DEF LoadInv
<1> QED
  BY <1>1, <1>6, <1>7, <1>8, <1>10, LoadNames

LEMMA ScanFailsNames ==
  ASSUME NamesInv, NEW d \in Daemon, ScanFails(d)
  PROVE  NamesInv'
<1>1. /\ names' = [names EXCEPT ![d] = [acc |-> None, ver |-> 0]]
      /\ pc' = [pc EXCEPT ![d] = "done"] /\ pc[d] = "scan"
      /\ UNCHANGED <<world, account, acct, snap, since, store>>
  BY DEF ScanFails, Go, At
<1>2. NamesType /\ LoadInv(d)
  BY DEF NamesInv
<1>3. acct[d] \in Account /\ since[d].told <= told[acct[d]]
  BY <1>1, <1>2 DEF LoadInv
<1>4. pc'[d] = "done" /\ acct' = acct /\ since' = since /\ told' = told
  BY <1>1, <1>2 DEF NamesType, world
<1>5. NamesType'
  <2>1. /\ names' \in [Daemon -> [acc : Account \cup {None}, ver : Nat] \cup {None}]
        /\ pc' \in [Daemon -> Steps]
    BY <1>1, <1>2 DEF NamesType, Steps
  <2> QED
    BY <2>1, <1>1, <1>2 DEF NamesType, world, store
<1>6. OthersStay(d)
  BY <1>1, <1>2 DEF OthersStay, NamesType
<1>7. NotFooled(d) /\ StoresCovered
  BY <1>1, <1>4, NotLooking, StoreKept
<1>8. LoadInv(d)'
  BY <1>3, <1>4 DEF LoadInv
<1> QED
  BY <1>1, <1>5, <1>6, <1>7, <1>8, LoadNames

LEMMA ExitNames ==
  ASSUME NamesInv, NEW d \in Daemon, Exit(d)
  PROVE  NamesInv'
<1>1. /\ acct' = [acct EXCEPT ![d] = None] /\ pc' = [pc EXCEPT ![d] = "gone"]
      /\ snap' = [snap EXCEPT ![d] = Empty.snap] /\ names' = [names EXCEPT ![d] = None]
      /\ since' = [since EXCEPT ![d] = NoSince] /\ writer' = [writer EXCEPT ![d] = NoWriter]
      /\ UNCHANGED <<world, account, inode, name>>
  BY DEF Exit, Go
<1>2. NamesType
  BY DEF NamesInv
<1>3. pc'[d] = "gone" /\ acct'[d] = None /\ None \notin Account
  BY <1>1, <1>2, NamesCacheAssumption DEF NamesType
<1>4. NamesType'
  <2>1. /\ acct' \in [Daemon -> Account \cup {None}] /\ pc' \in [Daemon -> Steps]
        /\ snap' \in [Daemon -> Stamp]
        /\ names' \in [Daemon -> [acc : Account \cup {None}, ver : Nat] \cup {None}]
        /\ since' \in [Daemon -> [ver : Nat, told : Nat]]
    BY <1>1, <1>2, EmptyTypes DEF NamesType, Steps
  <2>2. /\ writer' \in [Daemon -> [at : {"none", "open", "write", "rename"}, data : Data,
                                   file : Daemon \cup {None}]]
        /\ \A e \in Daemon : writer'[e].at = "write" => writer'[e].file \in Daemon
    <3>1. NoWriter.at # "write"
      BY DEF NoWriter
    <3> QED
      BY <3>1, <1>1, <1>2, EmptyTypes DEF NamesType
  <2> QED
    BY <2>1, <2>2, <1>1, <1>2 DEF NamesType, world
<1>5. OthersStay(d)
  BY <1>1, <1>2 DEF OthersStay, NamesType
<1>6. NotFooled(d)
  BY <1>3, NotLooking
<1>7. StoresCovered
  <2>1. \A e \in Daemon : /\ writer[e].data \in Data /\ inode[e] \in Data
                          /\ CoverInv(writer[e].data) /\ CoverInv(inode[e])
    BY <1>2 DEF NamesInv, NamesType
  <2>2. \A e \in Daemon : writer'[e] = writer[e] \/ writer'[e] = NoWriter
    BY <1>1, <1>2 DEF NamesType
  <2>3. inode' = inode
    BY <1>1
  <2> QED
    BY <2>1, <2>2, <2>3, EmptyTypes DEF StoresCovered
<1>8. LoadInv(d)'
  BY <1>3 DEF LoadInv
<1> QED
  BY <1>1, <1>4, <1>5, <1>6, <1>7, <1>8, LoadNames

-----------------------------------------------------------------------------
(* Steps of the writers: data that is covered moves into the files *)

Writer == [at : {"none", "open", "write", "rename"}, data : Data, file : Daemon \cup {None}]

LEMMA SpawnWriterNames ==
  ASSUME NamesInv, NEW d \in Daemon, SpawnWriter(d)
  PROVE  NamesInv'
<1> DEFINE x0 == [acc |-> acct[d], ver |-> names[d].ver, snap |-> snap[d]]
           w0 == [at |-> "open", file |-> None, data |-> x0]
<1>1. /\ pc' = [pc EXCEPT ![d] = "done"] /\ pc[d] = "scanned"
      /\ writer' = [writer EXCEPT ![d] = w0]
      /\ UNCHANGED <<world, account, acct, snap, names, since, inode, name>>
  BY DEF SpawnWriter, Go, At
<1>2. NamesType /\ LoadInv(d)
  BY DEF NamesInv
<1>3. /\ acct[d] \in Account /\ since[d].told <= told[acct[d]] /\ snap[d] \in Stamp
      /\ names[d].ver \in Nat /\ Covered(acct[d], names[d].ver, snap[d])
  BY <1>1, <1>2 DEF LoadInv, NamesType
<1>4. x0 \in Data /\ CoverInv(x0)
  BY <1>3 DEF Data, CoverInv
<1>5. w0 \in Writer /\ w0.data = x0 /\ w0.at = "open"
  BY <1>4 DEF Writer
<1> HIDE DEF w0, x0
<1>6. pc'[d] = "done" /\ acct' = acct /\ since' = since /\ told' = told
  BY <1>1, <1>2 DEF NamesType, world
<1>7. NamesType'
  <2>1. pc' \in [Daemon -> Steps]
    BY <1>1, <1>2 DEF NamesType, Steps
  <2>2. /\ writer' \in [Daemon -> Writer]
        /\ \A e \in Daemon : writer'[e].at = "write" => writer'[e].file \in Daemon
    BY <1>1, <1>2, <1>5 DEF NamesType, Writer
  <2> QED
    BY <2>1, <2>2, <1>1, <1>2 DEF NamesType, Writer, world
<1>8. OthersStay(d)
  BY <1>1, <1>2 DEF OthersStay, NamesType
<1>9. NotFooled(d)
  BY <1>6, NotLooking
<1>10. StoresCovered
  <2>1. \A e \in Daemon : /\ writer[e].data \in Data /\ inode[e] \in Data
                          /\ CoverInv(writer[e].data) /\ CoverInv(inode[e])
    BY <1>2 DEF NamesInv, NamesType
  <2>2. \A e \in Daemon : writer'[e] = writer[e] \/ writer'[e] = w0
    BY <1>1, <1>2 DEF NamesType
  <2> QED
    BY <2>1, <2>2, <1>1, <1>4, <1>5 DEF StoresCovered
<1>11. LoadInv(d)'
  BY <1>3, <1>6 DEF LoadInv
<1> QED
  BY <1>1, <1>7, <1>8, <1>9, <1>10, <1>11, LoadNames

\* What the writers have to show for their steps.
LEMMA WriterNames ==
  ASSUME NamesInv, UNCHANGED <<world, account, load>>, NEW d \in Daemon,
         writer' \in [Daemon -> Writer], inode' \in [Daemon -> Data],
         name' \in [bin : Daemon \cup {None}, tmp : Daemon \cup {None}],
         \A e \in Daemon : writer'[e].at = "write" => writer'[e].file \in Daemon,
         StoresCovered
  PROVE  NamesInv'
<1>1. NamesType
  BY DEF NamesInv
<1>2. NamesType'
  BY <1>1 DEF NamesType, Writer, world, load
<1> QED
  BY <1>2, LoadKept, LoadNames

LEMMA OpenTmpNames ==
  ASSUME NamesInv, NEW d \in Daemon, OpenTmp(d)
  PROVE  NamesInv'
<1>1. NamesType
  BY DEF NamesInv
<1>2. PICK f \in Daemon :
        /\ name' = [name EXCEPT !.tmp = f]
        /\ inode' = [inode EXCEPT ![f] = Empty]
        /\ writer' = [writer EXCEPT ![d].at = "write", ![d].file = f]
        /\ UNCHANGED <<world, account, load>>
  <2>1. (IF name.tmp = None THEN d ELSE name.tmp) \in Daemon
    BY <1>1 DEF NamesType
  <2> QED
    BY <2>1 DEF OpenTmp
<1>3. name' \in [bin : Daemon \cup {None}, tmp : Daemon \cup {None}]
  BY <1>1, <1>2 DEF NamesType
<1>4. inode' \in [Daemon -> Data]
  BY <1>1, <1>2, EmptyTypes DEF NamesType
<1>5. writer[d] \in Writer
  BY <1>1 DEF NamesType, Writer
<1>6. PICK w \in Writer : w.at = "write" /\ w.file = f /\ w.data = writer[d].data
                          /\ writer' = [writer EXCEPT ![d] = w]
  <2> DEFINE w == [writer[d] EXCEPT !.at = "write", !.file = f]
  <2>1. writer' = [writer EXCEPT ![d] = w]
    BY <1>1, <1>2 DEF NamesType
  <2>2. w \in Writer /\ w.at = "write" /\ w.file = f /\ w.data = writer[d].data
    BY <1>5 DEF Writer
  <2> QED
    BY <2>1, <2>2
<1>7. /\ writer' \in [Daemon -> Writer]
      /\ \A e \in Daemon : writer'[e].at = "write" => writer'[e].file \in Daemon
  BY <1>1, <1>6 DEF NamesType, Writer
<1>8. StoresCovered
  <2>1. \A e \in Daemon : /\ writer[e].data \in Data /\ inode[e] \in Data
                          /\ CoverInv(writer[e].data) /\ CoverInv(inode[e])
    BY <1>1 DEF NamesInv, NamesType
  <2>2. \A e \in Daemon : writer'[e].data = writer[e].data
    BY <1>1, <1>6 DEF NamesType
  <2>3. \A e \in Daemon : inode'[e] = inode[e] \/ inode'[e] = Empty
    BY <1>1, <1>2 DEF NamesType
  <2> QED
    BY <2>1, <2>2, <2>3, EmptyTypes DEF StoresCovered
<1> QED
  BY <1>2, <1>3, <1>4, <1>7, <1>8, WriterNames

LEMMA WriteTmpNames ==
  ASSUME NamesInv, NEW d \in Daemon, WriteTmp(d)
  PROVE  NamesInv'
<1>1. NamesType
  BY DEF NamesInv
<1>2. writer[d].at = "write" /\ writer[d].file \in Daemon /\ writer[d] \in Writer
  BY <1>1 DEF WriteTmp, NamesType, Writer
<1>3. PICK f \in Daemon, c \in {writer[d].data, Empty} :
        /\ inode' = [inode EXCEPT ![f] = c]
        /\ writer' = [writer EXCEPT ![d].at = "rename"]
        /\ UNCHANGED <<world, account, load, name>>
  BY <1>2 DEF WriteTmp
<1>4. inode' \in [Daemon -> Data]
  <2>1. c \in Data
    BY <1>2, <1>3, EmptyTypes DEF Writer
  <2> QED
    BY <2>1, <1>1, <1>3 DEF NamesType
<1>5. PICK w \in Writer : w.at = "rename" /\ w.data = writer[d].data
                          /\ writer' = [writer EXCEPT ![d] = w]
  <2> DEFINE w == [writer[d] EXCEPT !.at = "rename"]
  <2>1. writer' = [writer EXCEPT ![d] = w]
    BY <1>1, <1>3 DEF NamesType
  <2>2. w \in Writer /\ w.at = "rename" /\ w.data = writer[d].data
    BY <1>2 DEF Writer
  <2> QED
    BY <2>1, <2>2
<1>6. /\ writer' \in [Daemon -> Writer]
      /\ \A e \in Daemon : writer'[e].at = "write" => writer'[e].file \in Daemon
  BY <1>1, <1>5 DEF NamesType, Writer
<1>7. StoresCovered
  <2>1. \A e \in Daemon : /\ writer[e].data \in Data /\ inode[e] \in Data
                          /\ CoverInv(writer[e].data) /\ CoverInv(inode[e])
    BY <1>1 DEF NamesInv, NamesType
  <2>2. \A e \in Daemon : writer'[e].data = writer[e].data
    BY <1>1, <1>5 DEF NamesType
  <2>3. \A e \in Daemon : inode'[e] \in {inode[e], writer[d].data, Empty}
    BY <1>1, <1>3 DEF NamesType
  <2> QED
    BY <2>1, <2>2, <2>3, EmptyTypes DEF StoresCovered
<1> QED
  <2>1. name' \in [bin : Daemon \cup {None}, tmp : Daemon \cup {None}]
    BY <1>1, <1>3 DEF NamesType
  <2> QED
    BY <2>1, <1>3, <1>4, <1>6, <1>7, WriterNames

LEMMA RenameTmpNames ==
  ASSUME NamesInv, NEW d \in Daemon, RenameTmp(d)
  PROVE  NamesInv'
<1>1. NamesType
  BY DEF NamesInv
<1>2. /\ name' = IF name.tmp = None THEN name ELSE [bin |-> name.tmp, tmp |-> None]
      /\ writer' = [writer EXCEPT ![d] = NoWriter]
      /\ UNCHANGED <<world, account, load, inode>>
  BY DEF RenameTmp
<1>3. name' \in [bin : Daemon \cup {None}, tmp : Daemon \cup {None}]
  BY <1>1, <1>2 DEF NamesType
<1>4. inode' \in [Daemon -> Data]
  BY <1>1, <1>2 DEF NamesType
<1>5. NoWriter.at # "write" /\ NoWriter \in Writer
  BY EmptyTypes DEF NoWriter, Writer
<1>6. /\ writer' \in [Daemon -> Writer]
      /\ \A e \in Daemon : writer'[e].at = "write" => writer'[e].file \in Daemon
  BY <1>1, <1>2, <1>5 DEF NamesType, Writer
<1>7. StoresCovered
  <2>1. \A e \in Daemon : /\ writer[e].data \in Data /\ inode[e] \in Data
                          /\ CoverInv(writer[e].data) /\ CoverInv(inode[e])
    BY <1>1 DEF NamesInv, NamesType
  <2>2. \A e \in Daemon : writer'[e] = writer[e] \/ writer'[e] = NoWriter
    BY <1>1, <1>2 DEF NamesType
  <2> QED
    BY <2>1, <2>2, <1>2, EmptyTypes DEF StoresCovered
<1> QED
  BY <1>2, <1>3, <1>4, <1>6, <1>7, WriterNames

\* A change of the configuration's account moves no daemon that runs.
LEMMA SwitchNames ==
  ASSUME NamesInv, NEW a \in Account, Switch(a)
  PROVE  NamesInv'
<1>1. UNCHANGED <<world, load, store>> /\ account' = a
  BY DEF Switch
<1>2. NamesType'
  BY <1>1 DEF NamesInv, NamesType, world, load, store
<1>3. WorldInv'
  BY <1>1 DEF NamesInv, WorldInv, world
<1>4. \A d \in Daemon : LoadInv(d)'
  BY <1>1, LoadKept
<1>5. \A d \in Daemon : CoverInv(writer[d].data)' /\ CoverInv(inode[d])'
  BY <1>1 DEF NamesInv, CoverInv, Covered, SeenInv, Beyond, Passed, world, load, store
<1> QED
  BY <1>2, <1>3, <1>4, <1>5 DEF NamesInv

LEMMA NamesKept ==
  ASSUME NamesInv, UNCHANGED vars
  PROVE  NamesInv'
<1>1. UNCHANGED <<world, account, load, store>>
  BY DEF vars
<1>2. NamesType'
  BY <1>1 DEF NamesInv, NamesType, world, load, store
<1>3. WorldInv'
  BY <1>1 DEF NamesInv, WorldInv, world
<1>4. \A d \in Daemon : LoadInv(d)'
  BY <1>1, LoadKept
<1>5. \A d \in Daemon : CoverInv(writer[d].data)' /\ CoverInv(inode[d])'
  BY <1>1 DEF NamesInv, CoverInv, Covered, SeenInv, Beyond, Passed, world, load, store
<1> QED
  BY <1>2, <1>3, <1>4, <1>5 DEF NamesInv

\* For any number of daemons, one after the other or at the same time, and any
\* changes of account: contacts taken from names_cache.bin are the daemon's own
\* account's, and no older than the modification times told when its load began
\* (names_cache.rs:19-26, 57-63).  The slack plays no part in it: it is what
\* the times that come late need, which CachedIsCurrent is about.
THEOREM CachedShown ==
  ASSUME ~Straddle, ~Transient
  PROVE  Spec => []CachedIsShown
<1>1. Init => NamesInv
  BY InitNames
<1>2. NamesInv /\ [Next]_vars => NamesInv'
  <2> SUFFICES ASSUME NamesInv, [Next]_vars PROVE NamesInv'
    OBVIOUS
  <2>1. CASE WorldStep
    BY <2>1, WorldNames
  <2>2. ASSUME NEW a \in Account, Switch(a) PROVE NamesInv'
    BY <2>2, SwitchNames
  <2>3. ASSUME NEW d \in Daemon, Start(d) \/ CaptureDb(d) \/ CaptureWal(d) PROVE NamesInv'
    BY <2>3, StartNames, CaptureDbNames, CaptureWalNames
  <2>4. ASSUME NEW d \in Daemon, LoadCached(d) \/ Miss(d) \/ Scan(d) \/ ScanFails(d) \/ Exit(d)
        PROVE  NamesInv'
    BY <2>4, LoadCachedNames, MissNames, ScanNames, ScanFailsNames, ExitNames
  <2>5. ASSUME NEW d \in Daemon, SpawnWriter(d) \/ OpenTmp(d) \/ WriteTmp(d) \/ RenameTmp(d)
        PROVE  NamesInv'
    BY <2>5, SpawnWriterNames, OpenTmpNames, WriteTmpNames, RenameTmpNames
  <2>6. CASE UNCHANGED vars
    BY <2>6, NamesKept
  <2> QED
    BY <2>1, <2>2, <2>3, <2>4, <2>5, <2>6 DEF Next, WorldStep
<1>3. NamesInv => CachedIsShown
  BY DEF NamesInv, LoadInv, CachedIsShown, At
<1> QED
  BY <1>1, <1>2, <1>3, PTL DEF Spec

-----------------------------------------------------------------------------
(* The plaintext copy of a database                                        *)
(*                                                                         *)
(* Times that match make a copy current although they were read before the *)
(* pages and the log were: every write takes a tick, so a copy made of     *)
(* later pages is filed under times already gone.  What is left to show is *)
(* that a call which fails or is killed leaves nothing behind an entry     *)
(* that still matches: pages are written in place, and the entry of the    *)
(* database's time may then be over a copy some of whose pages are newer   *)
(* than it.  They are pages the log covers and the next call writes again. *)

\* When the copy of a database can be relied on.  A log that is overwritten or
\* cut ends every transaction by commit; a log read frame by frame only grows;
\* a copy that may be deleted is not also cut short by a failure or a kill.
\* Without any one of them TLC finds a copy that is wrong.
CopyAssumption ==
  /\ AllowRollback => ~AllowRestart /\ ~AllowTruncate
  /\ WholeRead \/ (AppendOnly /\ ~AllowTruncate)
  /\ MayRemove => ~MayCrash /\ ~MayFail

\* The steps of a call that has decided to bring the copy up to the log.
Building == {"log", "read", "write", "store"}

\* The log has page p.
LogHas(p) == \E i \in 1..mx : frames[i].pgno = p

\* The log can be given up: the main file holds all of it.
Quiet == tail = mx /\ main = db

\* Times only go up, and an entry is never ahead of what a call has read.
TimesInv ==
  /\ 1 <= dbMt
  /\ entry.db <= dbMt /\ entry.wal <= walMt
  /\ saved.db <= dbMt /\ saved.wal <= walMt
  /\ seen.db <= dbMt /\ seen.wal <= walMt
  /\ step # "idle" => entry.db <= seen.db /\ saved.db <= seen.db /\ 1 <= seen.db
  /\ step \notin {"idle", "stat"} => entry.wal <= seen.wal /\ saved.wal <= seen.wal
  /\ saved.db = dbMt => entry.db = dbMt /\ saved.wal <= entry.wal
  /\ ~moved /\ step # "idle" => seen.db = dbMt
  /\ ~moved /\ step \notin {"idle", "stat"} => seen.wal = walMt

FileInv ==
  /\ step # "write" => pos = 0
  /\ step \notin {"idle", "stat", "full"} => out # NoFile
  /\ ~MayRemove /\ out = NoFile => entry = NoEntry /\ saved = NoEntry

\* The path the two times chose is still the right one.
PathInv ==
  /\ step \in {"save", "reply"} => entry = seen
  /\ ~MayRemove /\ step \in {"full", "copy"} => entry.db # seen.db
  /\ ~MayRemove /\ step \in Building /\ entry.db = seen.db => entry.wal < seen.wal

\* Once the main file holds the whole log, an entry of its time is of all the log.
Dated(e) == e.db = dbMt /\ Quiet /\ mx > 0 => e.wal = walMt

DatedInv ==
  ~AllowRollback => /\ Dated(entry) /\ Dated(saved)
                    /\ step \notin {"idle", "stat"} => Dated(seen)

\* Where the copy is not the main file, the log has the page and will bring it.
Based == \A p \in Page : out[p] = main[p] \/ LogHas(p)

\* What entry e says of the copy.
Sound(e) == out # NoFile /\ e.db = dbMt => Based /\ (e.wal = walMt => out = db)

SoundInv ==
  /\ ~MayRemove \/ step \in {"idle", "stat", "save", "reply"} => Sound(entry)
  /\ ~MayRemove => Sound(saved)

\* apply_wal takes frame i of what it has read: one of the generation of the
\* header, with a commit frame of that generation at it or after it.
Takes(i) ==
  /\ read[i].salt = hdr
  /\ \E n \in i..Len(read) : read[n].salt = hdr /\ read[n].commit # 0

\* What was read and counts is committed, or of a generation that is gone.
ReadInv ==
  step \in {"read", "write"} =>
    /\ hdr # 0 /\ hdr <= gen
    /\ pos <= Len(read) /\ (step = "read" => pos = 0)
    /\ salt = hdr => \A i \in 1..Len(read) : Takes(i) => i <= mx /\ read[i] = frames[i]
    /\ ~WholeRead => /\ salt = hdr /\ Len(read) <= Len(frames)
                     /\ \A i \in 1..Len(read) : read[i] = frames[i]
    /\ ~MayRemove /\ entry.db = dbMt /\ salt # hdr => \A i \in 1..Len(read) : ~Takes(i)

WholeCopied == \A p \in Page : out[p] = main[p]

\* Page p is still to be written.
Left(p) == \E i \in pos + 1 .. Len(read) : Takes(i) /\ read[i].pgno = p

\* The last frame of p to be written is p as the main file has it.
Ends(p) ==
  \A i \in pos + 1 .. Len(read) :
    /\ Takes(i) /\ read[i].pgno = p
    /\ \A j \in i + 1 .. Len(read) : Takes(j) => read[j].pgno # p
    => read[i].ver = main[p]

\* How far the copy has come, as long as the main file has not moved.  A page
\* the log no longer covers will end as the main file has it.
BuildInv ==
  seen.db = dbMt =>
    /\ step = "copy" => /\ pages = Size(main) /\ copied <= pages
                        /\ \A p \in Page : out[p] = IF p <= copied THEN main[p] ELSE 0
    /\ step = "log" => \/ WholeCopied
                       \/ Based /\ entry.db = seen.db /\ entry.wal < seen.wal
    /\ step \in {"read", "write"} =>
         /\ \A p \in Page : LogHas(p) \/ ((out[p] = main[p] \/ Left(p)) /\ Ends(p))
         /\ seen.wal = walMt =>
              /\ hdr = salt /\ (step = "write" \/ WholeRead => read = frames)
              /\ \A p \in Page : out[p] = db[p] \/ \E i \in pos + 1 .. mx : frames[i].pgno = p
    /\ step = "store" => Based /\ (seen.wal = walMt => out = db)

CopyInv == TimesInv /\ FileInv /\ PathInv /\ DatedInv /\ SoundInv /\ ReadInv /\ BuildInv

-----------------------------------------------------------------------------
(* Types *)

LEMMA FileIs == \A f \in [Page -> Nat] : f # NoFile
<1> SUFFICES ASSUME NEW f \in [Page -> Nat] PROVE f # NoFile
  OBVIOUS
<1>1. DOMAIN f = Page /\ 1 \in Page
  BY WalLogAssumption DEF Page
<1>2. DOMAIN NoFile = {}
  BY DEF NoFile
<1> QED
  BY <1>1, <1>2

LEMMA SizeBound == \A d : Size(d) \in 0..LastPage
<1> SUFFICES ASSUME NEW d PROVE Size(d) \in 0..LastPage
  OBVIOUS
<1>1. IsFiniteSet(Page) /\ Cardinality(Page) = LastPage /\ LastPage \in Nat
  BY FS_Interval, WalLogAssumption DEF Page
<1>2. Cardinality({p \in Page : d[p] # 0}) <= Cardinality(Page)
  BY <1>1, FS_Subset
<1> QED
  BY <1>1, <1>2, SizeType DEF Size

LEMMA CopyInitType == CopyInit => CopyTypeOK
<1> SUFFICES ASSUME CopyInit PROVE CopyTypeOK
  OBVIOUS
<1>1. LogTypeOK
  BY LogInitType DEF CopyInit
<1>2. 0 \in 0..LastPage
  BY WalLogAssumption
<1> QED
  BY <1>1, <1>2, EmptySeq DEF CopyInit, CopyTypeOK, NoEntry

LEMMA CopyStepType ==
  ASSUME CopyTypeOK, [CopyNext]_copyVars
  PROVE  CopyTypeOK'
<1>0. NoEntry \in [db : Nat, wal : Nat] /\ 0 \in 0..LastPage /\ Blank \in [Page -> Nat]
  BY WalLogAssumption DEF NoEntry, Blank
<1>1. UNCHANGED <<logVars, dbMt, walMt>> => LogTypeOK' /\ dbMt' \in Nat /\ walMt' \in Nat
  BY DEF CopyTypeOK, LogTypeOK, logVars
<1>2. CASE Write
  <2>1. LogTypeOK'
    BY <1>2, LogStepType DEF Write, CopyTypeOK
  <2> QED
    BY <1>2, <2>1 DEF Write, CopyTypeOK, callVars, fileVars
<1>3. CASE CleanUp
  BY <1>1, <1>3 DEF CleanUp, CopyTypeOK, callVars
<1>4. CASE StatDb
  BY <1>1, <1>4 DEF StatDb, Stays, To, CopyTypeOK, fileVars
<1>17. CASE StatWal
  <2>1. seen' \in [db : Nat, wal : Nat]
    BY <1>17 DEF StatWal, CopyTypeOK
  <2>2. Path(entry, seen') \in {"reply", "log", "full"}
    BY DEF Path
  <2> QED
    BY <1>1, <1>17, <2>1, <2>2 DEF StatWal, Stays, To, CopyTypeOK, fileVars
<1>5. CASE OpenMain
  <2>1. Size(main) \in 0..LastPage
    BY SizeBound
  <2> QED
    BY <1>0, <1>1, <1>5, <2>1 DEF OpenMain, Stays, To, CopyTypeOK
<1>6. CASE CopyPage
  <2>1. copied + 1 \in 0..LastPage /\ main[copied + 1] \in Nat /\ copied + 1 \in Page
    BY <1>6, WalLogAssumption DEF CopyPage, CopyTypeOK, LogTypeOK, Page
  <2>2. out' \in [Page -> Nat] \cup {NoFile}
    <3>1. CASE out \in [Page -> Nat]
      BY <3>1, <2>1, <1>6 DEF CopyPage
    <3>2. CASE out = NoFile
      BY <3>2, <1>6 DEF CopyPage, NoFile
    <3> QED
      BY <3>1, <3>2 DEF CopyTypeOK
  <2> QED
    BY <1>1, <1>6, <2>1, <2>2 DEF CopyPage, Stays, CopyTypeOK
<1>7. CASE CopyDone \/ NoLog
  BY <1>0, <1>1, <1>7 DEF CopyDone, NoLog, Stays, To, CopyTypeOK, fileVars
<1>8. CASE ReadHeader
  BY <1>0, <1>1, <1>8, EmptySeq DEF ReadHeader, Stays, To, CopyTypeOK, fileVars, LogTypeOK
<1>9. CASE ReadFrame
  <2>1. Len(read) + 1 \in 1..Len(frames) /\ frames \in Seq(Frame) /\ read \in Seq(Frame)
    BY <1>9, LenProperties DEF ReadFrame, CopyTypeOK, LogTypeOK
  <2>2. frames[Len(read) + 1] \in Frame
    BY <2>1, ElementOfSeq
  <2>3. read' \in Seq(Frame)
    BY <2>1, <2>2, <1>9, AppendProperties DEF ReadFrame
  <2> QED
    BY <1>1, <1>9, <2>3 DEF ReadFrame, Stays, CopyTypeOK, fileVars
<1>10. CASE ReadDone
  BY <1>1, <1>10 DEF ReadDone, Stays, To, CopyTypeOK, fileVars
<1>11. CASE WritePage
  <2>1. pos + 1 \in 1..Len(read) /\ read \in Seq(Frame)
    BY <1>11, LenProperties DEF WritePage, CommitAhead, CopyTypeOK
  <2>2. read[pos + 1] \in Frame
    BY <2>1, ElementOfSeq
  <2>3. read[pos + 1].pgno \in Page /\ read[pos + 1].ver \in Nat
    BY <2>2 DEF Frame
  <2>4. out' \in [Page -> Nat] \cup {NoFile}
    <3>1. CASE out \in [Page -> Nat]
      BY <3>1, <2>3, <1>11 DEF WritePage
    <3>2. CASE out = NoFile
      BY <3>2, <1>11 DEF WritePage, NoFile
    <3> QED
      BY <3>1, <3>2 DEF CopyTypeOK
  <2> QED
    BY <1>1, <1>11, <2>1, <2>4 DEF WritePage, Stays, CopyTypeOK
<1>12. CASE WriteDone
  BY <1>0, <1>1, <1>12, EmptySeq DEF WriteDone, Stays, To, CopyTypeOK, fileVars
<1>13. CASE Fail \/ Return
  <2>1. Drop /\ Stays /\ UNCHANGED fileVars
    BY <1>13 DEF Fail, Return
  <2> QED
    BY <1>0, <1>1, <2>1, EmptySeq DEF Drop, Stays, To, CopyTypeOK, fileVars
<1>14. CASE Store \/ Save
  BY <1>0, <1>1, <1>14 DEF Store, Save, Stays, To, CopyTypeOK
<1>15. CASE Crash
  BY <1>0, <1>1, <1>15, EmptySeq DEF Crash, Drop, Stays, To, CopyTypeOK, Reloaded
<1>16. CASE UNCHANGED copyVars
  BY <1>1, <1>16 DEF copyVars, callVars, fileVars, CopyTypeOK
<1> QED
  BY <1>2, <1>3, <1>4, <1>5, <1>6, <1>7, <1>8, <1>9, <1>10, <1>11, <1>12, <1>13, <1>14,
     <1>15, <1>16, <1>17 DEF CopyNext, Call

-----------------------------------------------------------------------------
(* The log, for the copy *)

\* No frame that is not of the transaction in progress has its number: what the
\* writer puts over it is different from it.
FreshInv == \A i \in 1..Len(frames) : i > tail => frames[i].ver <= Len(hist)

\* The last committed frame of a page is the page.
LEMMA LastIsCurrent ==
  ASSUME LogTypeOK, LogInv, HistoryInv, NEW i \in 1..mx,
         \A j \in i + 1 .. mx : frames[j].pgno # frames[i].pgno
  PROVE  frames[i].ver = db[frames[i].pgno]
<1> DEFINE q == frames[i].pgno
           v == frames[i].ver
           L == Len(hist)
<1>1. /\ mx \in Nat /\ L \in Nat \ {0} /\ q \in Page /\ v \in Nat /\ v \in 2..L
      /\ hist[v][q] = v
      /\ \A w \in v..L : hist[w][q] = w => Logged(q, w)
  BY FrameTypes DEF HistoryInv, CommitInv
<1>2. db = hist[L] /\ db[q] \in Nat /\ db[q] <= L
  BY <1>1, HistTypes DEF HistoryInv, db
<1>3. v <= db[q] /\ hist[db[q]][q] = db[q]
  <2>1. v \in 1..L /\ L \in 1..L /\ v <= L
    BY <1>1
  <2>2. hist[v][q] <= hist[L][q]
    BY <2>1, <1>1 DEF HistoryInv, HistInv
  <2>3. v <= db[q] /\ db[q] \in 1..L /\ db[q] <= L
    BY <2>1, <2>2, <1>1, <1>2
  <2>4. hist[L][q] <= db[q]
    BY <1>2
  <2>5. hist[db[q]][q] = hist[L][q]
    BY <2>1, <2>3, <2>4, <1>1 DEF HistoryInv, HistInv
  <2> QED
    BY <2>3, <2>5, <1>2
<1>4. PICK j \in 1..mx : frames[j].pgno = q /\ frames[j].ver = db[q]
  <2>1. db[q] \in v..L
    BY <1>1, <1>2, <1>3
  <2> QED
    BY <2>1, <1>1, <1>3 DEF Logged
<1>5. j <= i
  BY <1>1, <1>4
<1>6. CASE j < i
  <2>1. i \in j + 1 .. mx
    BY <1>1, <1>6
  <2>2. frames[j].ver <= frames[i].ver
    BY <2>1 DEF HistoryInv, CommitInv
  <2> QED
    BY <2>2, <1>1, <1>2, <1>3, <1>4
<1> QED
  BY <1>1, <1>4, <1>5, <1>6

LEMMA Uncovered ==
  ASSUME HistoryInv, NEW p \in Page, ~LogHas(p)
  PROVE  main[p] = db[p]
  BY DEF HistoryInv, MainInv, LogHas

LEMMA EmptyLog ==
  ASSUME LogTypeOK, LogInv, salt = 0 \/ mx = 0
  PROVE  mx = 0 /\ \A p : ~LogHas(p)
<1>1. mx = 0
  BY FrameTypes DEF LogInv
<1> QED
  BY <1>1 DEF LogHas

\* What a write of WeChat's does to the files and their times.
Grown ==
  /\ UNCHANGED <<dbMt, main, salt, gen>> /\ walMt' = walMt + 1
  /\ mx <= mx' /\ Len(frames) <= Len(frames')
  /\ \A i \in 1..mx : frames'[i] = frames[i]
  /\ AppendOnly => \A i \in 1..Len(frames) : frames'[i] = frames[i]
  /\ ~Quiet'
RolledBack ==
  /\ AllowRollback
  /\ UNCHANGED <<dbMt, walMt, frames, salt, gen, mx, main, db>>
Backfilled == dbMt' = dbMt + 1 /\ UNCHANGED <<walMt, frames, salt, gen, mx>>
Restarted ==
  /\ Quiet /\ (mx > 0 => ~AllowRollback)
  /\ (salt # 0 => AllowRestart \/ AllowTruncate)
  /\ UNCHANGED <<dbMt, main, db>> /\ walMt' = walMt + 1
  /\ mx' = 0 /\ gen <= gen' /\ (salt' = 0 \/ salt' > gen)

LEMMA PutLeaves ==
  ASSUME LogTypeOK, LogInv, NEW f \in Frame, frames' = Put(tail + 1, f), NEW i \in 1..Len(frames'),
         i > tail + 1
  PROVE  i \in 1..Len(frames) /\ i > tail /\ frames'[i] = frames[i]
<1>1. frames \in Seq(Frame) /\ tail \in Nat /\ tail <= Len(frames) /\ Len(frames) \in Nat
  BY FrameTypes DEF LogTypeOK
<1>2. CASE tail + 1 <= Len(frames)
  <2>1. frames' = [frames EXCEPT ![tail + 1] = f] /\ tail + 1 \in 1..Len(frames)
    BY <1>1, <1>2 DEF Put
  <2>2. Len(frames') = Len(frames) /\ DOMAIN frames = 1..Len(frames)
    BY <2>1, <1>1, ExceptSeq, LenProperties
  <2> QED
    BY <2>1, <2>2, <1>1
<1>3. CASE ~(tail + 1 <= Len(frames))
  <2>1. frames' = Append(frames, f)
    BY <1>3 DEF Put
  <2>2. Len(frames') = Len(frames) + 1
    BY <2>1, <1>1, AppendProperties
  <2> QED
    BY <2>2, <1>1, <1>3
<1> QED
  BY <1>2, <1>3

LEMMA WriteCases ==
  ASSUME CopyAssumption, CopyTypeOK, CopyTypeOK', LogInv, HistoryInv, FreshInv, Write
  PROVE  LogInv' /\ HistoryInv' /\ FreshInv' /\ (Grown \/ RolledBack \/ Backfilled \/ Restarted)
<1>1. LogTypeOK /\ LogTypeOK' /\ LogNext
  BY DEF CopyTypeOK, Write
<1>2. LogInv' /\ HistoryInv'
  BY <1>1, WriterLog, WriterHistory
<1>3. /\ mx \in Nat /\ tail \in Nat /\ mx <= tail /\ tail <= Len(frames) /\ Len(frames) \in Nat
      /\ salt \in Nat /\ gen \in Nat /\ Len(hist) \in Nat \ {0} /\ Txn = Len(hist) + 1
  BY <1>1, FrameTypes
<1>4. /\ dbMt \in Nat /\ walMt \in Nat
      /\ dbMt' = (IF main' # main THEN dbMt + 1 ELSE dbMt)
      /\ walMt' = (IF <<frames', salt'>> # <<frames, salt>> THEN walMt + 1 ELSE walMt)
  BY DEF CopyTypeOK, Write
<1>5. /\ \A q \in Page : db[q] \in Nat /\ db[q] <= Len(hist) /\ main[q] \in Nat /\ main[q] <= db[q]
      /\ db = hist[Len(hist)]
  BY <1>1, HistTypes DEF HistoryInv, MainInv, db
<1>6. ASSUME NEW p \in Page, NEW f \in Frame, f.ver = Txn, frames' = Put(tail + 1, f),
             Len(frames) <= Len(frames'), frames'[tail + 1] = f
      PROVE  frames' # frames
  <2>1. CASE tail + 1 <= Len(frames)
    <3>1. tail + 1 \in 1..Len(frames) /\ tail + 1 > tail
      BY <2>1, <1>3
    <3>2. frames[tail + 1] \in Frame
      BY <3>1, <1>1, ElementOfSeq DEF LogTypeOK
    <3>3. frames[tail + 1].ver <= Len(hist) /\ frames[tail + 1].ver \in Nat
      BY <3>1, <3>2 DEF FreshInv, Frame
    <3> QED
      BY <3>3, <1>3, <1>6
  <2>2. CASE ~(tail + 1 <= Len(frames))
    <3>1. frames' = Append(frames, f) /\ frames \in Seq(Frame)
      BY <2>2, <1>1, <1>6 DEF Put, LogTypeOK
    <3>2. Len(Append(frames, f)) = Len(frames) + 1
      BY <3>1, AppendProperties
    <3> QED
      BY <3>1, <3>2, <1>3
  <2> QED
    BY <2>1, <2>2
<1>7. ASSUME NEW p \in Page, SpillFrame(p)
      PROVE  Grown /\ FreshInv'
  <2> DEFINE f == [pgno |-> p, commit |-> 0, salt |-> salt, ver |-> Txn]
  <2>1. f \in Frame
    BY <1>3 DEF Frame
  <2>2. tail < MaxFrames
    BY <1>7, <1>3, WalLogAssumption DEF SpillFrame
  <2>3. /\ salt # 0 /\ frames' = Put(tail + 1, f) /\ tail' = tail + 1 /\ mx' = mx
        /\ salt' = salt /\ gen' = gen /\ main' = main /\ hist' = hist /\ f.commit = 0
        /\ f.salt = salt /\ f.ver = Txn
    BY <1>7 DEF SpillFrame
  <2> HIDE DEF f
  <2>4. Grows /\ frames'[tail + 1] = f
    BY <2>1, <2>2, <2>3, <1>1, PutGrows
  <2>5. frames' # frames
    BY <2>1, <2>3, <2>4, <1>6 DEF Grows
  <2>6. Grown
    BY <2>3, <2>4, <2>5, <1>3, <1>4 DEF Grown, Grows, Quiet
  <2>7. FreshInv'
    BY <2>1, <2>2, <2>3, <1>1, <1>3, PutLeaves DEF FreshInv
  <2> QED
    BY <2>6, <2>7
<1>8. ASSUME NEW p \in Page, CommitFrame(p)
      PROVE  Grown /\ FreshInv'
  <2> DEFINE new == [q \in Page |-> IF q \in TxnPages \cup {p} THEN Txn ELSE db[q]]
             f == [pgno |-> p, commit |-> Size(new), salt |-> salt, ver |-> Txn]
  <2>1. f \in Frame
    BY <1>3, SizeType DEF Frame
  <2>2. tail < MaxFrames /\ f.salt = salt /\ f.ver = Txn
    BY <1>8 DEF CommitFrame
  <2>3. /\ salt # 0 /\ frames' = Put(tail + 1, f) /\ tail' = tail + 1 /\ mx' = tail + 1
        /\ salt' = salt /\ gen' = gen /\ main' = main /\ hist' = Append(hist, new)
    BY <1>8 DEF CommitFrame
  <2>4. new[p] = Len(hist) + 1
    BY <1>3
  <2>5. new \in [Page -> Nat]
    BY <1>3, <1>5
  <2> HIDE DEF f, new
  <2>6. Grows /\ frames'[tail + 1] = f
    BY <2>1, <2>2, <2>3, <1>1, PutGrows
  <2>7. frames' # frames
    BY <2>1, <2>2, <2>3, <2>6, <1>6 DEF Grows
  <2>8. Len(hist') = Len(hist) + 1 /\ db' = new
    <3>1. Len(hist') = Len(hist) + 1 /\ hist'[Len(hist) + 1] = new
      BY <2>3, <2>5, <1>1, AppendProperties DEF LogTypeOK
    <3> QED
      BY <3>1 DEF db
  <2>9. Grown
    <3>1. main'[p] # db'[p]
      BY <2>3, <2>4, <2>8, <1>3, <1>5
    <3> QED
      BY <3>1, <2>3, <2>6, <2>7, <1>3, <1>4 DEF Grown, Grows, Quiet
  <2>10. FreshInv'
    <3> SUFFICES ASSUME NEW i \in 1..Len(frames'), i > tail + 1
                 PROVE  frames'[i].ver <= Len(hist) + 1
      BY <2>3, <2>8 DEF FreshInv
    <3>1. i \in 1..Len(frames) /\ i > tail /\ frames'[i] = frames[i]
      BY <2>1, <2>3, <1>1, PutLeaves
    <3>2. frames[i] \in Frame
      BY <3>1, <1>1, ElementOfSeq DEF LogTypeOK
    <3>3. frames[i].ver \in Nat /\ frames[i].ver <= Len(hist)
      BY <3>1, <3>2 DEF FreshInv, Frame
    <3> QED
      BY <3>1, <3>3, <1>3
  <2> QED
    BY <2>9, <2>10
<1>9. ASSUME NEW p \in Page, Backfill(p)
      PROVE  Backfilled /\ FreshInv'
  <2>1. /\ main[p] # db[p] /\ main' = [main EXCEPT ![p] = db[p]] /\ main \in [Page -> Nat]
        /\ UNCHANGED <<frames, salt, gen, mx, tail, hist>>
    BY <1>9, <1>1 DEF Backfill, LogTypeOK
  <2>2. main' # main
    BY <2>1
  <2> QED
    BY <2>1, <2>2, <1>4 DEF Backfilled, FreshInv
<1>10. ASSUME Rollback
       PROVE  RolledBack /\ FreshInv'
  <2>1. /\ AllowRollback /\ UNCHANGED <<frames, salt, gen, mx, main>> /\ tail' = mx /\ tail > mx
        /\ hist' = Append(hist, db)
    BY <1>10 DEF Rollback
  <2>2. Len(hist') = Len(hist) + 1 /\ db' = db
    <3>1. db \in [Page -> Nat]
      BY <1>1, HistTypes DEF HistoryInv
    <3>2. Len(hist') = Len(hist) + 1 /\ hist'[Len(hist) + 1] = db
      BY <3>1, <2>1, <1>1, AppendProperties DEF LogTypeOK
    <3> QED
      BY <3>2 DEF db
  <2>3. FreshInv'
    <3> SUFFICES ASSUME NEW i \in 1..Len(frames), i > mx
                 PROVE  frames[i].ver <= Len(hist) + 1
      BY <2>1, <2>2 DEF FreshInv
    <3>1. frames[i].ver \in Nat
      <4>1. frames[i] \in Frame
        BY <1>1, ElementOfSeq DEF LogTypeOK
      <4> QED
        BY <4>1 DEF Frame
    <3>2. CASE i > tail
      BY <3>1, <3>2, <1>3 DEF FreshInv
    <3>3. CASE ~(i > tail)
      <4>1. i \in mx + 1 .. tail
        BY <3>3, <1>3
      <4> QED
        BY <4>1, <1>3 DEF HistoryInv, SpillInv
    <3> QED
      BY <3>2, <3>3
  <2> QED
    BY <2>1, <2>2, <2>3, <1>4 DEF RolledBack
<1>11. ASSUME NewGeneration \/ Truncate
       PROVE  Restarted /\ FreshInv'
  <2>1. /\ tail = mx /\ main = db /\ UNCHANGED <<main, hist>> /\ mx' = 0 /\ tail' = 0
        /\ (salt # 0 => AllowRestart \/ AllowTruncate)
    BY <1>11 DEF NewGeneration, Truncate
  <2>2. gen <= gen' /\ (salt' = 0 \/ salt' > gen)
    BY <1>1, <1>11, ResetLog
  <2>3. salt' # salt
    BY <1>3, <1>11 DEF NewGeneration, Truncate, LogInv
  <2>4. salt = 0 => mx = 0
    BY <1>3 DEF LogInv
  <2>5. FreshInv'
    <3>1. CASE Truncate
      <4>1. frames' = <<>> /\ Len(<<>>) = 0
        BY <3>1 DEF Truncate
      <4> QED
        BY <4>1 DEF FreshInv
    <3>2. CASE NewGeneration
      <4>1. frames' = frames
        BY <3>2 DEF NewGeneration
      <4> SUFFICES ASSUME NEW i \in 1..Len(frames) PROVE frames[i].ver <= Len(hist)
        BY <4>1, <2>1 DEF FreshInv
      <4>2. CASE i > tail
        BY <4>2 DEF FreshInv
      <4>3. CASE ~(i > tail)
        <5>1. i \in 1..mx
          BY <4>3, <2>1, <1>3
        <5>2. frames[i].ver \in 2..Len(hist)
          BY <5>1 DEF HistoryInv, CommitInv
        <5> QED
          BY <5>2, <1>3
      <4> QED
        BY <4>2, <4>3
    <3> QED
      BY <3>1, <3>2, <1>11
  <2>6. db' = db
    BY <2>1 DEF db
  <2> QED
    BY <2>1, <2>2, <2>3, <2>4, <2>5, <2>6, <1>4 DEF Restarted, Quiet, CopyAssumption
<1> QED
  BY <1>1, <1>2, <1>7, <1>8, <1>9, <1>10, <1>11 DEF LogNext


\* Whatever WeChat writes, it goes on beside the call.
Aside == UNCHANGED <<callVars, fileVars>> /\ moved' = (step # "idle")

LEMMA CopyNats ==
  ASSUME CopyTypeOK
  PROVE  /\ LogTypeOK /\ dbMt \in Nat /\ walMt \in Nat
         /\ entry.db \in Nat /\ entry.wal \in Nat /\ saved.db \in Nat /\ saved.wal \in Nat
         /\ seen.db \in Nat /\ seen.wal \in Nat
         /\ hdr \in Nat /\ read \in Seq(Frame) /\ Len(read) \in Nat /\ pos \in Nat
<1>1. entry \in [db : Nat, wal : Nat] /\ saved \in [db : Nat, wal : Nat] /\ seen \in [db : Nat, wal : Nat]
  BY DEF CopyTypeOK
<1>2. read \in Seq(Frame)
  BY DEF CopyTypeOK
<1>3. Len(read) \in Nat
  BY <1>2, LenProperties
<1>4. LogTypeOK /\ dbMt \in Nat /\ walMt \in Nat /\ hdr \in Nat /\ pos \in Nat
  BY DEF CopyTypeOK
<1> QED
  BY <1>1, <1>2, <1>3, <1>4

LEMMA TimesAside ==
  ASSUME CopyTypeOK, CopyTypeOK', TimesInv, FileInv, PathInv, Aside,
         dbMt' \in {dbMt, dbMt + 1}, walMt' \in {walMt, walMt + 1}
  PROVE  TimesInv' /\ FileInv' /\ PathInv'
<1>1. UNCHANGED <<step, seen, pos, entry, saved, out>> /\ moved' = (step # "idle")
  BY DEF Aside, callVars, fileVars
<1>2. /\ dbMt \in Nat /\ walMt \in Nat /\ dbMt <= dbMt' /\ walMt <= walMt'
      /\ entry.db \in Nat /\ entry.wal \in Nat /\ saved.db \in Nat /\ saved.wal \in Nat
      /\ seen.db \in Nat /\ seen.wal \in Nat
  BY CopyNats
<1>3. dbMt' = dbMt \/ (dbMt < dbMt' /\ saved.db # dbMt')
  BY <1>2 DEF TimesInv
<1>4. TimesInv'
  <2>1. /\ 1 <= dbMt' /\ entry.db <= dbMt' /\ entry.wal <= walMt'
        /\ saved.db <= dbMt' /\ saved.wal <= walMt' /\ seen.db <= dbMt' /\ seen.wal <= walMt'
    BY <1>2 DEF TimesInv
  <2> QED
    BY <1>1, <1>3, <2>1 DEF TimesInv
<1>5. FileInv' /\ PathInv'
  BY <1>1 DEF FileInv, PathInv, Building
<1> QED
  BY <1>4, <1>5

LEMMA GrownKeeps ==
  ASSUME CopyAssumption, CopyTypeOK, CopyTypeOK', CopyInv, Aside, Grown
  PROVE  CopyInv'
<1>1. UNCHANGED <<step, seen, pages, copied, hdr, read, pos, entry, saved, out, dbMt, main, salt, gen>>
  BY DEF Aside, Grown, callVars, fileVars
<1>2. /\ mx \in Nat /\ mx' \in Nat /\ mx <= mx' /\ Len(frames) \in Nat /\ Len(frames') \in Nat
      /\ Len(read) \in Nat
      /\ Len(frames) <= Len(frames') /\ \A i \in 1..mx : frames'[i] = frames[i]
      /\ AppendOnly => \A i \in 1..Len(frames) : frames'[i] = frames[i]
  <2>1. Len(frames) \in Nat /\ Len(frames') \in Nat /\ mx \in Nat /\ mx' \in Nat
    BY LenProperties DEF CopyTypeOK, LogTypeOK
  <2> QED
    BY <2>1, CopyNats DEF Grown
<1>3. /\ walMt \in Nat /\ walMt' = walMt + 1
      /\ entry.wal \in Nat /\ entry.wal # walMt' /\ saved.wal \in Nat /\ saved.wal # walMt'
      /\ seen.wal \in Nat /\ seen.wal # walMt'
  <2>1. walMt' = walMt + 1 /\ entry.wal <= walMt /\ saved.wal <= walMt /\ seen.wal <= walMt
    BY DEF Grown, CopyInv, TimesInv
  <2> QED
    BY <2>1, CopyNats
<1>4. \A p : LogHas(p) => LogHas(p)'
  BY <1>2 DEF LogHas
<1>5. TimesInv' /\ FileInv' /\ PathInv'
  BY TimesAside DEF CopyInv, Grown
<1>6. DatedInv'
  BY DEF Grown, DatedInv, Dated
<1>7. Based => Based'
  BY <1>1, <1>4 DEF Based
<1>8. SoundInv'
  BY <1>1, <1>3, <1>7 DEF CopyInv, SoundInv, Sound
<1>9. \A i : Takes(i)' <=> Takes(i)
  BY <1>1 DEF Takes
<1>10. ReadInv'
  <2> SUFFICES ASSUME step \in {"read", "write"} PROVE ReadInv'
    BY <1>1 DEF ReadInv
  <2>1. ReadInv /\ CopyAssumption
    BY DEF CopyInv
  <2>2. salt = hdr => \A i \in 1..Len(read) : Takes(i) => i <= mx' /\ read[i] = frames'[i]
    <3> SUFFICES ASSUME salt = hdr, NEW i \in 1..Len(read), Takes(i)
                 PROVE  i <= mx' /\ read[i] = frames'[i]
      OBVIOUS
    <3>1. i <= mx /\ read[i] = frames[i]
      BY <2>1 DEF ReadInv
    <3> QED
      BY <3>1, <1>2
  <2>3. ~WholeRead => /\ Len(read) <= Len(frames')
                      /\ \A i \in 1..Len(read) : read[i] = frames'[i]
    <3> SUFFICES ASSUME ~WholeRead
                 PROVE  /\ Len(read) <= Len(frames')
                        /\ \A i \in 1..Len(read) : read[i] = frames'[i]
      OBVIOUS
    <3>1. AppendOnly /\ Len(read) <= Len(frames) /\ \A i \in 1..Len(read) : read[i] = frames[i]
      BY <2>1 DEF CopyAssumption, ReadInv
    <3> QED
      BY <3>1, <1>2
  <2> QED
    BY <2>1, <2>2, <2>3, <1>1, <1>9 DEF ReadInv
<1>11. \A p : (Left(p)' <=> Left(p)) /\ (Ends(p)' <=> Ends(p))
  BY <1>1, <1>9 DEF Left, Ends
<1>12. BuildInv'
  <2> SUFFICES ASSUME seen.db = dbMt PROVE BuildInv'
    BY <1>1 DEF BuildInv
  <2>1. BuildInv
    BY DEF CopyInv
  <2>2. step = "log" => WholeCopied' \/ (Based' /\ entry.db = seen.db /\ entry.wal < seen.wal)
    BY <2>1, <1>1, <1>7 DEF BuildInv, WholeCopied
  <2>3. step \in {"read", "write"} =>
          \A p \in Page : LogHas(p)' \/ ((out[p] = main[p] \/ Left(p)) /\ Ends(p))
    BY <2>1, <1>4 DEF BuildInv
  <2>4. step = "store" => Based'
    BY <2>1, <1>7 DEF BuildInv
  <2>5. step = "copy" => /\ pages = Size(main) /\ copied <= pages
                         /\ \A p \in Page : out[p] = IF p <= copied THEN main[p] ELSE 0
    BY <2>1 DEF BuildInv
  <2>6. Size(main') = Size(main)
    BY <1>1
  <2> QED
    BY <2>2, <2>3, <2>4, <2>5, <2>6, <1>1, <1>3, <1>11 DEF BuildInv
<1> QED
  BY <1>5, <1>6, <1>8, <1>10, <1>12 DEF CopyInv

LEMMA RolledBackKeeps ==
  ASSUME CopyAssumption, CopyTypeOK, CopyTypeOK', CopyInv, Aside, RolledBack
  PROVE  CopyInv'
<1>1. UNCHANGED <<step, seen, pages, copied, hdr, read, pos, entry, saved, out, dbMt, walMt, main,
                  salt, gen, frames, mx, db>>
  BY DEF Aside, RolledBack, callVars, fileVars
<1>2. TimesInv' /\ FileInv' /\ PathInv'
  BY <1>1, TimesAside DEF CopyInv
<1>3. DatedInv'
  BY DEF RolledBack, DatedInv
<1>4. /\ \A p : (LogHas(p)' <=> LogHas(p))
      /\ \A i : (Takes(i)' <=> Takes(i))
  BY <1>1 DEF LogHas, Takes
<1>5. /\ Based' <=> Based
      /\ WholeCopied' <=> WholeCopied
      /\ \A p : (Left(p)' <=> Left(p)) /\ (Ends(p)' <=> Ends(p))
  BY <1>1, <1>4 DEF Based, WholeCopied, Left, Ends
<1>6. SoundInv'
  BY <1>1, <1>5 DEF CopyInv, SoundInv, Sound
<1>7. ReadInv'
  BY <1>1, <1>4 DEF CopyInv, ReadInv
<1>8. BuildInv'
  <2>1. BuildInv /\ Size(main') = Size(main)
    BY <1>1 DEF CopyInv
  <2> QED
    BY <2>1, <1>1, <1>4, <1>5 DEF BuildInv
<1> QED
  BY <1>2, <1>3, <1>6, <1>7, <1>8 DEF CopyInv

LEMMA BackfilledKeeps ==
  ASSUME CopyAssumption, CopyTypeOK, CopyTypeOK', CopyInv, Aside, Backfilled
  PROVE  CopyInv'
<1>1. UNCHANGED <<step, seen, pages, copied, hdr, read, pos, entry, saved, out, walMt,
                  salt, gen, frames, mx>>
  BY DEF Aside, Backfilled, callVars, fileVars
<1>2. TimesInv' /\ FileInv' /\ PathInv'
  BY <1>1, TimesAside DEF CopyInv, Backfilled
<1>3. dbMt \in Nat /\ dbMt' = dbMt + 1 /\ entry.db \in Nat /\ saved.db \in Nat /\ seen.db \in Nat
  BY DEF CopyTypeOK, Backfilled
<1>4. entry.db # dbMt' /\ saved.db # dbMt' /\ seen.db # dbMt'
  BY <1>3 DEF CopyInv, TimesInv
<1>5. DatedInv' /\ SoundInv' /\ BuildInv'
  BY <1>1, <1>4 DEF DatedInv, Dated, SoundInv, Sound, BuildInv
<1>6. \A i : (Takes(i)' <=> Takes(i))
  BY <1>1 DEF Takes
<1>7. ReadInv'
  BY <1>1, <1>4, <1>6 DEF CopyInv, ReadInv
<1> QED
  BY <1>2, <1>5, <1>7 DEF CopyInv

LEMMA CommittedTaken ==
  ASSUME CopyTypeOK, LogInv, HistoryInv, hdr = salt, read = frames, NEW i \in 1..mx
  PROVE  i \in 1..Len(read) /\ Takes(i)
<1>1. /\ mx \in Nat /\ tail \in Nat /\ mx <= tail /\ tail <= Len(frames) /\ Len(frames) \in Nat
  BY FrameTypes DEF CopyTypeOK
<1>2. \A n \in 1..mx : n \in 1..Len(frames) /\ n <= tail
  BY <1>1
<1>3. \A n \in 1..mx : frames[n].salt = salt
  BY <1>2 DEF LogInv
<1>4. PICK n \in i..mx : frames[n].commit # 0
  BY DEF HistoryInv, CommitInv
<1>5. n \in 1..mx /\ n \in i..Len(read)
  BY <1>1, <1>2
<1> QED
  BY <1>2, <1>3, <1>4, <1>5 DEF Takes

LEMMA RestartedKeeps ==
  ASSUME CopyAssumption, CopyTypeOK, CopyTypeOK', LogInv, HistoryInv, CopyInv, Aside, Restarted
  PROVE  CopyInv'
<1>1. UNCHANGED <<step, seen, pages, copied, hdr, read, pos, entry, saved, out, dbMt, main, db>>
  BY DEF Aside, Restarted, callVars, fileVars
<1>2. /\ mx \in Nat /\ Len(frames) \in Nat /\ Len(read) \in Nat /\ mx <= Len(frames)
      /\ salt \in Nat /\ gen \in Nat /\ gen' \in Nat /\ salt' \in Nat /\ hdr \in Nat /\ pos \in Nat
      /\ mx' = 0 /\ gen <= gen' /\ (salt' = 0 \/ salt' > gen)
      /\ tail = mx /\ main = db
  <2>1. /\ mx \in Nat /\ tail \in Nat /\ mx <= tail /\ tail <= Len(frames) /\ Len(frames) \in Nat
        /\ salt \in Nat /\ gen \in Nat
    BY CopyNats, FrameTypes
  <2>2. gen' \in Nat /\ salt' \in Nat
    BY DEF CopyTypeOK, LogTypeOK
  <2> QED
    BY <2>1, <2>2, CopyNats DEF Restarted, Quiet
<1>3. /\ walMt \in Nat /\ walMt' = walMt + 1 /\ dbMt \in Nat
      /\ entry.wal \in Nat /\ entry.wal <= walMt /\ entry.wal # walMt'
      /\ saved.wal \in Nat /\ saved.wal # walMt'
      /\ seen.wal \in Nat /\ seen.wal <= walMt /\ seen.wal # walMt'
      /\ entry.db \in Nat /\ seen.db \in Nat /\ seen.db <= dbMt
      /\ step # "idle" => entry.db <= seen.db
  <2>1. /\ walMt' = walMt + 1 /\ entry.wal <= walMt /\ saved.wal <= walMt /\ seen.wal <= walMt
        /\ seen.db <= dbMt /\ (step # "idle" => entry.db <= seen.db)
    BY DEF Restarted, CopyInv, TimesInv
  <2> QED
    BY <2>1, CopyNats
<1>4. TimesInv' /\ FileInv' /\ PathInv'
  BY TimesAside DEF CopyInv, Restarted
<1>5. DatedInv'
  BY <1>2 DEF DatedInv, Dated
<1>6. \A p : ~LogHas(p)'
  BY <1>2 DEF LogHas
<1>7. mx = 0 => \A p : ~LogHas(p)
  BY DEF LogHas
\* An entry of now is one of the whole log, which the main file holds.
<1>8. mx > 0 => /\ entry.db = dbMt => entry.wal = walMt
                /\ saved.db = dbMt => saved.wal = walMt
                /\ step \notin {"idle", "stat"} /\ seen.db = dbMt => seen.wal = walMt
  BY DEF Restarted, CopyInv, DatedInv, Dated
<1>9. Based' <=> \A p \in Page : out[p] = main[p]
  BY <1>1, <1>6 DEF Based
<1>10. SoundInv'
  <2>1. ASSUME Sound(entry) PROVE Sound(entry)'
    <3>1. out # NoFile /\ entry.db = dbMt => Based'
      BY <2>1, <1>2, <1>7, <1>8, <1>9 DEF Sound, Based
    <3> QED
      BY <3>1, <1>1, <1>3 DEF Sound
  <2>2. ASSUME Sound(saved) PROVE Sound(saved)'
    <3>1. out # NoFile /\ saved.db = dbMt => Based'
      BY <2>2, <1>2, <1>7, <1>8, <1>9 DEF Sound, Based
    <3> QED
      BY <3>1, <1>1, <1>3 DEF Sound
  <2> QED
    BY <2>1, <2>2, <1>1 DEF CopyInv, SoundInv
<1>11. \A i : Takes(i)' <=> Takes(i)
  BY <1>1 DEF Takes
\* A frame-by-frame read is over before a generation ends.
<1>12. step \in {"read", "write"} => WholeRead
  BY <1>2 DEF CopyInv, ReadInv, Restarted, CopyAssumption, AppendOnly
<1>13. ReadInv'
  <2> SUFFICES ASSUME step \in {"read", "write"} PROVE ReadInv'
    BY <1>1 DEF ReadInv
  <2>1. /\ hdr # 0 /\ hdr <= gen /\ pos <= Len(read) /\ (step = "read" => pos = 0) /\ WholeRead
        /\ salt = hdr => \A i \in 1..Len(read) : Takes(i) => i <= mx /\ read[i] = frames[i]
        /\ ~MayRemove /\ entry.db = dbMt /\ salt # hdr => \A i \in 1..Len(read) : ~Takes(i)
    BY <1>12 DEF CopyInv, ReadInv
  <2>2. salt' # hdr /\ hdr <= gen'
    BY <2>1, <1>2
  <2>3. ASSUME ~MayRemove, entry.db = dbMt, NEW i \in 1..Len(read) PROVE ~Takes(i)
    <3>1. CASE salt # hdr
      BY <3>1, <2>1, <2>3
    <3>2. CASE salt = hdr
      <4>1. SUFFICES ASSUME Takes(i) PROVE FALSE
        OBVIOUS
      <4>2. i <= mx /\ mx > 0
        BY <4>1, <3>2, <2>1, <1>2
      <4>3. entry.wal = walMt
        BY <4>2, <2>3, <1>8
      <4>4. entry.db = seen.db
        BY <2>3, <1>3
      <4>5. entry.wal < seen.wal
        BY <4>4, <2>3 DEF CopyInv, PathInv, Building
      <4> QED
        BY <4>3, <4>5, <1>3
    <3> QED
      BY <3>1, <3>2
  <2> QED
    BY <2>1, <2>2, <2>3, <1>1, <1>11 DEF ReadInv
<1>14. \A p : (Left(p)' <=> Left(p)) /\ (Ends(p)' <=> Ends(p))
  BY <1>1, <1>11 DEF Left, Ends
<1>15. BuildInv'
  <2> SUFFICES ASSUME seen.db = dbMt PROVE BuildInv'
    BY <1>1 DEF BuildInv
  <2>1. BuildInv
    BY DEF CopyInv
  <2>2. step = "copy" => /\ pages = Size(main) /\ copied <= pages
                         /\ \A p \in Page : out[p] = IF p <= copied THEN main[p] ELSE 0
    BY <2>1 DEF BuildInv
  <2>3. step = "log" => WholeCopied'
    <3> SUFFICES ASSUME step = "log", ~WholeCopied PROVE FALSE
      BY <1>1 DEF WholeCopied
    <3>1. Based /\ entry.db = seen.db /\ entry.wal < seen.wal
      BY <2>1 DEF BuildInv
    <3>2. mx > 0
      BY <3>1, <1>2, <1>7 DEF Based, WholeCopied
    <3>3. entry.wal = walMt /\ seen.wal = walMt
      BY <3>1, <3>2, <1>8
    <3> QED
      BY <3>1, <3>3, <1>3
  <2>4. ASSUME step \in {"read", "write"}, NEW p \in Page
        PROVE  (out[p] = main[p] \/ Left(p)) /\ Ends(p)
    <3>1. CASE mx = 0
      BY <2>4, <3>1, <2>1, <1>7 DEF BuildInv
    <3>2. CASE mx > 0
      <4>1. seen.wal = walMt
        BY <2>4, <3>2, <1>8
      <4>2. /\ hdr = salt /\ (step = "write" \/ WholeRead => read = frames)
            /\ out[p] = db[p] \/ \E i \in pos + 1 .. mx : frames[i].pgno = p
        BY <2>4, <4>1, <2>1 DEF BuildInv
      <4>3. read = frames
        BY <2>4, <4>2, <1>12
      <4>4. \A i \in 1..mx : i \in 1..Len(read) /\ Takes(i)
        BY <4>2, <4>3, CommittedTaken
      <4>5. out[p] = main[p] \/ Left(p)
        <5>1. CASE out[p] = db[p]
          BY <5>1, <1>2
        <5>2. CASE out[p] # db[p]
          <6>1. PICK i \in pos + 1 .. mx : frames[i].pgno = p
            BY <4>2, <5>2
          <6>2. i \in 1..mx /\ i \in pos + 1 .. Len(read)
            BY <4>3, <1>2
          <6> QED
            BY <6>1, <6>2, <4>3, <4>4 DEF Left
        <5> QED
          BY <5>1, <5>2
      <4>6. Ends(p)
        <5> SUFFICES ASSUME NEW i \in pos + 1 .. Len(read), Takes(i), read[i].pgno = p,
                            \A j \in i + 1 .. Len(read) : Takes(j) => read[j].pgno # p
                     PROVE  read[i].ver = main[p]
          BY DEF Ends
        <5>1. i \in 1..Len(read) /\ i \in Nat
          BY <1>2
        <5>2. i <= mx /\ i \in 1..mx
          BY <5>1, <2>4, <4>2, <1>2 DEF CopyInv, ReadInv
        <5>3. \A j \in i + 1 .. mx : frames[j].pgno # p
          <6> SUFFICES ASSUME NEW j \in i + 1 .. mx PROVE frames[j].pgno # p
            OBVIOUS
          <6>1. j \in 1..mx /\ j \in i + 1 .. Len(read)
            BY <5>2, <4>3, <1>2
          <6> QED
            BY <6>1, <4>3, <4>4
        <5>4. frames[i].ver = db[frames[i].pgno]
          BY <5>2, <5>3, <4>3, LastIsCurrent DEF CopyTypeOK
        <5> QED
          BY <5>4, <4>3, <1>2
      <4> QED
        BY <4>5, <4>6
    <3> QED
      BY <3>1, <3>2, <1>2
  <2>5. step = "store" => Based'
    <3> SUFFICES ASSUME step = "store" PROVE Based'
      OBVIOUS
    <3>1. Based /\ (seen.wal = walMt => out = db)
      BY <2>1 DEF BuildInv
    <3>2. CASE mx = 0
      BY <3>1, <3>2, <1>7, <1>9 DEF Based
    <3>3. CASE mx > 0
      BY <3>1, <3>3, <1>2, <1>8, <1>9
    <3> QED
      BY <3>2, <3>3, <1>2
  <2>6. Size(main') = Size(main)
    BY <1>1
  <2> QED
    BY <2>2, <2>3, <2>4, <2>5, <2>6, <1>1, <1>3, <1>14 DEF BuildInv
<1> QED
  BY <1>4, <1>5, <1>10, <1>13, <1>15 DEF CopyInv

LEMMA WriteKeeps ==
  ASSUME CopyAssumption, CopyTypeOK, CopyTypeOK', LogInv, HistoryInv, FreshInv, CopyInv, Write
  PROVE  LogInv' /\ HistoryInv' /\ FreshInv' /\ CopyInv'
<1>1. Aside
  BY DEF Write, Aside
<1> QED
  BY <1>1, WriteCases, GrownKeeps, RolledBackKeeps, BackfilledKeeps, RestartedKeeps


-----------------------------------------------------------------------------
(* The steps of a call *)

LEMMA StaysLog ==
  ASSUME CopyTypeOK, LogInv, HistoryInv, FreshInv, Stays
  PROVE  /\ LogInv' /\ HistoryInv' /\ FreshInv'
         /\ UNCHANGED <<frames, salt, gen, mx, tail, main, hist, db, dbMt, walMt>>
         /\ Size(main)' = Size(main)
         /\ Quiet' <=> Quiet
         /\ \A p : LogHas(p)' <=> LogHas(p)
<1>1. UNCHANGED logVars /\ UNCHANGED <<frames, salt, gen, mx, tail, main, hist, dbMt, walMt>>
  BY DEF Stays, logVars
<1>2. db' = db
  BY <1>1 DEF db
<1>3. mx \in Nat
  BY DEF CopyTypeOK, LogTypeOK
<1>4. LogInv' /\ FreshInv' /\ HistoryInv'
  BY <1>1, <1>3, KeptHistory DEF LogInv, FreshInv
<1>5. Size(main)' = Size(main)
  BY <1>1 DEF Size
<1> QED
  BY <1>1, <1>2, <1>4, <1>5 DEF Quiet, LogHas

LEMMA CopyInitInv == CopyInit => FreshInv /\ CopyInv
<1> SUFFICES ASSUME CopyInit PROVE FreshInv /\ CopyInv
  OBVIOUS
<1>1. /\ dbMt = 1 /\ walMt = 0 /\ out = NoFile /\ entry = NoEntry /\ saved = NoEntry
      /\ step = "idle" /\ seen = NoEntry /\ pos = 0 /\ moved = FALSE /\ frames = <<>>
  BY DEF CopyInit, LogInit
<1>2. NoEntry.db = 0 /\ NoEntry.wal = 0
  BY DEF NoEntry
<1>3. FreshInv
  BY <1>1 DEF FreshInv
<1>4. TimesInv
  BY <1>1, <1>2 DEF TimesInv
<1>5. FileInv /\ PathInv /\ ReadInv
  BY <1>1 DEF FileInv, PathInv, ReadInv, Building
<1>6. DatedInv /\ SoundInv
  BY <1>1, <1>2 DEF DatedInv, Dated, SoundInv, Sound
<1>7. BuildInv
  BY <1>1, <1>2 DEF BuildInv
<1> QED
  BY <1>3, <1>4, <1>5, <1>6, <1>7 DEF CopyInv

LEMMA CleanUpKeeps ==
  ASSUME CopyTypeOK, LogInv, HistoryInv, FreshInv, CopyInv, CleanUp
  PROVE  LogInv' /\ HistoryInv' /\ FreshInv' /\ CopyInv'
<1>1. /\ Stays /\ MayRemove /\ step = "idle" /\ out' = NoFile
      /\ UNCHANGED <<entry, saved, step, seen, pages, copied, hdr, read, pos, moved>>
  BY DEF CleanUp, Stays, callVars
<1>2. /\ LogInv' /\ HistoryInv' /\ FreshInv' /\ (Quiet' <=> Quiet)
      /\ UNCHANGED <<mx, dbMt, walMt>>
  BY <1>1, StaysLog
<1>3. TimesInv'
  BY <1>1, <1>2 DEF CopyInv, TimesInv
<1>4. FileInv' /\ PathInv' /\ ReadInv' /\ BuildInv'
  BY <1>1 DEF CopyInv, FileInv, PathInv, ReadInv, BuildInv, Building
<1>5. DatedInv' /\ SoundInv'
  BY <1>1, <1>2 DEF CopyInv, DatedInv, Dated, SoundInv, Sound
<1> QED
  BY <1>2, <1>3, <1>4, <1>5 DEF CopyInv

LEMMA StatDbKeeps ==
  ASSUME CopyTypeOK, LogInv, HistoryInv, FreshInv, CopyInv, StatDb
  PROVE  LogInv' /\ HistoryInv' /\ FreshInv' /\ CopyInv'
<1>1. /\ Stays /\ step = "idle" /\ step' = "stat" /\ moved' = FALSE
      /\ seen'.db = dbMt /\ seen'.wal = 0
      /\ UNCHANGED <<out, entry, saved, pages, copied, hdr, read, pos>>
  BY DEF StatDb, To, fileVars
<1>2. /\ LogInv' /\ HistoryInv' /\ FreshInv' /\ (Quiet' <=> Quiet)
      /\ UNCHANGED <<mx, main, db, dbMt, walMt>> /\ \A p : LogHas(p)' <=> LogHas(p)
  BY <1>1, StaysLog
<1>3. TimesInv'
  BY <1>1, <1>2, CopyNats DEF CopyInv, TimesInv
<1>4. FileInv' /\ PathInv' /\ ReadInv' /\ BuildInv'
  BY <1>1 DEF CopyInv, FileInv, PathInv, ReadInv, BuildInv, Building
<1>5. DatedInv' /\ SoundInv'
  BY <1>1, <1>2 DEF CopyInv, DatedInv, Dated, SoundInv, Sound, Based
<1> QED
  BY <1>2, <1>3, <1>4, <1>5 DEF CopyInv

LEMMA StatWalKeeps ==
  ASSUME CopyTypeOK, LogInv, HistoryInv, FreshInv, CopyInv, StatWal
  PROVE  LogInv' /\ HistoryInv' /\ FreshInv' /\ CopyInv'
<1>1. /\ Stays /\ step = "stat" /\ step' = Path(entry, seen')
      /\ seen' = [seen EXCEPT !.wal = walMt]
      /\ UNCHANGED <<out, entry, saved, pages, copied, hdr, read, pos, moved>>
  BY DEF StatWal, To, fileVars
<1>2. /\ LogInv' /\ HistoryInv' /\ FreshInv' /\ (Quiet' <=> Quiet)
      /\ UNCHANGED <<mx, main, db, dbMt, walMt>> /\ \A p : LogHas(p)' <=> LogHas(p)
  BY <1>1, StaysLog
<1>3. /\ seen'.db = seen.db /\ seen'.wal = walMt
      /\ entry.db = seen.db /\ entry.wal = walMt => entry = seen'
  BY <1>1 DEF CopyTypeOK
<1>4. /\ step' \in {"reply", "log", "full"}
      /\ step' = "reply" => out # NoFile /\ entry.db = seen.db /\ entry.wal = walMt
      /\ step' = "log" => out # NoFile /\ entry.db = seen.db /\ entry.wal # walMt
      /\ step' = "full" => out = NoFile \/ entry.db # seen.db
  BY <1>1, <1>3 DEF Path, Reusable
<1>5. /\ entry.wal <= walMt /\ saved.wal <= walMt /\ 1 <= seen.db /\ (~moved => seen.db = dbMt)
  BY <1>1 DEF CopyInv, TimesInv
<1>6. TimesInv'
  BY <1>1, <1>2, <1>3, <1>4, <1>5, CopyNats DEF CopyInv, TimesInv
<1>7. FileInv'
  BY <1>1, <1>4 DEF CopyInv, FileInv
<1>8. PathInv'
  <2>1. step' = "reply" => entry = seen'
    BY <1>3, <1>4
  <2>2. ~MayRemove /\ step' = "full" => entry.db # seen.db
    <3>1. NoEntry.db = 0
      BY DEF NoEntry
    <3> QED
      BY <3>1, <1>4, <1>5, CopyNats DEF CopyInv, FileInv
  <2>3. step' = "log" => entry.wal < walMt
    BY <1>4, <1>5, CopyNats
  <2> QED
    BY <2>1, <2>2, <2>3, <1>1, <1>3, <1>4 DEF PathInv, Building
<1>9. DatedInv'
  BY <1>1, <1>2, <1>3 DEF CopyInv, DatedInv, Dated
<1>10. Sound(entry) /\ (~MayRemove => Sound(saved))
  BY <1>1 DEF CopyInv, SoundInv
<1>11. SoundInv'
  BY <1>1, <1>2, <1>10 DEF SoundInv, Sound, Based
<1>12. ReadInv'
  BY <1>4 DEF ReadInv
<1>13. BuildInv'
  <2>1. step' = "log" /\ seen.db = dbMt => Based /\ entry.wal < walMt /\ entry.db = seen.db
    BY <1>4, <1>5, <1>10, CopyNats DEF Sound
  <2>2. Based' <=> Based
    BY <1>1, <1>2 DEF Based
  <2> QED
    BY <2>1, <2>2, <1>1, <1>2, <1>3, <1>4 DEF BuildInv
<1> QED
  BY <1>2, <1>6, <1>7, <1>8, <1>9, <1>11, <1>12, <1>13 DEF CopyInv

\* A call that does not end leaves what it knows of the times.
LEMMA GoesOn ==
  ASSUME CopyTypeOK, CopyInv, Stays, step \notin {"idle", "stat"}, step' \notin {"idle", "stat"},
         UNCHANGED <<entry, saved, seen, moved>>,
         UNCHANGED <<mx, dbMt, walMt>>, Quiet' <=> Quiet
  PROVE  TimesInv' /\ DatedInv'
<1>1. TimesInv'
  BY DEF CopyInv, TimesInv
<1>2. DatedInv'
  BY DEF CopyInv, DatedInv, Dated
<1> QED
  BY <1>1, <1>2

\* While the copy is made anew no entry is of now.
LEMMA Outdated ==
  ASSUME CopyTypeOK, CopyInv, ~MayRemove, step \in {"full", "copy"}
  PROVE  entry.db # dbMt /\ saved.db # dbMt
<1>1. entry.db # seen.db /\ entry.db <= seen.db /\ seen.db <= dbMt
  BY DEF CopyInv, PathInv, TimesInv
<1>2. entry.db # dbMt
  BY <1>1, CopyNats
<1> QED
  BY <1>2 DEF CopyInv, TimesInv

LEMMA CopyingKeeps ==
  ASSUME CopyTypeOK, CopyTypeOK', LogInv, HistoryInv, FreshInv, CopyInv, OpenMain \/ CopyPage
  PROVE  LogInv' /\ HistoryInv' /\ FreshInv' /\ CopyInv'
<1>1. /\ Stays /\ step \in {"full", "copy"} /\ step' = "copy"
      /\ UNCHANGED <<entry, saved, seen, hdr, read, pos, moved>>
  BY DEF OpenMain, CopyPage, To
<1>2. /\ LogInv' /\ HistoryInv' /\ FreshInv' /\ (Quiet' <=> Quiet)
      /\ UNCHANGED <<mx, main, db, dbMt, walMt>> /\ Size(main)' = Size(main)
  BY <1>1, StaysLog
<1>3. TimesInv' /\ DatedInv'
  BY <1>1, <1>2, GoesOn
<1>4. out' # NoFile
  <2>1. CASE OpenMain
    <3>1. Blank \in [Page -> Nat]
      BY DEF Blank
    <3> QED
      BY <2>1, <3>1, FileIs DEF OpenMain
  <2>2. CASE CopyPage
    <3>1. out \in [Page -> Nat]
      BY <2>2 DEF CopyPage, CopyInv, FileInv, CopyTypeOK
    <3>2. DOMAIN out' = Page
      BY <3>1, <2>2 DEF CopyPage
    <3>3. 1 \in Page /\ DOMAIN NoFile = {}
      BY WalLogAssumption DEF Page, NoFile
    <3> QED
      BY <3>2, <3>3
  <2> QED
    BY <2>1, <2>2
<1>5. FileInv' /\ PathInv' /\ ReadInv'
  BY <1>1, <1>4 DEF CopyInv, FileInv, PathInv, ReadInv, Building
<1>6. SoundInv'
  <2>1. ~MayRemove => entry.db # dbMt /\ saved.db # dbMt
    BY <1>1, Outdated
  <2> QED
    BY <2>1, <1>1, <1>2 DEF SoundInv, Sound
<1>7. BuildInv'
  <2> SUFFICES ASSUME seen.db = dbMt
               PROVE  /\ pages' = Size(main) /\ copied' <= pages'
                      /\ \A p \in Page : out'[p] = IF p <= copied' THEN main[p] ELSE 0
    BY <1>1, <1>2 DEF BuildInv
  <2>1. CASE OpenMain
    <3>1. pages' = Size(main) /\ copied' = 0 /\ out' = Blank
      BY <2>1 DEF OpenMain
    <3>2. \A p \in Page : ~(p <= 0) /\ Blank[p] = 0
      BY DEF Page, Blank
    <3> QED
      BY <3>1, <3>2, SizeType
  <2>2. CASE CopyPage
    <3>1. /\ pages = Size(main) /\ copied <= pages
          /\ \A p \in Page : out[p] = IF p <= copied THEN main[p] ELSE 0
      BY <2>2 DEF CopyPage, CopyInv, BuildInv
    <3>2. /\ copied < pages /\ copied' = copied + 1 /\ pages' = pages
          /\ out' = [out EXCEPT ![copied + 1] = main[copied + 1]]
      BY <2>2 DEF CopyPage
    <3>3. out \in [Page -> Nat]
      BY <2>2 DEF CopyPage, CopyInv, FileInv, CopyTypeOK
    <3>4. copied \in Nat /\ pages \in Nat /\ \A p \in Page : p \in Nat
      BY WalLogAssumption DEF CopyTypeOK, Page
    <3>5. ASSUME NEW p \in Page PROVE out'[p] = IF p <= copied + 1 THEN main[p] ELSE 0
      <4>1. CASE p = copied + 1
        BY <4>1, <3>2, <3>3, <3>4
      <4>2. CASE p # copied + 1
        <5>1. out'[p] = out[p]
          BY <4>2, <3>2, <3>3
        <5>2. p <= copied + 1 <=> p <= copied
          BY <4>2, <3>4
        <5> QED
          BY <5>1, <5>2, <3>1
      <4> QED
        BY <4>1, <4>2
    <3> QED
      BY <3>1, <3>2, <3>4, <3>5
  <2> QED
    BY <2>1, <2>2
<1> QED
  BY <1>2, <1>3, <1>5, <1>6, <1>7 DEF CopyInv

\* A step that leaves the files as they are keeps what the entries say of them.
LEMMA SoundStays ==
  ASSUME CopyInv, UNCHANGED <<out, entry, saved>>, UNCHANGED <<main, db, dbMt, walMt>>,
         \A p : LogHas(p)' <=> LogHas(p),
         step' \notin {"idle", "stat", "save", "reply"}
  PROVE  SoundInv' /\ (Based' <=> Based)
<1>1. Based' <=> Based
  BY DEF Based
<1> QED
  BY <1>1 DEF CopyInv, SoundInv, Sound

LEMMA CopyDoneKeeps ==
  ASSUME CopyTypeOK, LogInv, HistoryInv, FreshInv, CopyInv, CopyDone
  PROVE  LogInv' /\ HistoryInv' /\ FreshInv' /\ CopyInv'
<1>1. /\ Stays /\ step = "copy" /\ step' = "log" /\ copied = pages
      /\ UNCHANGED <<out, entry, saved, seen, hdr, read, pos, moved>>
  BY DEF CopyDone, To, fileVars
<1>2. /\ LogInv' /\ HistoryInv' /\ FreshInv' /\ (Quiet' <=> Quiet)
      /\ UNCHANGED <<mx, main, db, dbMt, walMt>> /\ \A p : LogHas(p)' <=> LogHas(p)
  BY <1>1, StaysLog
<1>3. TimesInv' /\ DatedInv'
  BY <1>1, <1>2, GoesOn
<1>4. FileInv' /\ PathInv' /\ ReadInv'
  BY <1>1 DEF CopyInv, FileInv, PathInv, ReadInv, Building
<1>5. SoundInv'
  BY <1>1, <1>2, SoundStays
<1>6. seen.db = dbMt => WholeCopied
  <2> SUFFICES ASSUME seen.db = dbMt, NEW p \in Page PROVE out[p] = main[p]
    BY DEF WholeCopied
  <2>1. pages = Size(main) /\ out[p] = IF p <= copied THEN main[p] ELSE 0
    BY <1>1 DEF CopyInv, BuildInv
  <2>2. p <= Size(main) <=> main[p] # 0
    BY WholeSize DEF HistoryInv, MainInv
  <2> QED
    BY <2>1, <2>2, <1>1
<1>7. BuildInv'
  BY <1>1, <1>2, <1>6 DEF BuildInv, WholeCopied
<1> QED
  BY <1>2, <1>3, <1>4, <1>5, <1>7 DEF CopyInv

LEMMA NoLogKeeps ==
  ASSUME CopyTypeOK, LogInv, HistoryInv, FreshInv, CopyInv, NoLog
  PROVE  LogInv' /\ HistoryInv' /\ FreshInv' /\ CopyInv'
<1>1. /\ Stays /\ step = "log" /\ step' = "store" /\ salt = 0
      /\ UNCHANGED <<out, entry, saved, seen, hdr, read, pos, moved>>
  BY DEF NoLog, To, fileVars
<1>2. /\ LogInv' /\ HistoryInv' /\ FreshInv' /\ (Quiet' <=> Quiet)
      /\ UNCHANGED <<mx, main, db, dbMt, walMt>> /\ \A p : LogHas(p)' <=> LogHas(p)
  BY <1>1, StaysLog
<1>3. TimesInv' /\ DatedInv'
  BY <1>1, <1>2, GoesOn
<1>4. FileInv' /\ PathInv' /\ ReadInv'
  BY <1>1 DEF CopyInv, FileInv, PathInv, ReadInv, Building
<1>5. SoundInv' /\ (Based' <=> Based)
  BY <1>1, <1>2, SoundStays
<1>6. seen.db = dbMt => Based /\ out = db
  <2> SUFFICES ASSUME seen.db = dbMt PROVE Based /\ out = db
    OBVIOUS
  <2>1. \A p : ~LogHas(p)
    BY <1>1, EmptyLog DEF CopyTypeOK
  <2>2. \A p \in Page : out[p] = main[p]
    BY <2>1, <1>1 DEF CopyInv, BuildInv, WholeCopied, Based
  <2>3. \A p \in Page : main[p] = db[p]
    BY <2>1, Uncovered
  <2>4. out \in [Page -> Nat] /\ db \in [Page -> Nat]
    BY <1>1, HistTypes DEF CopyInv, FileInv, CopyTypeOK, HistoryInv
  <2> QED
    BY <2>2, <2>3, <2>4 DEF Based
<1>7. BuildInv'
  BY <1>1, <1>2, <1>5, <1>6 DEF BuildInv
<1> QED
  BY <1>2, <1>3, <1>4, <1>5, <1>7 DEF CopyInv


\* Of a reading that is the log up to some frame, what would be applied is committed.
LEMMA TakenCommitted ==
  ASSUME CopyTypeOK, LogInv, NEW r \in Seq(Frame), Len(r) <= Len(frames),
         \A i \in 1..Len(r) : r[i] = frames[i], NEW i \in 1..Len(r),
         NEW n \in i..Len(r), r[n].salt = salt, r[n].commit # 0
  PROVE  i \in 1..mx
<1>1. Len(r) \in Nat /\ mx \in Nat /\ Len(frames) \in Nat
  BY FrameTypes, LenProperties DEF CopyTypeOK
<1>2. n \in 1..Len(frames) /\ n \in 1..Len(r)
  BY <1>1
<1>3. frames[n].salt = salt /\ frames[n].commit # 0
  BY <1>2
<1>4. n <= mx
  BY <1>1, <1>2, <1>3 DEF LogInv
<1> QED
  BY <1>1, <1>4

\* With nothing but committed frames read, a page the log does not cover is not waited for.
LEMMA Reading ==
  ASSUME CopyTypeOK, HistoryInv, seen.db = dbMt,
         \A p \in Page : out[p] = main[p] \/ LogHas(p),
         \A i \in 1..Len(read)' : Takes(i)' => i \in 1..mx /\ read'[i] = frames[i],
         UNCHANGED <<out, main, frames, mx>>, pos' = 0, Len(read)' \in Nat
  PROVE  \A p \in Page : /\ LogHas(p) \/ ((out[p] = main[p] \/ Left(p)') /\ Ends(p)')
                         /\ out[p] = db[p] \/ \E i \in 1..mx : frames[i].pgno = p
<1> SUFFICES ASSUME NEW p \in Page, ~LogHas(p)
             PROVE  out[p] = main[p] /\ Ends(p)' /\ out[p] = db[p]
  BY DEF LogHas
<1>1. out[p] = main[p] /\ main[p] = db[p]
  BY Uncovered
<1>2. Ends(p)'
  <2> SUFFICES ASSUME NEW i \in pos' + 1 .. Len(read)', Takes(i)', read'[i].pgno = p PROVE FALSE
    BY DEF Ends
  <2>1. i \in 1..Len(read)'
    OBVIOUS
  <2> QED
    BY <2>1 DEF LogHas
<1> QED
  BY <1>1, <1>2

LEMMA ReadHeaderKeeps ==
  ASSUME CopyTypeOK, CopyTypeOK', LogInv, HistoryInv, FreshInv, CopyInv, ReadHeader
  PROVE  LogInv' /\ HistoryInv' /\ FreshInv' /\ CopyInv'
<1>1. /\ Stays /\ step = "log" /\ step' = "read" /\ salt # 0 /\ hdr' = salt
      /\ read' = (IF WholeRead THEN frames ELSE <<>>)
      /\ UNCHANGED <<out, entry, saved, seen, pos, moved>>
  BY DEF ReadHeader, To, fileVars
<1>2. /\ LogInv' /\ HistoryInv' /\ FreshInv' /\ (Quiet' <=> Quiet)
      /\ UNCHANGED <<frames, salt, gen, mx, main, db, dbMt, walMt>>
      /\ \A p : LogHas(p)' <=> LogHas(p)
  BY <1>1, StaysLog
<1>3. TimesInv' /\ DatedInv'
  BY <1>1, <1>2, GoesOn
<1>4. FileInv' /\ PathInv' /\ pos = 0
  BY <1>1 DEF CopyInv, FileInv, PathInv, Building
<1>5. SoundInv'
  BY <1>1, <1>2, SoundStays
<1>6. /\ Len(read') \in Nat /\ Len(read') <= Len(frames) /\ (~WholeRead => Len(read') = 0)
      /\ \A i \in 1..Len(read') : read'[i] = frames[i]
      /\ Len(frames) \in Nat /\ read' \in Seq(Frame)
  <2>1. frames \in Seq(Frame) /\ Len(frames) \in Nat /\ Len(<<>>) = 0
    BY FrameTypes DEF CopyTypeOK, LogTypeOK
  <2> QED
    BY <1>1, <2>1, EmptySeq
<1>7. \A i \in 1..Len(read') : Takes(i)' => i \in 1..mx
  <2> SUFFICES ASSUME NEW i \in 1..Len(read'), Takes(i)' PROVE i \in 1..mx
    OBVIOUS
  <2>1. PICK n \in i..Len(read') : read'[n].salt = salt /\ read'[n].commit # 0
    BY <1>1 DEF Takes
  <2> QED
    BY <2>1, <1>6, TakenCommitted
<1>8. ReadInv'
  <2>1. hdr' # 0 /\ hdr' <= gen' /\ salt' = hdr'
    BY <1>1, <1>2 DEF LogInv
  <2>2. \A i \in 1..Len(read') : Takes(i)' => i <= mx' /\ read'[i] = frames'[i]
    BY <1>2, <1>6, <1>7
  <2>3. pos' = 0 /\ pos' <= Len(read') /\ Len(read') <= Len(frames')
        /\ \A i \in 1..Len(read') : read'[i] = frames'[i]
    BY <1>1, <1>2, <1>4, <1>6
  <2> QED
    BY <2>1, <2>2, <2>3 DEF ReadInv
<1>9. BuildInv'
  <2> SUFFICES ASSUME seen.db = dbMt PROVE BuildInv'
    BY <1>1, <1>2 DEF BuildInv
  <2>1. \A p \in Page : out[p] = main[p] \/ LogHas(p)
    BY <1>1 DEF CopyInv, BuildInv, WholeCopied, Based
  <2>2. \A p \in Page : /\ LogHas(p) \/ ((out[p] = main[p] \/ Left(p)') /\ Ends(p)')
                        /\ out[p] = db[p] \/ \E i \in 1..mx : frames[i].pgno = p
    BY <2>1, <1>1, <1>2, <1>4, <1>6, <1>7, Reading
  <2>3. WholeRead => read' = frames'
    BY <1>1, <1>2
  <2>4. pos' + 1 = 1
    BY <1>1, <1>4
  <2> QED
    BY <2>2, <2>3, <2>4, <1>1, <1>2 DEF BuildInv
<1> QED
  BY <1>2, <1>3, <1>4, <1>5, <1>8, <1>9 DEF CopyInv

LEMMA ReadFrameKeeps ==
  ASSUME CopyTypeOK, CopyTypeOK', LogInv, HistoryInv, FreshInv, CopyInv, ReadFrame
  PROVE  LogInv' /\ HistoryInv' /\ FreshInv' /\ CopyInv'
<1>1. /\ Stays /\ step = "read" /\ step' = "read" /\ ~WholeRead /\ Len(read) < Len(frames)
      /\ read' = Append(read, frames[Len(read) + 1])
      /\ UNCHANGED <<out, entry, saved, seen, hdr, pos, moved>>
  BY DEF ReadFrame, fileVars
<1>2. /\ LogInv' /\ HistoryInv' /\ FreshInv' /\ (Quiet' <=> Quiet)
      /\ UNCHANGED <<frames, salt, gen, mx, main, db, dbMt, walMt>>
      /\ \A p : LogHas(p)' <=> LogHas(p)
  BY <1>1, StaysLog
<1>3. TimesInv' /\ DatedInv'
  BY <1>1, <1>2, GoesOn
<1>4. FileInv' /\ PathInv' /\ pos = 0
  BY <1>1 DEF CopyInv, FileInv, PathInv, Building
<1>5. SoundInv'
  BY <1>1, <1>2, SoundStays
<1>6. /\ hdr # 0 /\ hdr <= gen /\ salt = hdr /\ \A i \in 1..Len(read) : read[i] = frames[i]
      /\ \A i \in 1..Len(read) : Takes(i) => i <= mx
  BY <1>1 DEF CopyInv, ReadInv
<1>7. /\ Len(read) \in Nat /\ Len(frames) \in Nat /\ read' \in Seq(Frame)
      /\ Len(read') = Len(read) + 1
      /\ \A i \in 1..Len(read') : read'[i] = frames[i]
  <2>1. /\ read \in Seq(Frame) /\ frames \in Seq(Frame) /\ Len(read) \in Nat /\ Len(frames) \in Nat
    BY FrameTypes, CopyNats DEF LogTypeOK
  <2>2. frames[Len(read) + 1] \in Frame
    BY <2>1, <1>1, ElementOfSeq
  <2>3. /\ Len(read') = Len(read) + 1 /\ read'[Len(read) + 1] = frames[Len(read) + 1]
        /\ \A i \in 1..Len(read) : read'[i] = read[i]
    BY <2>1, <2>2, <1>1, AppendProperties
  <2>4. read' \in Seq(Frame)
    BY DEF CopyTypeOK
  <2> QED
    BY <2>1, <2>3, <2>4, <1>6
<1>8. \A i \in 1..Len(read') : Takes(i)' => i \in 1..mx
  <2> SUFFICES ASSUME NEW i \in 1..Len(read'), Takes(i)' PROVE i \in 1..mx
    OBVIOUS
  <2>1. PICK n \in i..Len(read') : read'[n].salt = salt /\ read'[n].commit # 0
    BY <1>1, <1>6 DEF Takes
  <2>2. Len(read') <= Len(frames)
    BY <1>1, <1>7
  <2> QED
    BY <2>1, <2>2, <1>7, TakenCommitted
<1>9. ReadInv'
  <2>1. \A i \in 1..Len(read') : Takes(i)' => i <= mx' /\ read'[i] = frames'[i]
    BY <1>2, <1>7, <1>8
  <2>2. pos' <= Len(read') /\ Len(read') <= Len(frames')
    BY <1>1, <1>2, <1>4, <1>7
  <2>3. \A i \in 1..Len(read') : read'[i] = frames'[i]
    BY <1>2, <1>7
  <2> QED
    BY <2>1, <2>2, <2>3, <1>1, <1>2, <1>4, <1>6 DEF ReadInv
<1>10. BuildInv'
  <2> SUFFICES ASSUME seen.db = dbMt PROVE BuildInv'
    BY <1>1, <1>2 DEF BuildInv
  <2>1. ASSUME NEW p \in Page PROVE out[p] = main[p] \/ LogHas(p)
    <3>1. LogHas(p) \/ out[p] = main[p] \/ Left(p)
      BY <1>1 DEF CopyInv, BuildInv
    <3>2. Left(p) => LogHas(p)
      <4> SUFFICES ASSUME Left(p) PROVE LogHas(p)
        OBVIOUS
      <4>1. PICK i \in pos + 1 .. Len(read) : Takes(i) /\ read[i].pgno = p
        BY DEF Left
      <4>2. i \in 1..Len(read)
        BY <1>4
      <4> QED
        BY <4>1, <4>2, <1>6 DEF LogHas
    <3> QED
      BY <3>1, <3>2
  <2>2. \A p \in Page : /\ LogHas(p) \/ ((out[p] = main[p] \/ Left(p)') /\ Ends(p)')
                        /\ out[p] = db[p] \/ \E i \in 1..mx : frames[i].pgno = p
    BY <2>1, <1>1, <1>2, <1>4, <1>7, <1>8, Reading
  <2>3. pos' + 1 = 1
    BY <1>1, <1>4
  <2> QED
    BY <2>2, <2>3, <1>1, <1>2, <1>6 DEF BuildInv
<1> QED
  BY <1>2, <1>3, <1>4, <1>5, <1>9, <1>10 DEF CopyInv

LEMMA ReadDoneKeeps ==
  ASSUME CopyTypeOK, LogInv, HistoryInv, FreshInv, CopyInv, ReadDone
  PROVE  LogInv' /\ HistoryInv' /\ FreshInv' /\ CopyInv'
<1>1. /\ Stays /\ step = "read" /\ step' = "write" /\ (WholeRead \/ Len(read) >= Len(frames))
      /\ UNCHANGED <<out, entry, saved, seen, hdr, read, pos, moved>>
  BY DEF ReadDone, To, fileVars
<1>2. /\ LogInv' /\ HistoryInv' /\ FreshInv' /\ (Quiet' <=> Quiet)
      /\ UNCHANGED <<frames, salt, gen, mx, main, db, dbMt, walMt>>
      /\ \A p : LogHas(p)' <=> LogHas(p)
  BY <1>1, StaysLog
<1>3. TimesInv' /\ DatedInv'
  BY <1>1, <1>2, GoesOn
<1>4. FileInv' /\ PathInv'
  BY <1>1 DEF CopyInv, FileInv, PathInv, Building
<1>5. SoundInv'
  BY <1>1, <1>2, SoundStays
<1>6. \A i : Takes(i)' <=> Takes(i)
  BY <1>1 DEF Takes
<1>7. ReadInv'
  BY <1>1, <1>2, <1>6 DEF CopyInv, ReadInv
<1>8. \A p : (Left(p)' <=> Left(p)) /\ (Ends(p)' <=> Ends(p))
  BY <1>1, <1>2, <1>6 DEF Left, Ends
<1>9. ~WholeRead => read = frames
  <2> SUFFICES ASSUME ~WholeRead PROVE read = frames
    OBVIOUS
  <2>1. Len(read) <= Len(frames) /\ \A i \in 1..Len(read) : read[i] = frames[i]
    BY <1>1 DEF CopyInv, ReadInv
  <2>2. /\ read \in Seq(Frame) /\ frames \in Seq(Frame) /\ Len(read) \in Nat /\ Len(frames) \in Nat
    BY FrameTypes, CopyNats DEF LogTypeOK
  <2>3. Len(read) = Len(frames)
    BY <2>1, <2>2, <1>1
  <2> QED
    BY <2>1, <2>2, <2>3, SeqEqual
<1>10. BuildInv'
  <2> SUFFICES ASSUME seen.db = dbMt PROVE BuildInv'
    BY <1>1, <1>2 DEF BuildInv
  <2>1. \A p \in Page : LogHas(p) \/ ((out[p] = main[p] \/ Left(p)) /\ Ends(p))
    BY <1>1 DEF CopyInv, BuildInv
  <2>2. seen.wal = walMt =>
          /\ hdr = salt /\ read = frames
          /\ \A p \in Page : out[p] = db[p] \/ \E i \in pos + 1 .. mx : frames[i].pgno = p
    BY <1>1, <1>9 DEF CopyInv, BuildInv
  <2> QED
    BY <2>1, <2>2, <1>1, <1>2, <1>8 DEF BuildInv
<1> QED
  BY <1>2, <1>3, <1>4, <1>5, <1>7, <1>10 DEF CopyInv


\* While pages are written into it, the copy is of an older log than now.
LEMMA Rewriting ==
  ASSUME CopyTypeOK, CopyInv, ~MayRemove, step \in Building
  PROVE  /\ entry.db = dbMt => entry.wal # walMt
         /\ saved.db = dbMt => entry.db = dbMt /\ saved.wal # walMt
<1>1. /\ entry.db <= seen.db /\ seen.db <= dbMt /\ seen.wal <= walMt
      /\ saved.db = dbMt => entry.db = dbMt /\ saved.wal <= entry.wal
  BY DEF CopyInv, TimesInv, Building
<1>2. entry.db = seen.db => entry.wal < seen.wal
  BY DEF CopyInv, PathInv
<1> QED
  BY <1>1, <1>2, CopyNats

LEMMA WritePageKeeps ==
  ASSUME CopyTypeOK, CopyTypeOK', LogInv, HistoryInv, FreshInv, CopyInv, WritePage
  PROVE  LogInv' /\ HistoryInv' /\ FreshInv' /\ CopyInv'
<1> DEFINE f == read[pos + 1]
<1>1. /\ Stays /\ step = "write" /\ step' = "write" /\ pos' = pos + 1 /\ CommitAhead
      /\ out' = (IF f.salt = hdr THEN [out EXCEPT ![f.pgno] = f.ver] ELSE out)
      /\ UNCHANGED <<entry, saved, seen, hdr, read, moved>>
  BY DEF WritePage
<1>2. /\ LogInv' /\ HistoryInv' /\ FreshInv' /\ (Quiet' <=> Quiet)
      /\ UNCHANGED <<frames, salt, gen, mx, main, db, dbMt, walMt>>
      /\ \A p : LogHas(p)' <=> LogHas(p)
  BY <1>1, StaysLog
<1>3. TimesInv' /\ DatedInv'
  BY <1>1, <1>2, GoesOn
<1>4. /\ pos \in Nat /\ Len(read) \in Nat /\ mx \in Nat /\ pos + 1 \in 1..Len(read)
      /\ f.pgno \in Page /\ f.ver \in Nat
  <2>1. pos \in Nat /\ Len(read) \in Nat /\ mx \in Nat /\ read \in Seq(Frame)
    BY CopyNats DEF LogTypeOK
  <2>2. pos + 1 \in 1..Len(read)
    BY <2>1, <1>1 DEF CommitAhead
  <2>3. f \in Frame
    BY <2>1, <2>2, ElementOfSeq
  <2> QED
    BY <2>1, <2>2, <2>3 DEF Frame
<1>5. out \in [Page -> Nat]
  BY <1>1 DEF CopyInv, FileInv, CopyTypeOK
<1>6. f.salt = hdr <=> Takes(pos + 1)
  BY <1>1, <1>4 DEF CommitAhead, Takes
<1> HIDE DEF f
<1>7. /\ \A p \in Page : out'[p] = IF Takes(pos + 1) /\ f.pgno = p THEN f.ver ELSE out[p]
      /\ out' \in [Page -> Nat] /\ out' # NoFile
  <2>1. \A p \in Page : out'[p] = IF Takes(pos + 1) /\ f.pgno = p THEN f.ver ELSE out[p]
    BY <1>1, <1>4, <1>5, <1>6
  <2>2. out' \in [Page -> Nat]
    BY <1>1, <1>4, <1>5
  <2> QED
    BY <2>1, <2>2, FileIs
<1>8. FileInv' /\ PathInv'
  BY <1>1, <1>7 DEF CopyInv, FileInv, PathInv, Building
<1>9. \A i : Takes(i)' <=> Takes(i)
  BY <1>1 DEF Takes
<1>10. ReadInv /\ ReadInv'
  <2>1. ReadInv /\ pos' <= Len(read)
    BY <1>1, <1>4 DEF CopyInv
  <2> QED
    BY <2>1, <1>1, <1>2, <1>9 DEF ReadInv
<1>11. SoundInv'
  <2> SUFFICES ASSUME ~MayRemove PROVE Sound(entry)' /\ Sound(saved)'
    BY <1>1 DEF SoundInv
  <2>1. /\ entry.db = dbMt => entry.wal # walMt
        /\ saved.db = dbMt => entry.db = dbMt /\ saved.wal # walMt
    BY <1>1, Rewriting DEF Building
  <2>2. ASSUME entry.db = dbMt, NEW p \in Page PROVE out'[p] = main[p] \/ LogHas(p)
    <3>1. out[p] = main[p] \/ LogHas(p)
      BY <2>2, <1>1 DEF CopyInv, FileInv, SoundInv, Sound, Based
    <3>2. CASE Takes(pos + 1) /\ f.pgno = p
      <4>1. salt = hdr
        BY <3>2, <2>2, <1>1, <1>4, <1>10 DEF ReadInv
      <4>2. pos + 1 <= mx /\ f = frames[pos + 1]
        BY <3>2, <4>1, <1>1, <1>4, <1>10 DEF ReadInv, f
      <4> QED
        BY <4>2, <3>2, <1>4 DEF LogHas
    <3>3. CASE ~(Takes(pos + 1) /\ f.pgno = p)
      BY <3>1, <3>3, <1>7
    <3> QED
      BY <3>2, <3>3
  <2>3. entry.db = dbMt => Based'
    BY <2>2, <1>2 DEF Based
  <2> QED
    BY <2>1, <2>3, <1>1, <1>2 DEF Sound
<1>12. BuildInv'
  <2> SUFFICES ASSUME seen.db = dbMt
               PROVE  /\ \A p \in Page : LogHas(p) \/ ((out'[p] = main[p] \/ Left(p)') /\ Ends(p)')
                      /\ seen.wal = walMt =>
                           /\ hdr = salt /\ read = frames
                           /\ \A p \in Page : \/ out'[p] = db[p]
                                              \/ \E i \in pos' + 1 .. mx : frames[i].pgno = p
    BY <1>1, <1>2 DEF BuildInv
  <2>1. BuildInv
    BY DEF CopyInv
  <2>2. ASSUME NEW p \in Page, ~LogHas(p) PROVE (out'[p] = main[p] \/ Left(p)') /\ Ends(p)'
    <3>1. (out[p] = main[p] \/ Left(p)) /\ Ends(p)
      BY <2>1, <2>2, <1>1 DEF BuildInv
    <3>2. \A i \in pos' + 1 .. Len(read) : i \in pos + 1 .. Len(read)
      BY <1>1, <1>4
    <3>3. Ends(p)'
      BY <3>1, <3>2, <1>1, <1>2, <1>9 DEF Ends
    <3>4. CASE Takes(pos + 1) /\ f.pgno = p
      <4>1. CASE \E j \in pos + 2 .. Len(read) : Takes(j) /\ read[j].pgno = p
        <5>1. pos' + 1 = pos + 2
          BY <1>1, <1>4
        <5>2. Left(p)'
          BY <4>1, <5>1, <1>1, <1>9 DEF Left
        <5> QED
          BY <3>3, <5>2
      <4>2. CASE ~\E j \in pos + 2 .. Len(read) : Takes(j) /\ read[j].pgno = p
        <5>1. pos + 1 \in pos + 1 .. Len(read) /\ (pos + 1) + 1 = pos + 2
          BY <1>4
        <5>2. read[pos + 1].ver = main[p]
          BY <3>1, <3>4, <4>2, <5>1 DEF Ends, f
        <5> QED
          BY <5>2, <3>3, <3>4, <1>7 DEF f
      <4> QED
        BY <4>1, <4>2
    <3>5. CASE ~(Takes(pos + 1) /\ f.pgno = p)
      <4>1. out'[p] = out[p]
        BY <3>5, <1>7
      <4>2. ASSUME Left(p) PROVE Left(p)'
        <5>1. PICK i \in pos + 1 .. Len(read) : Takes(i) /\ read[i].pgno = p
          BY <4>2 DEF Left
        <5>2. i # pos + 1
          BY <5>1, <3>5 DEF f
        <5>3. i \in pos' + 1 .. Len(read)
          BY <5>2, <1>1, <1>4
        <5> QED
          BY <5>1, <5>3, <1>1, <1>9 DEF Left
      <4> QED
        BY <4>1, <4>2, <3>1, <3>3
    <3> QED
      BY <3>4, <3>5
  <2>3. ASSUME seen.wal = walMt
        PROVE  /\ hdr = salt /\ read = frames
               /\ \A p \in Page : \/ out'[p] = db[p]
                                  \/ \E i \in pos' + 1 .. mx : frames[i].pgno = p
    <3>1. /\ hdr = salt /\ read = frames
          /\ \A p \in Page : out[p] = db[p] \/ \E i \in pos + 1 .. mx : frames[i].pgno = p
      BY <2>1, <2>3, <1>1 DEF BuildInv
    <3>2. ASSUME NEW p \in Page, \A i \in pos' + 1 .. mx : frames[i].pgno # p
          PROVE  out'[p] = db[p]
      <4>1. CASE Takes(pos + 1) /\ f.pgno = p
        <5>1. pos + 1 \in 1..mx
          BY <4>1, <3>1, <1>1, <1>4, <1>10 DEF ReadInv
        <5>2. frames[pos + 1] = f /\ \A j \in (pos + 1) + 1 .. mx : frames[j].pgno # p
          BY <3>1, <3>2, <1>1 DEF f
        <5>3. f.ver = db[p]
          BY <4>1, <5>1, <5>2, LastIsCurrent DEF CopyTypeOK
        <5> QED
          BY <4>1, <5>3, <1>7
      <4>2. CASE ~(Takes(pos + 1) /\ f.pgno = p)
        <5>1. out'[p] = out[p]
          BY <4>2, <1>7
        <5>2. ASSUME NEW i \in pos + 1 .. mx, frames[i].pgno = p PROVE FALSE
          <6>1. i = pos + 1
            BY <5>2, <3>2, <1>1, <1>4
          <6>2. Takes(pos + 1)
            BY <6>1, <5>2, <3>1, <1>4, CommittedTaken
          <6> QED
            BY <6>1, <6>2, <5>2, <4>2, <3>1 DEF f
        <5> QED
          BY <5>1, <5>2, <3>1
      <4> QED
        BY <4>1, <4>2
    <3> QED
      BY <3>1, <3>2
  <2> QED
    BY <2>2, <2>3
<1> QED
  BY <1>2, <1>3, <1>8, <1>10, <1>11, <1>12 DEF CopyInv

LEMMA WriteDoneKeeps ==
  ASSUME CopyTypeOK, LogInv, HistoryInv, FreshInv, CopyInv, WriteDone
  PROVE  LogInv' /\ HistoryInv' /\ FreshInv' /\ CopyInv'
<1>1. /\ Stays /\ step = "write" /\ step' = "store" /\ pos' = 0 /\ ~CommitAhead
      /\ UNCHANGED <<out, entry, saved, seen, moved>>
  BY DEF WriteDone, To, fileVars
<1>2. /\ LogInv' /\ HistoryInv' /\ FreshInv' /\ (Quiet' <=> Quiet)
      /\ UNCHANGED <<frames, salt, gen, mx, main, db, dbMt, walMt>>
      /\ \A p : LogHas(p)' <=> LogHas(p)
  BY <1>1, StaysLog
<1>3. TimesInv' /\ DatedInv'
  BY <1>1, <1>2, GoesOn
<1>4. FileInv' /\ PathInv' /\ ReadInv'
  BY <1>1 DEF CopyInv, FileInv, PathInv, ReadInv, Building
<1>5. SoundInv' /\ (Based' <=> Based)
  BY <1>1, <1>2, SoundStays
<1>6. pos \in Nat /\ Len(read) \in Nat /\ mx \in Nat
  BY CopyNats DEF LogTypeOK
<1>7. \A i \in pos + 1 .. Len(read) : ~Takes(i)
  <2> SUFFICES ASSUME NEW i \in pos + 1 .. Len(read), Takes(i) PROVE FALSE
    OBVIOUS
  <2>1. PICK n \in i..Len(read) : read[n].salt = hdr /\ read[n].commit # 0
    BY DEF Takes
  <2>2. n \in pos + 1 .. Len(read)
    BY <1>6
  <2> QED
    BY <2>1, <2>2, <1>1 DEF CommitAhead
<1>8. seen.db = dbMt => Based /\ (seen.wal = walMt => out = db)
  <2> SUFFICES ASSUME seen.db = dbMt PROVE Based /\ (seen.wal = walMt => out = db)
    OBVIOUS
  <2>1. /\ \A p \in Page : LogHas(p) \/ out[p] = main[p] \/ Left(p)
        /\ seen.wal = walMt =>
             /\ hdr = salt /\ read = frames
             /\ \A p \in Page : out[p] = db[p] \/ \E i \in pos + 1 .. mx : frames[i].pgno = p
    BY <1>1 DEF CopyInv, BuildInv
  <2>2. Based
    BY <2>1, <1>7 DEF Based, Left
  <2>3. ASSUME seen.wal = walMt PROVE out = db
    <3>1. \A i \in pos + 1 .. mx : FALSE
      <4> SUFFICES ASSUME NEW i \in pos + 1 .. mx PROVE FALSE
        OBVIOUS
      <4>1. i \in 1..mx
        BY <1>6
      <4>2. i \in 1..Len(read) /\ Takes(i)
        BY <4>1, <2>1, <2>3, CommittedTaken
      <4>3. i \in pos + 1 .. Len(read)
        BY <4>2, <1>6
      <4> QED
        BY <4>2, <4>3, <1>7
    <3>2. \A p \in Page : out[p] = db[p]
      BY <3>1, <2>1, <2>3
    <3>3. out \in [Page -> Nat] /\ db \in [Page -> Nat]
      BY <1>1, HistTypes DEF CopyInv, FileInv, CopyTypeOK, HistoryInv
    <3> QED
      BY <3>2, <3>3
  <2> QED
    BY <2>2, <2>3
<1>9. BuildInv'
  BY <1>1, <1>2, <1>5, <1>8 DEF BuildInv
<1> QED
  BY <1>2, <1>3, <1>4, <1>5, <1>9 DEF CopyInv

LEMMA StoreKeeps ==
  ASSUME CopyTypeOK, LogInv, HistoryInv, FreshInv, CopyInv, Store
  PROVE  LogInv' /\ HistoryInv' /\ FreshInv' /\ CopyInv'
<1>1. /\ Stays /\ step = "store" /\ step' = "save" /\ entry' = seen
      /\ UNCHANGED <<out, saved, seen, pos, moved>>
  BY DEF Store, To
<1>2. /\ LogInv' /\ HistoryInv' /\ FreshInv' /\ (Quiet' <=> Quiet)
      /\ UNCHANGED <<mx, main, db, dbMt, walMt>> /\ \A p : LogHas(p)' <=> LogHas(p)
  BY <1>1, StaysLog
<1>3. /\ seen.db <= dbMt /\ seen.wal <= walMt /\ saved.db <= seen.db /\ saved.wal <= seen.wal
      /\ 1 <= seen.db /\ 1 <= dbMt /\ saved.db <= dbMt /\ saved.wal <= walMt
      /\ ~moved => seen.db = dbMt /\ seen.wal = walMt
  BY <1>1 DEF CopyInv, TimesInv
<1>4. saved.db = dbMt => seen.db = dbMt
  BY <1>3, CopyNats
<1>5. TimesInv'
  BY <1>1, <1>2, <1>3, <1>4, CopyNats DEF TimesInv
<1>6. FileInv' /\ PathInv' /\ ReadInv' /\ pos = 0
  BY <1>1 DEF CopyInv, FileInv, PathInv, ReadInv, Building
<1>7. DatedInv'
  BY <1>1, <1>2 DEF CopyInv, DatedInv, Dated
<1>8. Based' <=> Based
  BY <1>1, <1>2 DEF Based
<1>9. seen.db = dbMt => Based /\ (seen.wal = walMt => out = db)
  BY <1>1 DEF CopyInv, BuildInv
<1>10. SoundInv'
  BY <1>1, <1>2, <1>8, <1>9 DEF CopyInv, SoundInv, Sound
<1>11. BuildInv'
  BY <1>1 DEF BuildInv
<1> QED
  BY <1>2, <1>5, <1>6, <1>7, <1>10, <1>11 DEF CopyInv

LEMMA SaveKeeps ==
  ASSUME CopyTypeOK, LogInv, HistoryInv, FreshInv, CopyInv, Save
  PROVE  LogInv' /\ HistoryInv' /\ FreshInv' /\ CopyInv'
<1>1. /\ Stays /\ step = "save" /\ step' = "reply" /\ saved' \in {entry, saved, NoEntry}
      /\ UNCHANGED <<out, entry, seen, pos, moved>>
  BY DEF Save, To
<1>2. /\ LogInv' /\ HistoryInv' /\ FreshInv' /\ (Quiet' <=> Quiet)
      /\ UNCHANGED <<mx, main, db, dbMt, walMt>> /\ \A p : LogHas(p)' <=> LogHas(p)
  BY <1>1, StaysLog
<1>3. NoEntry.db = 0 /\ NoEntry.wal = 0 /\ 1 <= dbMt /\ NoEntry.db # dbMt
  BY CopyNats DEF NoEntry, CopyInv, TimesInv
<1>4. /\ saved'.db <= dbMt /\ saved'.wal <= walMt /\ saved'.db <= seen.db /\ saved'.wal <= seen.wal
      /\ saved'.db = dbMt => entry.db = dbMt /\ saved'.wal <= entry.wal
  BY <1>1, <1>3, CopyNats DEF CopyInv, TimesInv
<1>5. TimesInv'
  BY <1>1, <1>2, <1>4 DEF CopyInv, TimesInv
<1>6. FileInv' /\ PathInv' /\ ReadInv' /\ BuildInv'
  BY <1>1 DEF CopyInv, FileInv, PathInv, ReadInv, BuildInv, Building
<1>7. DatedInv'
  BY <1>1, <1>2, <1>3 DEF CopyInv, DatedInv, Dated
<1>8. Based' <=> Based
  BY <1>1, <1>2 DEF Based
<1>9. SoundInv'
  BY <1>1, <1>2, <1>3, <1>8 DEF CopyInv, SoundInv, Sound
<1> QED
  BY <1>2, <1>5, <1>6, <1>7, <1>9 DEF CopyInv

LEMMA DropKeeps ==
  ASSUME CopyAssumption, CopyTypeOK, LogInv, HistoryInv, FreshInv, CopyInv, Return \/ Fail
  PROVE  LogInv' /\ HistoryInv' /\ FreshInv' /\ CopyInv'
<1>1. /\ Stays /\ step' = "idle" /\ seen' = NoEntry /\ pos' = 0 /\ moved' = FALSE
      /\ UNCHANGED <<out, entry, saved>>
  BY DEF Return, Fail, Drop, To, fileVars
<1>2. /\ LogInv' /\ HistoryInv' /\ FreshInv' /\ (Quiet' <=> Quiet)
      /\ UNCHANGED <<mx, main, db, dbMt, walMt>> /\ \A p : LogHas(p)' <=> LogHas(p)
  BY <1>1, StaysLog
<1>3. NoEntry.db = 0 /\ NoEntry.wal = 0
  BY DEF NoEntry
<1>4. TimesInv'
  BY <1>1, <1>2, <1>3, CopyNats DEF CopyInv, TimesInv
<1>5. FileInv' /\ PathInv' /\ ReadInv' /\ BuildInv'
  BY <1>1 DEF CopyInv, FileInv, PathInv, ReadInv, BuildInv, Building
<1>6. DatedInv'
  BY <1>1, <1>2 DEF CopyInv, DatedInv, Dated
<1>7. Based' <=> Based
  BY <1>1, <1>2 DEF Based
<1>8. Sound(entry) /\ (~MayRemove => Sound(saved))
  BY DEF Return, Fail, CopyAssumption, CopyInv, SoundInv
<1>9. SoundInv'
  BY <1>1, <1>2, <1>7, <1>8 DEF SoundInv, Sound
<1> QED
  BY <1>2, <1>4, <1>5, <1>6, <1>9 DEF CopyInv

LEMMA CrashKeeps ==
  ASSUME CopyAssumption, CopyTypeOK, LogInv, HistoryInv, FreshInv, CopyInv, Crash
  PROVE  LogInv' /\ HistoryInv' /\ FreshInv' /\ CopyInv'
<1>1. /\ Stays /\ step' = "idle" /\ seen' = NoEntry /\ pos' = 0 /\ moved' = FALSE /\ out' = out
      /\ saved' \in {saved, NoEntry} /\ entry' = Reloaded(saved') /\ ~MayRemove
  BY DEF Crash, Drop, To, CopyAssumption
<1>2. /\ LogInv' /\ HistoryInv' /\ FreshInv' /\ (Quiet' <=> Quiet)
      /\ UNCHANGED <<mx, main, db, dbMt, walMt>> /\ \A p : LogHas(p)' <=> LogHas(p)
  BY <1>1, StaysLog
<1>3. NoEntry.db = 0 /\ NoEntry.wal = 0 /\ 1 <= dbMt /\ NoEntry.db # dbMt
  BY CopyNats DEF NoEntry, CopyInv, TimesInv
<1>4. /\ entry' \in {saved', NoEntry}
      /\ saved'.db = dbMt => entry' = saved'
      /\ out = NoFile => saved' = NoEntry
  <2>1. out = NoFile => saved' = NoEntry
    BY <1>1 DEF CopyInv, FileInv
  <2> QED
    BY <2>1, <1>1, <1>3 DEF Reloaded, Reusable
<1>5. /\ saved'.db <= dbMt /\ saved'.wal <= walMt /\ entry'.db <= dbMt /\ entry'.wal <= walMt
  BY <1>1, <1>3, <1>4, CopyNats DEF CopyInv, TimesInv
<1>6. saved'.wal \in Nat
  BY <1>1, <1>3, CopyNats
<1>7. TimesInv'
  BY <1>1, <1>2, <1>3, <1>4, <1>5, <1>6, CopyNats DEF TimesInv
<1>8. FileInv' /\ PathInv' /\ ReadInv' /\ BuildInv'
  BY <1>1, <1>4 DEF FileInv, PathInv, ReadInv, BuildInv, Building
<1>9. DatedInv'
  BY <1>1, <1>2, <1>3, <1>4 DEF CopyInv, DatedInv, Dated
<1>10. Based' <=> Based
  BY <1>1, <1>2 DEF Based
<1>11. SoundInv'
  BY <1>1, <1>2, <1>3, <1>4, <1>10 DEF CopyInv, SoundInv, Sound
<1> QED
  BY <1>2, <1>7, <1>8, <1>9, <1>11 DEF CopyInv

-----------------------------------------------------------------------------
CopyIInv == CopyTypeOK /\ LogInv /\ HistoryInv /\ FreshInv /\ CopyInv

LEMMA CopyStep ==
  ASSUME CopyAssumption, CopyIInv, [CopyNext]_copyVars
  PROVE  CopyIInv'
<1> USE DEF CopyIInv
<1>1. CopyTypeOK'
  BY CopyStepType
<1>2. CASE Write
  BY <1>1, <1>2, WriteKeeps
<1>3. CASE CleanUp
  BY <1>1, <1>3, CleanUpKeeps
<1>4. CASE StatDb \/ StatWal
  BY <1>1, <1>4, StatDbKeeps, StatWalKeeps
<1>5. CASE OpenMain \/ CopyPage
  BY <1>1, <1>5, CopyingKeeps
<1>6. CASE CopyDone \/ NoLog
  BY <1>1, <1>6, CopyDoneKeeps, NoLogKeeps
<1>7. CASE ReadHeader \/ ReadFrame \/ ReadDone
  BY <1>1, <1>7, ReadHeaderKeeps, ReadFrameKeeps, ReadDoneKeeps
<1>8. CASE WritePage \/ WriteDone
  BY <1>1, <1>8, WritePageKeeps, WriteDoneKeeps
<1>9. CASE Store \/ Save
  BY <1>1, <1>9, StoreKeeps, SaveKeeps
<1>10. CASE Return \/ Fail
  BY <1>1, <1>10, DropKeeps
<1>11. CASE Crash
  BY <1>1, <1>11, CrashKeeps
<1>12. CASE UNCHANGED copyVars
  <2>1. Stays /\ UNCHANGED <<out, entry, saved, step, seen, pages, copied, hdr, read, pos, moved>>
    BY <1>12 DEF copyVars, Stays, fileVars, callVars
  <2>2. /\ LogInv' /\ HistoryInv' /\ FreshInv' /\ (Quiet' <=> Quiet)
        /\ UNCHANGED <<frames, salt, gen, mx, main, db, dbMt, walMt>>
        /\ Size(main)' = Size(main) /\ \A p : LogHas(p)' <=> LogHas(p)
    BY <2>1, StaysLog
  <2>3. \A i : Takes(i)' <=> Takes(i)
    BY <2>1 DEF Takes
  <2>4. /\ Based' <=> Based
        /\ WholeCopied' <=> WholeCopied
        /\ \A p : (Left(p)' <=> Left(p)) /\ (Ends(p)' <=> Ends(p))
    BY <2>1, <2>2, <2>3 DEF Based, WholeCopied, Left, Ends
  <2>5. TimesInv' /\ FileInv' /\ PathInv'
    BY <2>1, <2>2 DEF CopyInv, TimesInv, FileInv, PathInv, Building
  <2>6. DatedInv' /\ SoundInv'
    BY <2>1, <2>2, <2>4 DEF CopyInv, DatedInv, Dated, SoundInv, Sound
  <2>7. ReadInv'
    BY <2>1, <2>2, <2>3 DEF CopyInv, ReadInv
  <2>8. BuildInv'
    <3>1. BuildInv /\ Size(main') = Size(main)
      BY <2>2 DEF CopyInv
    <3> QED
      BY <3>1, <2>1, <2>2, <2>4 DEF BuildInv
  <2> QED
    BY <1>1, <2>2, <2>5, <2>6, <2>7, <2>8 DEF CopyInv
<1> QED
  BY <1>2, <1>3, <1>4, <1>5, <1>6, <1>7, <1>8, <1>9, <1>10, <1>11, <1>12 DEF CopyNext, Call

LEMMA CopyInitIInv == CopyInit => CopyIInv
<1> SUFFICES ASSUME CopyInit PROVE CopyIInv
  OBVIOUS
<1>1. LogInit
  BY DEF CopyInit
<1> QED
  BY <1>1, CopyInitType, InitLog, InitHistory, CopyInitInv DEF CopyIInv

LEMMA Exact ==
  ASSUME CopyIInv
  PROVE  ReplyExact /\ HitExact
<1>1. CopyTypeOK /\ CopyInv
  BY DEF CopyIInv
<1>2. ReplyExact
  <2> SUFFICES ASSUME step = "reply", ~moved PROVE out = db
    BY DEF ReplyExact
  <2>1. entry = seen /\ seen.db = dbMt /\ seen.wal = walMt /\ out # NoFile
    BY <1>1 DEF CopyInv, TimesInv, PathInv, FileInv
  <2> QED
    BY <2>1, <1>1 DEF CopyInv, SoundInv, Sound
<1>3. HitExact
  BY <1>1 DEF CopyInv, SoundInv, Sound, HitExact
<1> QED
  BY <1>2, <1>3

\* Every state of the copy's calls is well typed, whatever may fail.
THEOREM CopyTypeCorrect == CopySpec => []CopyTypeOK
<1>1. CopyTypeOK /\ [CopyNext]_copyVars => CopyTypeOK'
  BY CopyStepType
<1> QED
  BY <1>1, CopyInitType, PTL DEF CopySpec

\* ReplyExact: a call during which WeChat wrote nothing returns the committed
\* database, whichever of the three paths it took (cache.rs:260-268), with crashes
\* between any two steps and failures at any page before it.
THEOREM CopyExact ==
  ASSUME CopyAssumption
  PROVE  CopySpec => []ReplyExact
<1>1. CopyIInv /\ [CopyNext]_copyVars => CopyIInv'
  BY CopyStep
<1>2. CopyIInv => ReplyExact
  BY Exact
<1> QED
  BY <1>1, <1>2, CopyInitIInv, PTL DEF CopySpec

\* HitExact: between calls, an entry with the times of the files stands for a copy
\* of the committed database (cache.rs:329-335).
THEOREM CopyHit ==
  ASSUME CopyAssumption
  PROVE  CopySpec => []HitExact
<1>1. CopyIInv /\ [CopyNext]_copyVars => CopyIInv'
  BY CopyStep
<1>2. CopyIInv => HitExact
  BY Exact
<1> QED
  BY <1>1, <1>2, CopyInitIInv, PTL DEF CopySpec
=============================================================================
