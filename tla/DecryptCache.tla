---------------------------- MODULE DecryptCache ----------------------------
(***************************************************************************)
(* src/daemon/cache.rs DbCache::get_with_mode with src/crypto/wal.rs and   *)
(* src/crypto/mod.rs: the plaintext copy of one database, made by          *)
(* full_decrypt, brought up to date by apply_wal, and reused while the     *)
(* modification times of the database and of its log are the ones of the  *)
(* moment it was made.  The entry is saved with the copy for the next     *)
(* daemon.  Since the VFS took over, only the oracle tests call it, one    *)
(* call at a time; the writer inside WeChat moves between any two steps.  *)
(***************************************************************************)
EXTENDS WalLog

CONSTANTS
  MayCrash,   \* BOOLEAN: the process may stop at any step and start again
  MayFail,    \* BOOLEAN: reading or writing a page may fail
  MayRemove,  \* BOOLEAN: the copy may be deleted (a cleaned cache directory)
  WholeRead   \* BOOLEAN: the log is read in one piece, no write falls in between

VARIABLES
  dbMt,    \* modification time of the database file
  walMt,   \* modification time of the -wal file
  out,     \* the plaintext copy
  entry,   \* the entry of DbCache.inner
  saved,   \* the entry in the mtime file
  step,    \* where the call is
  seen,    \* the two times as the call read them
  pages,   \* pages of the main file when full_decrypt took its length
  copied,  \* pages full_decrypt has written
  hdr,     \* the salt of the header as apply_wal read it
  read,    \* the frames apply_wal has read
  pos,     \* how many of them it has gone through
  moved    \* history: the writer has moved since the call began

callVars == <<step, seen, pages, copied, hdr, read, pos>>
fileVars == <<out, entry, saved>>
copyVars == <<logVars, dbMt, walMt, fileVars, callVars, moved>>

NoFile == <<>>
NoEntry == [db |-> 0, wal |-> 0]
Blank == [p \in Page |-> 0]

CopyInit ==
  /\ LogInit
  /\ dbMt = 1 /\ walMt = 0
  /\ out = NoFile /\ entry = NoEntry /\ saved = NoEntry
  /\ step = "idle" /\ seen = NoEntry
  /\ pages = 0 /\ copied = 0 /\ hdr = 0 /\ read = <<>> /\ pos = 0
  /\ moved = FALSE

\* WeChat writes: the time of every file it changes goes up.
Write ==
  /\ LogNext
  /\ dbMt' = IF main' # main THEN dbMt + 1 ELSE dbMt
  /\ walMt' = IF <<frames', salt'>> # <<frames, salt>> THEN walMt + 1 ELSE walMt
  /\ moved' = (step # "idle")
  /\ UNCHANGED <<fileVars, callVars>>

CleanUp ==
  /\ MayRemove
  /\ step = "idle"
  /\ out # NoFile
  /\ out' = NoFile
  /\ UNCHANGED <<logVars, dbMt, walMt, entry, saved, callVars, moved>>

-----------------------------------------------------------------------------
(* The call. *)

To(s) == step' = s

Stays == UNCHANGED <<logVars, dbMt, walMt>>

\* The call ends: what it held is gone.
Drop ==
  /\ To("idle")
  /\ seen' = NoEntry
  /\ pages' = 0 /\ copied' = 0 /\ hdr' = 0 /\ read' = <<>> /\ pos' = 0
  /\ moved' = FALSE

\* The time of the database file is read first.
StatDb ==
  /\ step = "idle"
  /\ To("stat")
  /\ seen' = [db |-> dbMt, wal |-> 0]
  /\ moved' = FALSE
  /\ Stays
  /\ UNCHANGED <<fileVars, pages, copied, hdr, read, pos>>

\* Then the time of the log, and the entry decides between the three paths.
Reusable(e, t) == out # NoFile /\ e.db = t.db

\* Mutant: the entry is judged by the database file alone.
PathByDb(e, t) == IF Reusable(e, t) THEN "reply" ELSE "full"

Path(e, t) ==
  CASE Reusable(e, t) /\ e.wal = t.wal -> "reply"    \* Path 1: CacheHit
    [] Reusable(e, t) /\ e.wal # t.wal -> "log"      \* Path 2: WalIncremental
    [] OTHER -> "full"                               \* Path 3: FullDecrypt

StatWal ==
  /\ step = "stat"
  /\ seen' = [seen EXCEPT !.wal = walMt]
  /\ To(Path(entry, seen'))
  /\ Stays
  /\ UNCHANGED <<fileVars, pages, copied, hdr, read, pos, moved>>

\* full_decrypt: the length is taken once, the copy is truncated ...
OpenMain ==
  /\ step = "full"
  /\ pages' = Size(main)
  /\ copied' = 0
  /\ out' = Blank
  /\ To("copy")
  /\ Stays
  /\ UNCHANGED <<entry, saved, seen, hdr, read, pos, moved>>

\* ... and one page at a time is decrypted into it.
CopyPage ==
  /\ step = "copy"
  /\ copied < pages
  /\ out' = [out EXCEPT ![copied + 1] = main[copied + 1]]
  /\ copied' = copied + 1
  /\ Stays
  /\ UNCHANGED <<entry, saved, step, seen, pages, hdr, read, pos, moved>>

CopyDone ==
  /\ step = "copy"
  /\ copied = pages
  /\ To("log")
  /\ pages' = 0 /\ copied' = 0
  /\ Stays
  /\ UNCHANGED <<fileVars, seen, hdr, read, pos, moved>>

\* apply_wal: no log, or an empty one, is nothing to apply.
NoLog ==
  /\ step = "log"
  /\ salt = 0
  /\ To("store")
  /\ Stays
  /\ UNCHANGED <<fileVars, seen, pages, copied, hdr, read, pos, moved>>

\* The file is read from its header to its end while WeChat may write it.
ReadHeader ==
  /\ step = "log"
  /\ salt # 0
  /\ hdr' = salt
  /\ read' = IF WholeRead THEN frames ELSE <<>>
  /\ To("read")
  /\ Stays
  /\ UNCHANGED <<fileVars, seen, pages, copied, pos, moved>>

ReadFrame ==
  /\ step = "read"
  /\ ~WholeRead
  /\ Len(read) < Len(frames)
  /\ read' = Append(read, frames[Len(read) + 1])
  /\ Stays
  /\ UNCHANGED <<fileVars, step, seen, pages, copied, hdr, pos, moved>>

\* Mutant: the frames of a transaction that is still being written count too.
CommitAheadAny == \E i \in pos + 1 .. Len(read) : read[i].salt = hdr

\* Of the frames with the header's salt, those up to the last commit frame are applied.
CommitAhead == \E i \in pos + 1 .. Len(read) : read[i].salt = hdr /\ read[i].commit # 0

ReadDone ==
  /\ step = "read"
  /\ WholeRead \/ Len(read) >= Len(frames)
  /\ out # NoFile
  /\ To("write")
  /\ Stays
  /\ UNCHANGED <<fileVars, seen, pages, copied, hdr, read, pos, moved>>

\* The pages are written into the copy in place, one after the other; a frame of an
\* older generation is passed over.
WritePage ==
  /\ step = "write"
  /\ CommitAhead
  /\ LET f == read[pos + 1]
     IN out' = IF f.salt = hdr THEN [out EXCEPT ![f.pgno] = f.ver] ELSE out
  /\ pos' = pos + 1
  /\ Stays
  /\ UNCHANGED <<entry, saved, step, seen, pages, copied, hdr, read, moved>>

WriteDone ==
  /\ step = "write"
  /\ ~CommitAhead
  /\ hdr' = 0 /\ read' = <<>> /\ pos' = 0
  /\ To("store")
  /\ Stays
  /\ UNCHANGED <<fileVars, seen, pages, copied, moved>>

\* A failed read or write ends the call with an error; the entry stays.
Fail ==
  /\ MayFail
  /\ step \in {"copy", "read", "write"}
  /\ Drop
  /\ Stays
  /\ UNCHANGED fileVars

\* Mutant: the entry takes the times of the end of the work.
StoreLate ==
  /\ step = "store"
  /\ entry' = [db |-> dbMt, wal |-> walMt]
  /\ To("save")
  /\ Stays
  /\ UNCHANGED <<out, saved, seen, pages, copied, hdr, read, pos, moved>>

\* The entry keeps the times read before the work began.
Store ==
  /\ step = "store"
  /\ entry' = seen
  /\ To("save")
  /\ Stays
  /\ UNCHANGED <<out, saved, seen, pages, copied, hdr, read, pos, moved>>

\* save_persistent; a failure is ignored, and may leave half a file.
Save ==
  /\ step = "save"
  /\ saved' \in {entry, saved, NoEntry}
  /\ To("reply")
  /\ Stays
  /\ UNCHANGED <<out, entry, seen, pages, copied, hdr, read, pos, moved>>

Return ==
  /\ step = "reply"
  /\ Drop
  /\ Stays
  /\ UNCHANGED fileVars

\* Mutant: the saved entry is taken up with the present time of the log.
ReloadedFresh(e) == IF Reusable(e, [db |-> dbMt, wal |-> walMt])
                    THEN [e EXCEPT !.wal = walMt] ELSE NoEntry

\* load_persistent: the database file must not have changed; the log may have.
Reloaded(e) == IF Reusable(e, [db |-> dbMt, wal |-> walMt]) THEN e ELSE NoEntry

\* The process stops, also in the middle of a save, and a new one starts.
Crash ==
  /\ MayCrash
  /\ saved' \in IF step = "save" THEN {saved, NoEntry} ELSE {saved}
  /\ entry' = Reloaded(saved')
  /\ Drop
  /\ Stays
  /\ UNCHANGED out

Call ==
  \/ StatDb \/ StatWal
  \/ OpenMain \/ CopyPage \/ CopyDone
  \/ NoLog \/ ReadHeader \/ ReadFrame \/ ReadDone \/ WritePage \/ WriteDone
  \/ Fail
  \/ Store \/ Save \/ Return

CopyNext == Write \/ CleanUp \/ Call \/ Crash

CopySpec == CopyInit /\ [][CopyNext]_copyVars

-----------------------------------------------------------------------------
CopyTypeOK ==
  /\ LogTypeOK
  /\ dbMt \in Nat /\ walMt \in Nat
  /\ out \in [Page -> Nat] \cup {NoFile}
  /\ entry \in [db : Nat, wal : Nat] /\ saved \in [db : Nat, wal : Nat]
  /\ step \in {"idle", "stat", "full", "copy", "log", "read", "write", "store", "save", "reply"}
  /\ seen \in [db : Nat, wal : Nat]
  /\ pages \in 0..LastPage /\ copied \in 0..LastPage
  /\ hdr \in Nat /\ read \in Seq(Frame) /\ pos \in Nat
  /\ moved \in BOOLEAN

\* A call during which WeChat wrote nothing returns the committed database,
\* whichever of the three paths it took and whatever crashes, half-written
\* copies and half-saved entries came before it (cache.rs:260-268).
ReplyExact == step = "reply" /\ ~moved => out = db

\* Between calls, an entry whose two times are still those of the files stands
\* for a copy of the committed database: the test cache.rs:329-335 relies on,
\* although the times were read before the pages and the log.
HitExact ==
  step \in {"idle", "stat"} /\ out # NoFile /\ entry = [db |-> dbMt, wal |-> walMt] => out = db
=============================================================================
