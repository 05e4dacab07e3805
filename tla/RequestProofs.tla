--------------------------- MODULE RequestProofs ---------------------------
(***************************************************************************)
(* Of a request's way from the terminal to its answer:                     *)
(*   - no query is answered before the contacts are there, for any number  *)
(*     of terminals and daemons, through crashes, stops, interruptions,    *)
(*     orphans and deadlines passed over, as long as contact.db can be     *)
(*     read; with one terminal that waits long enough, and until a command *)
(*     is cut off, a stop ends the daemon it stops, and an init takes      *)
(*     effect (DaemonLifecycle);                                           *)
(*   - the names in it mean, and are, those of the right contacts          *)
(*     (Directory);                                                        *)
(*   - the picture extracted is the message's own (Attachments);           *)
(*   - a list shows the newest rows, and statistics add up (Listings).     *)
(***************************************************************************)
EXTENDS DaemonLifecycle, Directory, Attachments, Listings,
        FiniteSetTheorems, SequenceTheorems, NaturalsInduction, WellFoundedInduction, TLAPS

(* DaemonLifecycle.                                                        *)

Steps == {"idle", "ping", "spawn", "wait", "pid", "connect", "await", "answered",
          "readPid", "stopPing", "judge", "exitWait", "pingWait", "cleanSock", "cleanPid",
          "stopped"}

\* names_arc is empty or whole; whoever waits for an answer is connected to a
\* daemon, even when that is dead or the socket file names another.
Connected ==
  /\ names \in [Daemon -> {"loading", "ready"}]
  /\ pc \in [Cli -> Steps]
  /\ peer \in [Cli -> Daemon \cup {Nobody}]
  /\ \A c \in Cli : pc[c] = "await" => peer[c] \in Daemon

LEMMA ConnectedInit == Init => Connected
BY DEF Init, Connected, Steps

LEMMA ConnectedDaemon ==
  ASSUME Connected, LoadMayFail = FALSE, NEW d \in Daemon, DaemonNext(d) \/ Crash(d)
  PROVE  Connected'
<1>1. UNCHANGED <<pc, peer>>
  BY DEF DaemonNext, LoadConfig, LoadNames, RemoveOldSocket, Bind, Chmod, CleanSock,
         CleanPid, Crash, commands
<1>2. names' \in [Daemon -> {"loading", "ready"}]
  <2>1. CASE LoadNames(d)
    BY <2>1 DEF LoadNames, Connected
  <2>2. CASE CleanPid(d) \/ Crash(d)
    BY <2>2 DEF CleanPid, Crash, Dies, Connected
  <2>3. CASE LoadConfig(d) \/ RemoveOldSocket(d) \/ Bind(d) \/ Chmod(d) \/ CleanSock(d)
    BY <2>3 DEF LoadConfig, RemoveOldSocket, Bind, Chmod, CleanSock, Connected
  <2> QED BY <2>1, <2>2, <2>3 DEF DaemonNext
<1> QED BY <1>1, <1>2 DEF Connected

LEMMA ConnectedQuery ==
  ASSUME Connected, NEW c \in Cli,
         BeginQuery(c) \/ Query(c) \/ Finish(c) \/ Interrupt(c)
  PROVE  Connected'
<1> USE DEF Connected, Steps, daemons, Goto
<1>1. CASE BeginQuery(c) \/ Ping(c) \/ Spawn(c) \/ WaitAlive(c) \/ WritePid(c)
  BY <1>1 DEF BeginQuery, Begin, Ping, Spawn, WaitAlive, WritePid
<1>2. CASE WaitTimesOut(c) \/ ReplyLost(c) \/ Finish(c) \/ Interrupt(c)
  BY <1>2 DEF WaitTimesOut, ReplyLost, Finish, Interrupt, End
<1>3. CASE Connect(c)
  <2>1. UNCHANGED names /\ pc[c] = "connect"
    BY <1>3 DEF Connect
  <2>2. CASE \E d \in Answering : peer' = [peer EXCEPT ![c] = d] /\ Goto(c, "await")
    BY <2>1, <2>2 DEF Answering
  <2>3. CASE Answering = {}
    BY <1>3, <2>1, <2>3 DEF Connect, End
  <2> QED BY <1>3, <2>2, <2>3 DEF Connect
<1>4. CASE Answered(c) \/ WarmingUp(c)
  BY <1>4 DEF Answered, WarmingUp, End
<1> QED BY <1>1, <1>2, <1>3, <1>4 DEF Query

LEMMA ConnectedStop ==
  ASSUME Connected, NEW c \in Cli, BeginStop(c) \/ BeginInit(c) \/ Stop(c)
  PROVE  Connected'
<1> USE DEF Connected, Steps, daemons, Goto
<1>1. CASE BeginStop(c) \/ BeginInit(c)
  BY <1>1 DEF BeginStop, BeginInit, Begin
<1>2. CASE StopPing(c)
  <2>1. Answering = {} \/ (CHOOSE d \in Answering : TRUE) \in Daemon
    BY DEF Answering
  <2> QED BY <1>2, <2>1 DEF StopPing
<1>3. CASE ReadPid(c) \/ Exited(c) \/ PingGone(c) \/ StopCleansSock(c) \/ StopCleansPid(c)
  BY <1>3 DEF ReadPid, Exited, PingGone, StopCleansSock, StopCleansPid
<1>4. CASE Judge(c)
  BY <1>4 DEF Judge, Dies, StopFails, End
<1>5. CASE ExitTimesOut(c)
  BY <1>5 DEF ExitTimesOut, StopFails, End
<1> QED BY <1>1, <1>2, <1>3, <1>4, <1>5 DEF Stop

LEMMA ConnectedNext ==
  ASSUME LoadMayFail = FALSE
  PROVE  Connected /\ [Next]_vars => Connected'
<1> SUFFICES ASSUME Connected, [Next]_vars PROVE Connected'
  OBVIOUS
<1>1. CASE UNCHANGED vars
  BY <1>1 DEF vars, daemons, commands, Connected
<1> QED BY <1>1, ConnectedDaemon, ConnectedQuery, ConnectedStop DEF Next

\* Nothing but Answered answers.
LEMMA AnsweredOnly ==
  ASSUME pc \in [Cli -> Steps], [Next]_vars, NEW c \in Cli, IsAnswered(c)
  PROVE  Answered(c)
<1>1. pc[c] = "await" /\ pc'[c] = "answered"
  BY DEF IsAnswered
<1>2. pc' # pc
  BY <1>1
<1>3. \A d \in Daemon : ~DaemonNext(d) /\ ~Crash(d)
  BY <1>2 DEF DaemonNext, LoadConfig, LoadNames, RemoveOldSocket, Bind, Chmod, CleanSock,
       CleanPid, Crash, commands
<1>4. PICK b \in Cli : \/ BeginQuery(b) \/ BeginStop(b) \/ BeginInit(b)
                       \/ Query(b) \/ Stop(b) \/ Finish(b) \/ Interrupt(b)
  BY <1>2, <1>3 DEF Next, vars, commands
<1>5. \A a \in Cli : \A l : a # c => [pc EXCEPT ![a] = l][c] # "answered"
  BY <1>1
<1>6. \A l : [pc EXCEPT ![c] = l][c] = l
  OBVIOUS
<1> USE DEF Goto, End
<1>7. ~BeginQuery(b) /\ ~BeginStop(b) /\ ~BeginInit(b) /\ ~Finish(b) /\ ~Interrupt(b)
  BY <1>1, <1>5, <1>6 DEF BeginQuery, BeginStop, BeginInit, Begin, Finish, Interrupt
<1>8. ~Stop(b)
  BY <1>1, <1>5, <1>6 DEF Stop, ReadPid, StopPing, Judge, StopFails, Exited, ExitTimesOut,
       PingGone, StopCleansSock, StopCleansPid
<1>9. /\ ~Ping(b) /\ ~Spawn(b) /\ ~WaitAlive(b) /\ ~WaitTimesOut(b) /\ ~WritePid(b)
      /\ ~Connect(b) /\ ~WarmingUp(b) /\ ~ReplyLost(b)
  BY <1>1, <1>2, <1>5, <1>6 DEF Ping, Spawn, WaitAlive, WaitTimesOut, WritePid, Connect,
       WarmingUp, ReplyLost
<1> QED
  BY <1>1, <1>4, <1>5, <1>7, <1>8, <1>9 DEF Query, Answered

\* Only a daemon that has its names answers.
LEMMA AnsweredWarm ==
  ASSUME Connected, [Next]_vars, NEW c \in Cli, IsAnswered(c)
  PROVE  names[peer[c]] = "ready"
<1>1. Answered(c) /\ peer[c] \in Daemon
  BY AnsweredOnly DEF Connected, IsAnswered
<1> QED BY <1>1 DEF Answered, Warm, Connected

(* NamesReady: no query is answered before the background task has loaded   *)
(* the contacts (server.rs:203-208), whoever started the daemon that        *)
(* answers and whatever became of it since.                                 *)
THEOREM NoAnswerWithoutNames ==
  ASSUME LoadMayFail = FALSE
  PROVE  Spec => NamesReady
<1>1. Connected /\ [Next]_vars => [WithNames]_vars
  <2> SUFFICES ASSUME Connected, [Next]_vars PROVE WithNames
    OBVIOUS
  <2> QED BY AnsweredWarm DEF WithNames
<1>2. Connected /\ [Next]_vars => Connected'
  BY ConnectedNext
<1> QED BY <1>1, <1>2, ConnectedInit, PTL DEF Spec, NamesReady

-----------------------------------------------------------------------------
(* One terminal, no command cut off, no deadline passed over *)

Lives == {"dead", "started", "loaded", "unlinked", "bound", "serving", "failed"}
QuerySteps == {"ping", "spawn", "wait", "pid", "connect", "await", "answered"}
StopSteps == {"readPid", "stopPing", "judge", "exitWait", "pingWait", "cleanSock",
              "cleanPid", "stopped"}

LifecycleTypes ==
  /\ life \in [Daemon -> Lives] /\ exit \in [Daemon -> {"no", "sock", "pid"}]
  /\ cfg \in [Daemon -> Nat] /\ config \in Nat /\ inited \in Nat /\ cut \in BOOLEAN
  /\ sock \in Daemon \cup {Nobody} /\ pidFile \in Daemon \cup {Nobody}
  /\ pc \in [Cli -> Steps] /\ job \in [Cli -> {"none", "query", "stop", "init"}]
  /\ peer \in [Cli -> Daemon \cup {Nobody}] /\ target \in [Cli -> Daemon \cup {Nobody}]
  /\ need \in [Cli -> Nat]

\* It answers pings, and nobody has told it to stop.
InService(d) == life[d] = "serving" /\ sock = d /\ exit[d] = "no"

\* It is on its way there, and the path of the socket is its own.
ComesUp(d) ==
  /\ exit[d] = "no" /\ life[d] # "failed"
  /\ life[d] = "unlinked" => sock = Nobody
  /\ life[d] \in {"bound", "serving"} => sock = d

\* A daemon that lives is the only one, and which one that is the pid file says,
\* or the command that has started it or is stopping it.
OnlyDaemon(c, d) ==
  LET at == pc[c] IN
  life[d] # "dead" =>
    /\ at \in {"idle", "ping", "connect", "await", "answered", "readPid", "stopPing", "judge"} =>
         InService(d) /\ pidFile = d
    /\ at \in {"wait", "pid", "stopPing", "judge", "exitWait"} => target[c] = d
    /\ at = "wait" => ComesUp(d)
    /\ at = "pid" => InService(d)
    /\ at \notin {"spawn", "pingWait", "cleanSock", "cleanPid", "stopped"}

\* No daemon that lives has read an older configuration than the last init that
\* is over has written.
UpToDate(d) ==
  /\ life[d] = "dead" => exit[d] = "no"
  /\ life[d] \notin {"dead", "started"} => inited <= cfg[d]

\* Queries need what the last init wrote, an init what it has just written.
Needs(c) ==
  /\ pc[c] \in QuerySteps => job[c] = "query" /\ need[c] <= inited
  /\ pc[c] \in StopSteps => job[c] \in {"stop", "init"}
  /\ job[c] = "init" => need[c] <= config
  /\ pc[c] = "await" => peer[c] \in Daemon
  /\ pc[c] = "wait" => target[c] \in Daemon

AloneInv ==
  /\ LifecycleTypes /\ inited <= config
  /\ \A c \in Cli : Needs(c)
  /\ ~cut => \A c \in Cli, d \in Daemon : OnlyDaemon(c, d) /\ UpToDate(d)

LEMMA AloneInit ==
  ASSUME Init
  PROVE  AloneInv
<1>1. LifecycleTypes
  BY DEF Init, LifecycleTypes, Lives, Steps
<1>2. \A d \in Daemon : life[d] = "dead" /\ exit[d] = "no"
  BY DEF Init
<1>3. \A c \in Cli, d \in Daemon : OnlyDaemon(c, d) /\ UpToDate(d)
  BY <1>2 DEF OnlyDaemon, UpToDate
<1>4. inited <= config /\ \A c \in Cli : Needs(c)
  BY DEF Init, Needs, QuerySteps, StopSteps
<1> QED
  BY <1>1, <1>3, <1>4 DEF AloneInv

\* At any time there is at most one daemon.
LEMMA Sole ==
  ASSUME NEW c \in Cli, NEW d \in Daemon, NEW e \in Daemon, LifecycleTypes,
         OnlyDaemon(c, d), OnlyDaemon(c, e), life[d] # "dead", life[e] # "dead"
  PROVE  d = e
<1>1. pc[c] \in Steps
  BY DEF LifecycleTypes
<1> QED
  BY <1>1 DEF OnlyDaemon, InService, Steps

\* A step of a daemon.
LEMMA AloneDaemon ==
  ASSUME AloneInv, NEW d \in Daemon, DaemonNext(d) \/ Crash(d)
  PROVE  AloneInv'
<1>1. UNCHANGED <<config, commands, history>>
  BY DEF DaemonNext, LoadConfig, LoadNames, RemoveOldSocket, Bind, Chmod, CleanSock,
         CleanPid, Crash, files
<1>2. LifecycleTypes
  BY DEF AloneInv
<1>3. /\ life' \in [Daemon -> Lives] /\ exit' \in [Daemon -> {"no", "sock", "pid"}]
      /\ cfg' \in [Daemon -> Nat]
      /\ sock' \in Daemon \cup {Nobody} /\ pidFile' \in Daemon \cup {Nobody}
      /\ \A e \in Daemon \ {d} : life'[e] = life[e] /\ exit'[e] = exit[e] /\ cfg'[e] = cfg[e]
  <2> USE DEF LifecycleTypes, Lives
  <2>1. CASE LoadConfig(d)
    BY <2>1, <1>2 DEF LoadConfig, files
  <2>2. CASE LoadNames(d)
    BY <2>2, <1>2 DEF LoadNames, files
  <2>3. CASE RemoveOldSocket(d)
    BY <2>3, <1>2 DEF RemoveOldSocket
  <2>4. CASE Bind(d)
    BY <2>4, <1>2 DEF Bind
  <2>5. CASE Chmod(d)
    BY <2>5, <1>2 DEF Chmod, files
  <2>6. CASE CleanSock(d)
    BY <2>6, <1>2 DEF CleanSock
  <2>7. CASE CleanPid(d)
    BY <2>7, <1>2 DEF CleanPid, Dies
  <2>8. CASE Crash(d)
    BY <2>8, <1>2 DEF Crash, Dies, files
  <2> QED
    BY <2>1, <2>2, <2>3, <2>4, <2>5, <2>6, <2>7, <2>8 DEF DaemonNext
<1>4. LifecycleTypes'
  BY <1>1, <1>2, <1>3 DEF LifecycleTypes, commands, history
<1>5. ASSUME NEW c \in Cli, ~cut PROVE OnlyDaemon(c, d)' /\ UpToDate(d)'
  <2>1. OnlyDaemon(c, d) /\ UpToDate(d) /\ pc[c] \in Steps /\ inited <= config
    BY <1>2, <1>5 DEF AloneInv, LifecycleTypes
  <2>2. pc' = pc /\ target' = target /\ inited' = inited
    BY <1>1 DEF commands, history
  <2>3. CASE LoadConfig(d)
    BY <2>1, <2>2, <2>3, <1>2 DEF LoadConfig, OnlyDaemon, UpToDate, ComesUp, InService, files,
       LifecycleTypes
  <2>4. CASE LoadNames(d)
    BY <2>1, <2>2, <2>4 DEF LoadNames, OnlyDaemon, UpToDate, ComesUp, InService, files
  <2>5. CASE RemoveOldSocket(d)
    BY <2>1, <2>2, <2>5, <1>2 DEF RemoveOldSocket, OnlyDaemon, UpToDate, ComesUp, InService,
       LifecycleTypes
  <2>6. CASE Bind(d)
    BY <2>1, <2>2, <2>6, <1>2 DEF Bind, OnlyDaemon, UpToDate, ComesUp, InService, LifecycleTypes
  <2>7. CASE Chmod(d)
    BY <2>1, <2>2, <2>7, <1>2, DaemonLifecycleAssumption
       DEF Chmod, OnlyDaemon, UpToDate, ComesUp, InService, files, LifecycleTypes
  <2>8. CASE CleanSock(d)
    BY <2>1, <2>2, <2>8, <1>2 DEF CleanSock, OnlyDaemon, UpToDate, ComesUp, InService,
       LifecycleTypes
  <2>9. CASE CleanPid(d) \/ Crash(d)
    BY <2>9, <1>2 DEF CleanPid, Crash, Dies, OnlyDaemon, UpToDate, LifecycleTypes
  <2> QED
    BY <2>3, <2>4, <2>5, <2>6, <2>7, <2>8, <2>9 DEF DaemonNext
\* What a dead daemon does, nobody sees.
<1>6. ASSUME ~cut, UpToDate(d) PROVE life[d] # "dead"
  BY <1>6 DEF DaemonNext, LoadConfig, LoadNames, RemoveOldSocket, Bind, Chmod, CleanSock,
         CleanPid, Crash, UpToDate
<1>7. ASSUME NEW c \in Cli, ~cut, NEW e \in Daemon, e # d PROVE OnlyDaemon(c, e)' /\ UpToDate(e)'
  <2>1. OnlyDaemon(c, e) /\ UpToDate(e) /\ OnlyDaemon(c, d) /\ UpToDate(d)
    BY <1>7 DEF AloneInv
  <2>2. life[e] = "dead"
    BY <1>2, <1>6, <1>7, <2>1, Sole
  <2> QED
    BY <1>3, <1>7, <2>1, <2>2 DEF OnlyDaemon, UpToDate
<1>8. \A c \in Cli : Needs(c)'
  BY <1>1 DEF AloneInv, Needs, commands, history
<1> QED
  BY <1>1, <1>4, <1>5, <1>7, <1>8 DEF AloneInv, history

\* What a step of the only terminal has to keep.
LEMMA AloneTerminal ==
  ASSUME NEW c \in Cli, \A b \in Cli : b = c, LifecycleTypes', (inited <= config)', Needs(c)',
         ~cut' => \A d \in Daemon : OnlyDaemon(c, d)' /\ UpToDate(d)'
  PROVE  AloneInv'
  BY DEF AloneInv

\* A step that touches no daemon and no file, and only says where the command is.
LEMMA AloneMoves ==
  ASSUME AloneInv, NEW c \in Cli, \A b \in Cli : b = c, NEW l \in Steps,
         pc' = [pc EXCEPT ![c] = l], UNCHANGED <<files, daemons, job, need, history>>,
         \/ UNCHANGED target
         \/ target' = [target EXCEPT ![c] = pidFile] /\ l = "stopPing",
         peer' \in [Cli -> Daemon \cup {Nobody}],
         l = "await" => peer'[c] \in Daemon, l = "wait" => target[c] \in Daemon,
         l \in QuerySteps => pc[c] \in QuerySteps,
         l \in StopSteps => pc[c] \in StopSteps,
         ~cut => \A d \in Daemon : OnlyDaemon(c, d) => OnlyDaemon(c, d)'
  PROVE  AloneInv'
<1>1. LifecycleTypes
  BY DEF AloneInv
<1>2. /\ target' \in [Cli -> Daemon \cup {Nobody}] /\ pc' \in [Cli -> Steps] /\ pc'[c] = l
      /\ l = "wait" => target'[c] \in Daemon
  BY <1>1 DEF LifecycleTypes
<1>3. LifecycleTypes'
  BY <1>1, <1>2 DEF LifecycleTypes, files, daemons, history
<1>4. Needs(c)'
  BY <1>2 DEF AloneInv, Needs, files, history
<1>5. ~cut' => \A d \in Daemon : OnlyDaemon(c, d)' /\ UpToDate(d)'
  BY DEF AloneInv, UpToDate, daemons, history
<1> QED
  BY <1>3, <1>4, <1>5, AloneTerminal DEF AloneInv, files, history

\* A command that is over leaves the daemon at work, if there is one.
LEMMA AloneEnds ==
  ASSUME AloneInv, NEW c \in Cli, \A b \in Cli : b = c, End(c), UNCHANGED <<files, daemons>>,
         \/ UNCHANGED history
         \/ cut' = TRUE /\ UNCHANGED inited
         \/ /\ cut' = cut /\ inited' \in Nat /\ inited' <= config
            /\ ~cut => \A d \in Daemon : life[d] = "dead",
         ~cut' => \A d \in Daemon : life[d] # "dead" => InService(d) /\ pidFile = d
  PROVE  AloneInv'
<1>1. LifecycleTypes
  BY DEF AloneInv
<1>2. /\ pc' = [pc EXCEPT ![c] = "idle"] /\ job' = [job EXCEPT ![c] = "none"]
      /\ peer' = [peer EXCEPT ![c] = Nobody] /\ target' = [target EXCEPT ![c] = Nobody]
      /\ need' = [need EXCEPT ![c] = 0]
  BY DEF End, Goto
<1>0. /\ inited' \in Nat /\ inited' <= config /\ cut' \in BOOLEAN
      /\ ~cut' => ~cut /\ (inited' = inited \/ \A d \in Daemon : life[d] = "dead")
  BY <1>1 DEF AloneInv, LifecycleTypes, history
<1>3. LifecycleTypes'
  BY <1>0, <1>1, <1>2 DEF LifecycleTypes, Steps, files, daemons
<1>4. pc'[c] = "idle" /\ job'[c] = "none"
  BY <1>1, <1>2 DEF LifecycleTypes
<1>5. Needs(c)'
  BY <1>4 DEF Needs, QuerySteps, StopSteps
<1>6. ~cut' => \A d \in Daemon : OnlyDaemon(c, d)' /\ UpToDate(d)'
  <2> SUFFICES ASSUME ~cut', NEW d \in Daemon PROVE OnlyDaemon(c, d)' /\ UpToDate(d)'
    OBVIOUS
  <2>1. UpToDate(d) /\ (inited' = inited \/ life[d] = "dead")
    BY <1>0 DEF AloneInv
  <2>2. OnlyDaemon(c, d)'
    BY <1>4 DEF OnlyDaemon, InService, files, daemons
  <2>3. UpToDate(d)'
    BY <2>1 DEF UpToDate, daemons
  <2> QED
    BY <2>2, <2>3
<1> QED
  BY <1>0, <1>3, <1>5, <1>6, AloneTerminal DEF files
LEMMA AloneQuery ==
  ASSUME AloneInv, NEW c \in Cli, \A b \in Cli : b = c, Slow = FALSE, Query(c)
  PROVE  AloneInv'
<1>1. /\ LifecycleTypes /\ Needs(c)
      /\ ~cut => \A d \in Daemon : OnlyDaemon(c, d)
  BY DEF AloneInv
\* Whoever is on its way is found by the ping, or is not there.
<1>2. ASSUME ~cut, Answering = {}, NEW d \in Daemon, InService(d) PROVE FALSE
  BY <1>2 DEF Answering, InService
<1>3. CASE Ping(c)
  <2>1. PICK l \in {"connect", "spawn"} :
          pc' = [pc EXCEPT ![c] = l] /\ (l = "spawn" => Answering = {})
    BY <1>3 DEF Ping, Goto
  <2>2. ~cut => \A d \in Daemon : OnlyDaemon(c, d)'
    BY <1>1, <1>2, <1>3, <2>1 DEF Ping, OnlyDaemon, InService, LifecycleTypes, files, daemons
  <2> QED
    BY <1>1, <1>3, <2>1, <2>2, AloneMoves DEF Ping, Steps, QuerySteps, StopSteps, LifecycleTypes
<1>4. CASE Spawn(c)
  <2>1. PICK n \in Daemon : /\ Free(n) /\ life' = [life EXCEPT ![n] = "started"]
                            /\ target' = [target EXCEPT ![c] = n]
    BY <1>4 DEF Spawn
  <2>2. /\ pc[c] = "spawn" /\ pc' = [pc EXCEPT ![c] = "wait"]
        /\ UNCHANGED <<files, exit, names, cfg, job, peer, retried, need, history>>
    BY <1>4 DEF Spawn, Goto
  <2>3. /\ target'[c] = n /\ pc'[c] = "wait" /\ life'[n] = "started"
        /\ \A d \in Daemon : d # n => life'[d] = life[d]
    BY <1>1, <2>1, <2>2 DEF LifecycleTypes
  <2>4. LifecycleTypes'
    BY <1>1, <2>1, <2>2 DEF LifecycleTypes, Lives, Steps, files, history
  <2>5. Needs(c)'
    BY <1>1, <2>2, <2>3 DEF Needs, QuerySteps, StopSteps, files, history
  <2>6. ASSUME ~cut', NEW d \in Daemon PROVE OnlyDaemon(c, d)' /\ UpToDate(d)'
    <3>1. ~cut /\ OnlyDaemon(c, d) /\ UpToDate(d) /\ UpToDate(n) /\ life[n] = "dead"
      BY <1>1, <2>1, <2>2, <2>6 DEF AloneInv, Free, history
    <3> QED
      BY <2>2, <2>3, <3>1 DEF OnlyDaemon, UpToDate, ComesUp, history
  <2> QED
    BY <2>2, <2>4, <2>5, <2>6, AloneTerminal DEF AloneInv, files, history
<1>5. CASE WaitAlive(c)
  <2>1. PICK a \in Daemon : sock = a /\ life[a] = "serving"
    BY <1>5 DEF WaitAlive, Answering
  <2>2. ASSUME ~cut, NEW d \in Daemon, OnlyDaemon(c, d), life[d] # "dead" PROVE InService(d)
    <3>1. OnlyDaemon(c, a) /\ target[c] = a /\ target[c] = d
      BY <1>1, <1>5, <2>1, <2>2 DEF WaitAlive, OnlyDaemon
    <3> QED
      BY <1>5, <2>1, <2>2, <3>1 DEF WaitAlive, OnlyDaemon, ComesUp, InService
  <2>3. ~cut => \A d \in Daemon : OnlyDaemon(c, d)'
    BY <1>1, <1>5, <2>2 DEF WaitAlive, Goto, OnlyDaemon, InService, LifecycleTypes, files, daemons
  <2> QED
    BY <1>1, <1>5, <2>3, AloneMoves
       DEF WaitAlive, Goto, Steps, QuerySteps, StopSteps, LifecycleTypes
<1>6. CASE WaitTimesOut(c)
  <2>1. ASSUME ~cut, NEW d \in Daemon, life[d] # "dead" PROVE FALSE
    <3>1. target[c] = d /\ ComesUp(d)
      BY <1>1, <1>6, <2>1 DEF WaitTimesOut, OnlyDaemon
    <3>2. life[d] = "serving"
      BY <1>6, <2>1, <3>1 DEF WaitTimesOut, ComesUp
    <3> QED
      BY <1>6, <3>1, <3>2 DEF WaitTimesOut, Answering, ComesUp
  <2> QED
    BY <1>6, <2>1, AloneEnds DEF WaitTimesOut, history
<1>7. CASE WritePid(c)
  <2>1. /\ pc[c] = "pid" /\ pidFile' = target[c] /\ target' = [target EXCEPT ![c] = Nobody]
        /\ pc' = [pc EXCEPT ![c] = "connect"]
        /\ UNCHANGED <<config, sock, daemons, job, peer, retried, need, history>>
    BY <1>7 DEF WritePid, Goto
  <2>2. LifecycleTypes' /\ pc'[c] = "connect"
    BY <1>1, <2>1 DEF LifecycleTypes, Steps, daemons, history
  <2>3. Needs(c)'
    BY <1>1, <2>1, <2>2 DEF Needs, QuerySteps, StopSteps, history
  <2>4. ~cut' => \A d \in Daemon : OnlyDaemon(c, d)' /\ UpToDate(d)'
    BY <1>1, <2>1, <2>2 DEF AloneInv, OnlyDaemon, InService, UpToDate, daemons, history
  <2> QED
    BY <2>1, <2>2, <2>3, <2>4, AloneTerminal DEF AloneInv, history
<1>8. CASE Connect(c)
  <2>1. pc[c] = "connect" /\ UNCHANGED <<files, daemons, history>>
    BY <1>8 DEF Connect
  <2>2. ASSUME NEW a \in Answering, peer' = [peer EXCEPT ![c] = a], Goto(c, "await"),
               UNCHANGED <<job, target, retried, need>>
        PROVE  AloneInv'
    <3>1. a \in Daemon /\ peer' \in [Cli -> Daemon \cup {Nobody}] /\ peer'[c] = a
      BY <1>1, <2>2 DEF Answering, LifecycleTypes
    <3>2. ~cut => \A d \in Daemon : OnlyDaemon(c, d)'
      BY <1>1, <2>1, <2>2 DEF OnlyDaemon, InService, Goto, LifecycleTypes, files, daemons
    <3> QED
      BY <2>1, <2>2, <3>1, <3>2, AloneMoves DEF Goto, Steps, QuerySteps, StopSteps
  <2>3. ASSUME Goto(c, "ping"), UNCHANGED <<job, peer, target, need>>
        PROVE  AloneInv'
    <3>1. ~cut => \A d \in Daemon : OnlyDaemon(c, d)'
      BY <1>1, <2>1, <2>3 DEF OnlyDaemon, InService, Goto, LifecycleTypes, files, daemons
    <3> QED
      BY <1>1, <2>1, <2>3, <3>1, AloneMoves
         DEF Goto, Steps, QuerySteps, StopSteps, LifecycleTypes
  <2>4. ASSUME End(c) PROVE AloneInv'
    BY <1>1, <2>1, <2>4, AloneEnds DEF OnlyDaemon, history
  <2> QED
    BY <1>8, <2>2, <2>3, <2>4 DEF Connect
<1>9. CASE Answered(c)
  <2>1. ~cut => \A d \in Daemon : OnlyDaemon(c, d)'
    BY <1>1, <1>9 DEF Answered, OnlyDaemon, InService, Goto, LifecycleTypes, files, daemons
  <2> QED
    BY <1>1, <1>9, <2>1, AloneMoves
       DEF Answered, Goto, Steps, QuerySteps, StopSteps, LifecycleTypes
<1>10. CASE WarmingUp(c)
  <2>1. /\ pc[c] = "await" /\ pc' = [pc EXCEPT ![c] = "connect"]
        /\ peer' = [peer EXCEPT ![c] = Nobody]
        /\ UNCHANGED <<files, daemons, job, target, need, history>>
    BY <1>10 DEF WarmingUp, Goto
  <2>2. ~cut => \A d \in Daemon : OnlyDaemon(c, d)'
    BY <1>1, <2>1 DEF OnlyDaemon, InService, LifecycleTypes, files, daemons
  <2>3. peer' \in [Cli -> Daemon \cup {Nobody}]
    BY <1>1, <2>1 DEF LifecycleTypes
  <2> QED
    BY <2>1, <2>2, <2>3, AloneMoves DEF Steps, QuerySteps, StopSteps
<1>11. CASE ReplyLost(c)
  BY <1>1, <1>11, AloneEnds DEF ReplyLost, OnlyDaemon, history
<1> QED
  BY <1>3, <1>4, <1>5, <1>6, <1>7, <1>8, <1>9, <1>10, <1>11 DEF Query
LEMMA AloneBegins ==
  ASSUME AloneInv, NEW c \in Cli, \A b \in Cli : b = c,
         BeginQuery(c) \/ BeginStop(c) \/ BeginInit(c)
  PROVE  AloneInv'
<1>1. /\ LifecycleTypes /\ inited <= config
      /\ ~cut => \A d \in Daemon : OnlyDaemon(c, d) /\ UpToDate(d)
  BY DEF AloneInv
<1>2. PICK l \in {"ping", "readPid"}, j \in {"query", "stop", "init"} :
        /\ pc[c] = "idle" /\ pc' = [pc EXCEPT ![c] = l] /\ job' = [job EXCEPT ![c] = j]
        /\ UNCHANGED <<sock, pidFile, daemons, peer, target, retried, history>>
        /\ l = "ping" <=> j = "query"
        /\ j = "init" => config' = config + 1 /\ need' = [need EXCEPT ![c] = config + 1]
        /\ j = "query" => config' = config /\ need' = [need EXCEPT ![c] = inited]
        /\ j = "stop" => config' = config /\ need' = need
  <2>1. CASE BeginQuery(c)
    BY <2>1 DEF BeginQuery, Begin, Goto, files
  <2>2. CASE BeginStop(c)
    BY <2>2 DEF BeginStop, Begin, Goto, files
  <2>3. CASE BeginInit(c)
    BY <2>3 DEF BeginInit, Begin, Goto
  <2> QED
    BY <2>1, <2>2, <2>3
<1>3. pc'[c] = l /\ job'[c] = j /\ config' \in Nat /\ config <= config'
  BY <1>1, <1>2 DEF LifecycleTypes
<1>4. LifecycleTypes'
  <2>1. pc' \in [Cli -> Steps] /\ job' \in [Cli -> {"none", "query", "stop", "init"}]
        /\ need' \in [Cli -> Nat]
    BY <1>1, <1>2 DEF LifecycleTypes, Steps
  <2> QED
    BY <2>1, <1>1, <1>2, <1>3 DEF LifecycleTypes, daemons, history
<1>5. Needs(c)'
  <2>1. /\ j = "query" => need'[c] = inited
        /\ j = "init" => need'[c] = config'
    BY <1>1, <1>2 DEF LifecycleTypes
  <2> QED
    BY <1>1, <1>2, <1>3, <2>1 DEF Needs, QuerySteps, StopSteps, LifecycleTypes, history
<1>6. ~cut' => \A d \in Daemon : OnlyDaemon(c, d)' /\ UpToDate(d)'
  BY <1>1, <1>2, <1>3 DEF OnlyDaemon, UpToDate, InService, daemons, history
<1> QED
  BY <1>1, <1>2, <1>3, <1>4, <1>5, <1>6, AloneTerminal DEF LifecycleTypes, history

\* An init drops the failure to stop the daemon: then there is none.
LEMMA AloneStopFails ==
  ASSUME AloneInv, NEW c \in Cli, \A b \in Cli : b = c, pc[c] \in StopSteps, StopFails(c),
         UNCHANGED <<files, daemons, history>>,
         ~cut => \A d \in Daemon : life[d] = "dead"
  PROVE  AloneInv'
<1>1. LifecycleTypes
  BY DEF AloneInv
<1>2. CASE job[c] = "init"
  <2>1. pc' = [pc EXCEPT ![c] = "stopped"] /\ UNCHANGED <<job, peer, target, need>>
    BY <1>2 DEF StopFails, Goto
  <2>2. ~cut => \A d \in Daemon : OnlyDaemon(c, d)'
    BY DEF OnlyDaemon, daemons
  <2> QED
    BY <1>1, <2>1, <2>2, AloneMoves DEF Steps, QuerySteps, StopSteps, LifecycleTypes
<1>3. CASE job[c] # "init"
  BY <1>3, AloneEnds DEF StopFails, history
<1> QED
  BY <1>2, <1>3

LEMMA AloneJudge ==
  ASSUME AloneInv, NEW c \in Cli, \A b \in Cli : b = c, Judge(c)
  PROVE  AloneInv'
<1> DEFINE d == target[c]
<1>1. /\ LifecycleTypes /\ inited <= config /\ Needs(c) /\ pc[c] = "judge"
      /\ UNCHANGED <<files, history>>
  BY DEF AloneInv, Judge
<1>2. ASSUME NEW e \in Daemon, ~cut, life[e] # "dead" PROVE e = d
  BY <1>1, <1>2 DEF AloneInv, OnlyDaemon
<1>3. CASE ~Belongs(d)
  <2>1. ~cut => \A e \in Daemon : life[e] = "dead"
    BY <1>2, <1>3, DaemonLifecycleAssumption DEF Belongs
  <2>2. CASE StopFails(c) /\ UNCHANGED daemons
    BY <1>1, <2>1, <2>2, AloneStopFails DEF StopSteps
  <2>3. CASE Goto(c, "cleanSock") /\ UNCHANGED <<daemons, job, peer, target, retried, need>>
    <3>1. ~cut => \A e \in Daemon : OnlyDaemon(c, e)'
      BY <2>1, <2>3 DEF OnlyDaemon, daemons
    <3> QED
      BY <1>1, <2>3, <3>1, AloneMoves DEF Goto, Steps, QuerySteps, StopSteps, LifecycleTypes
  <2> QED
    BY <1>3, <2>2, <2>3 DEF Judge
<1>4. CASE Belongs(d)
  <2>1. /\ \/ life[d] = "started" /\ Dies(d)
           \/ /\ exit' = [exit EXCEPT ![d] = IF @ = "no" THEN "sock" ELSE @]
              /\ UNCHANGED <<life, names, cfg>>
        /\ pc' = [pc EXCEPT ![c] = "exitWait"]
        /\ UNCHANGED <<job, peer, target, retried, need>>
    BY <1>4 DEF Judge, Goto
  <2>2. d \in Daemon /\ life[d] # "dead"
    BY <1>1, <1>4 DEF Belongs, LifecycleTypes
  <2> HIDE DEF d
  <2>3. LifecycleTypes' /\ pc'[c] = "exitWait"
    BY <1>1, <2>1, <2>2 DEF LifecycleTypes, Lives, Steps, Dies, files, history
  <2>4. Needs(c)'
    BY <1>1, <2>1, <2>3 DEF Needs, QuerySteps, StopSteps, files, history
  <2>5. ASSUME ~cut', NEW e \in Daemon PROVE OnlyDaemon(c, e)' /\ UpToDate(e)'
    <3>1. ~cut /\ UpToDate(e) /\ (life[e] # "dead" => e = d)
      BY <1>1, <1>2, <2>5 DEF AloneInv, history
    <3>2. target'[c] = d
      BY <2>1 DEF d
    <3>3. OnlyDaemon(c, e)'
      <4>1. life'[e] # "dead" => life[e] # "dead"
        BY <1>1, <2>1, <2>2 DEF Dies, LifecycleTypes
      <4> QED
        BY <2>3, <3>1, <3>2, <4>1 DEF OnlyDaemon
    <3>4. UpToDate(e)'
      BY <1>1, <2>1, <2>2, <3>1 DEF UpToDate, Dies, LifecycleTypes, history
    <3> QED
      BY <3>3, <3>4
  <2> QED
    BY <1>1, <2>3, <2>4, <2>5, AloneTerminal DEF files, history
<1> QED
  BY <1>3, <1>4

LEMMA AloneStop ==
  ASSUME AloneInv, NEW c \in Cli, \A b \in Cli : b = c, Slow = FALSE, Stop(c)
  PROVE  AloneInv'
<1>1. /\ LifecycleTypes /\ Needs(c) /\ inited <= config
      /\ ~cut => \A d \in Daemon : OnlyDaemon(c, d)
  BY DEF AloneInv
<1>2. CASE ReadPid(c)
  <2>1. ~cut => \A d \in Daemon : OnlyDaemon(c, d)'
    BY <1>1, <1>2 DEF ReadPid, Goto, OnlyDaemon, InService, LifecycleTypes, files, daemons
  <2> QED
    BY <1>1, <1>2, <2>1, AloneMoves
       DEF ReadPid, Goto, Steps, QuerySteps, StopSteps, LifecycleTypes
<1>3. CASE StopPing(c)
  <2>1. ~cut => \A d \in Daemon : OnlyDaemon(c, d)'
    BY <1>1, <1>3 DEF StopPing, Goto, OnlyDaemon, InService, LifecycleTypes, files, daemons
  <2>2. peer' \in [Cli -> Daemon \cup {Nobody}]
    <3>1. Answering = {} \/ (CHOOSE d \in Answering : TRUE) \in Daemon
      BY DEF Answering
    <3> QED
      BY <1>1, <1>3, <3>1 DEF StopPing, LifecycleTypes
  <2> QED
    BY <1>1, <1>3, <2>1, <2>2, AloneMoves DEF StopPing, Goto, Steps, QuerySteps, StopSteps
<1>4. CASE Judge(c)
  BY <1>4, AloneJudge
<1>5. CASE Exited(c)
  <2>1. ~cut => \A d \in Daemon : life[d] = "dead"
    BY <1>1, <1>5 DEF Exited, OnlyDaemon
  <2>2. ~cut => \A d \in Daemon : OnlyDaemon(c, d)'
    BY <1>5, <2>1 DEF Exited, OnlyDaemon, daemons
  <2> QED
    BY <1>1, <1>5, <2>2, AloneMoves DEF Exited, Goto, Steps, QuerySteps, StopSteps, LifecycleTypes
<1>6. CASE PingGone(c)
  <2>1. ~cut => \A d \in Daemon : OnlyDaemon(c, d)'
    BY <1>1, <1>6 DEF PingGone, OnlyDaemon, daemons
  <2> QED
    BY <1>1, <1>6, <2>1, AloneMoves
       DEF PingGone, Goto, Steps, QuerySteps, StopSteps, LifecycleTypes
<1>7. CASE StopCleansSock(c) \/ StopCleansPid(c)
  <2>1. PICK l \in {"cleanPid", "stopped"} :
          /\ pc[c] \in {"cleanSock", "cleanPid"} /\ pc' = [pc EXCEPT ![c] = l]
          /\ sock' \in {sock, Nobody} /\ pidFile' \in {pidFile, Nobody}
          /\ UNCHANGED <<config, daemons, job, peer, target, retried, need, history>>
    BY <1>7 DEF StopCleansSock, StopCleansPid, Goto
  <2>2. LifecycleTypes' /\ pc'[c] = l
    BY <1>1, <2>1 DEF LifecycleTypes, Steps, daemons, history
  <2>3. Needs(c)'
    BY <1>1, <2>1, <2>2 DEF Needs, QuerySteps, StopSteps, history
  <2>4. ~cut' => \A d \in Daemon : OnlyDaemon(c, d)' /\ UpToDate(d)'
    BY <1>1, <2>1, <2>2 DEF AloneInv, OnlyDaemon, UpToDate, daemons, history
  <2> QED
    BY <1>1, <2>1, <2>2, <2>3, <2>4, AloneTerminal DEF history
<1>8. CASE ExitTimesOut(c)
  BY <1>8 DEF ExitTimesOut
<1> QED
  BY <1>2, <1>3, <1>4, <1>5, <1>6, <1>7, <1>8 DEF Stop

LEMMA AloneOver ==
  ASSUME AloneInv, NEW c \in Cli, \A b \in Cli : b = c, Finish(c) \/ Interrupt(c)
  PROVE  AloneInv'
<1>1. /\ LifecycleTypes /\ Needs(c) /\ inited <= config
      /\ ~cut => \A d \in Daemon : OnlyDaemon(c, d)
  BY DEF AloneInv
<1>2. CASE Finish(c)
  <2>1. /\ pc[c] \in {"answered", "stopped"} /\ End(c) /\ UNCHANGED <<files, daemons, cut>>
        /\ inited' = IF job[c] = "init" /\ need[c] > inited THEN need[c] ELSE inited
    BY <1>2 DEF Finish
  <2>2. inited' \in Nat /\ inited' <= config
    BY <1>1, <2>1 DEF Needs, LifecycleTypes
  <2>3. CASE pc[c] = "answered"
    <3>1. inited' = inited
      BY <1>1, <2>1, <2>3 DEF Needs, QuerySteps
    <3> QED
      BY <1>1, <2>1, <2>3, <3>1, AloneEnds DEF OnlyDaemon, history
  <2>4. CASE pc[c] = "stopped"
    <3>1. ~cut => \A d \in Daemon : life[d] = "dead"
      BY <1>1, <2>4 DEF OnlyDaemon
    <3> QED
      BY <2>1, <2>2, <3>1, AloneEnds
  <2> QED
    BY <2>1, <2>3, <2>4
<1>3. CASE Interrupt(c)
  BY <1>3, AloneEnds DEF Interrupt
<1> QED
  BY <1>2, <1>3

LEMMA AloneNext ==
  ASSUME \A b, c \in Cli : b = c, Slow = FALSE
  PROVE  AloneInv /\ [Next]_vars => AloneInv'
<1> SUFFICES ASSUME AloneInv, [Next]_vars PROVE AloneInv'
  OBVIOUS
<1>1. CASE UNCHANGED vars
  <2>1. LifecycleTypes' /\ \A c \in Cli : Needs(c)'
    BY <1>1 DEF vars, files, daemons, commands, history, AloneInv, LifecycleTypes, Needs
  <2>2. \A c \in Cli, d \in Daemon : OnlyDaemon(c, d)' = OnlyDaemon(c, d) /\ UpToDate(d)' = UpToDate(d)
    BY <1>1 DEF vars, files, daemons, commands, history, OnlyDaemon, UpToDate, InService, ComesUp
  <2> QED
    BY <1>1, <2>1, <2>2 DEF AloneInv, vars, files, history
<1>2. ASSUME NEW d \in Daemon, DaemonNext(d) \/ Crash(d) PROVE AloneInv'
  BY <1>2, AloneDaemon
<1>3. ASSUME NEW c \in Cli, Query(c) \/ Stop(c) PROVE AloneInv'
  BY <1>3, AloneQuery, AloneStop
<1>4. ASSUME NEW c \in Cli, \/ BeginQuery(c) \/ BeginStop(c) \/ BeginInit(c)
                            \/ Finish(c) \/ Interrupt(c)
      PROVE  AloneInv'
  BY <1>4, AloneBegins, AloneOver
<1> QED
  BY <1>1, <1>2, <1>3, <1>4 DEF Next

\* daemon_cmd.rs:48-49: with one terminal, and until a command is cut off, a
\* `daemon stop` that reports the daemon stopped has ended the one that answered
\* it, whatever daemons crash meanwhile and however often they are started.
THEOREM StopStops ==
  ASSUME \A b, c \in Cli : b = c, Slow = FALSE
  PROVE  Spec => []SequentialStop
<1>1. AloneInv => SequentialStop
  BY DEF AloneInv, LifecycleTypes, OnlyDaemon, SequentialStop, StoppedIsStopped
<1> QED
  BY <1>1, AloneInit, AloneNext, PTL DEF Spec

\* init.rs:95: with one terminal, and until a command is cut off, no query that
\* begins after an init is answered by a daemon with an older configuration.
THEOREM InitTakesEffect ==
  ASSUME \A b, c \in Cli : b = c, Slow = FALSE
  PROVE  Spec => SequentialConfig
<1>1. AloneInv /\ [Next]_vars => [~cut => WithConfig]_vars
  <2> SUFFICES ASSUME AloneInv, [Next]_vars, ~cut, NEW c \in Cli, IsAnswered(c)
               PROVE  cfg[peer[c]] >= need[c]
    BY DEF WithConfig
  <2>1. Answered(c)
    BY AnsweredOnly DEF AloneInv, LifecycleTypes
  <2>2. pc[c] = "await" /\ peer[c] \in Daemon /\ life[peer[c]] = "serving" /\ need[c] <= inited
    BY <2>1 DEF Answered, AloneInv, Needs, QuerySteps
  <2>3. inited <= cfg[peer[c]]
    BY <2>2 DEF AloneInv, UpToDate
  <2> QED
    BY <2>2, <2>3 DEF AloneInv, LifecycleTypes
<1> QED
  BY <1>1, AloneInit, AloneNext, PTL DEF Spec, SequentialConfig

-----------------------------------------------------------------------------
(* First elements.                                                         *)

\* R is a strict order of all of S.
Orders(R, S) ==
  \A x, y \in S :
    /\ x # y => <<x, y>> \in R \/ <<y, x>> \in R
    /\ <<x, x>> \notin R
    /\ \A z \in S : <<x, y>> \in R /\ <<y, z>> \in R => <<x, z>> \in R

\* A finite set has a first element: one with a smallest set of elements before it.
LEMMA FirstOne ==
  ASSUME NEW S, IsFiniteSet(S), S # {}, NEW R, Orders(R, S)
  PROVE  \E x \in S : \A y \in S \ {x} : <<x, y>> \in R
<1> DEFINE B(x) == {y \in S : <<y, x>> \in R}
           T == {B(x) : x \in S}
<1>1. T \subseteq FiniteSubsetsOf(S) /\ T # {}
  <2>1. \A x \in S : B(x) \in SUBSET S /\ IsFiniteSet(B(x))
    BY FS_Subset
  <2> HIDE DEF B
  <2> QED
    BY <2>1 DEF FiniteSubsetsOf
<1>2. PICK U \in T : \A V \in T : ~(<<V, U>> \in StrictSubsetOrdering(S))
  <2>1. IsWellFoundedOn(StrictSubsetOrdering(S), FiniteSubsetsOf(S))
    BY FS_StrictSubsetOrderingWellFounded
  <2> HIDE DEF T
  <2> QED
    BY <1>1, <2>1, WFMin
<1>3. PICK x \in S : U = B(x)
  OBVIOUS
<1>4. ASSUME NEW y \in S \ {x}, <<y, x>> \in R
      PROVE  FALSE
  <2>1. y \in B(x) /\ y \notin B(y) /\ B(y) \subseteq B(x)
    BY <1>4 DEF Orders
  <2>2. B(y) \in SUBSET S /\ B(x) \in SUBSET S /\ B(y) \in T
    OBVIOUS
  <2> HIDE DEF B, T
  <2>3. <<B(y), B(x)>> \in StrictSubsetOrdering(S)
    BY <2>1, <2>2 DEF StrictSubsetOrdering
  <2> QED
    BY <1>2, <1>3, <2>2, <2>3
<1> QED
  BY <1>4 DEF Orders

\* A bounded set of numbers has a greatest element, any set of numbers a least one.
LEMMA Greatest ==
  ASSUME NEW S, NEW p \in Nat, S \subseteq 0..p, S # {}
  PROVE  \E g \in S : \A y \in S : y <= g
<1> DEFINE T == {p - x : x \in S}
           Less == {ss \in Nat \X Nat : ss[1] < ss[2]}
<1>1. IsWellFoundedOn(Less, Nat)
  <2>1. OpToRel(<, Nat) = Less
    BY Zenon DEF OpToRel
  <2> QED
    BY <2>1, NatLessThanWellFounded, Zenon
<1>2. T \subseteq Nat /\ T # {}
  <2>1. \A x \in S : x \in 0..p /\ p - x \in Nat
    OBVIOUS
  <2>2. PICK x \in S : TRUE
    OBVIOUS
  <2>3. p - x \in T
    OBVIOUS
  <2> QED
    BY <2>1, <2>3
<1>3. PICK t \in T : \A u \in T : ~(<<u, t>> \in Less)
  <2> HIDE DEF Less, T
  <2> QED BY <1>1, <1>2, WFMin
<1>4. PICK g \in S : t = p - g
  OBVIOUS
<1>5. ASSUME NEW y \in S
      PROVE  y <= g
  <2>1. p - y \in T /\ p - y \in Nat /\ t \in Nat
    BY <1>2
  <2>2. ~(p - y < t)
    BY <2>1, <1>3
  <2> QED
    BY <2>2, <1>4
<1> QED
  BY <1>5

LEMMA Least ==
  ASSUME NEW S, S \subseteq Nat, S # {}
  PROVE  \E g \in S : \A y \in S : g <= y
<1> DEFINE Less == {ss \in Nat \X Nat : ss[1] < ss[2]}
<1>1. IsWellFoundedOn(Less, Nat)
  <2>1. OpToRel(<, Nat) = Less
    BY Zenon DEF OpToRel
  <2> QED
    BY <2>1, NatLessThanWellFounded, Zenon
<1>3. PICK t \in S : \A u \in S : ~(<<u, t>> \in Less)
  <2> HIDE DEF Less
  <2> QED BY <1>1, WFMin
<1>5. ASSUME NEW y \in S
      PROVE  t <= y
  <2>1. y \in Nat /\ t \in Nat /\ <<y, t>> \notin Less
    BY <1>3
  <2>2. ~(y < t)
    BY <2>1
  <2> QED
    BY <2>1, <2>2
<1> QED
  BY <1>5

-----------------------------------------------------------------------------
(* Directory.                                                              *)

\* A record of ext_buffer as WeChat writes it, for the member u.
ChunkOf(chunk, u) ==
  \E f \in {1, 4}, c \in Cards, n \in Noise \cup {NoText} : chunk = Chunk(u, f, c, n)

AnyChunk == Seq(Nat \X Text)

ContactsInv ==
  /\ DOMAIN contacts \subseteq Users /\ IsFiniteSet(DOMAIN contacts)
  /\ \A u \in DOMAIN contacts : contacts[u] \in Shown
  /\ ext \in Seq(AnyChunk)
  /\ \A i \in 1..Len(ext) : \E u \in Members : ChunkOf(ext[i], u)

\* What a record holds: the username in field 1 or 4, the nickname in field 2, once,
\* perhaps another string in field 3.
Holds(k, u, f, c, n) ==
  /\ k \in AnyChunk
  /\ \A i \in 1..Len(k) : k[i] = <<f, u>> \/ k[i] = <<2, c>> \/ (n # NoText /\ k[i] = <<3, n>>)
  /\ \E i \in 1..Len(k) : k[i] = <<f, u>>
  /\ \E i \in 1..Len(k) : k[i] = <<2, c>> /\ \A j \in 1..Len(k) \ {i} : k[j] # <<2, c>>

LEMMA ChunkCells ==
  ASSUME NEW u \in Users, NEW f \in {1, 4}, NEW c \in Cards, NEW n \in Noise \cup {NoText}
  PROVE  Holds(Chunk(u, f, c, n), u, f, c, n)
<1> DEFINE k == Chunk(u, f, c, n)
           S == Nat \X Text
<1> SUFFICES Holds(k, u, f, c, n)
  OBVIOUS
<1>1. u \in Text /\ c \in Text /\ (n # NoText => n \in Text) /\ f \in Nat /\ f # 2
  <2>1. Users \cup Shown \cup Cards \cup Noise \subseteq Text
    BY DirectoryAssumption
  <2> QED
    BY <2>1
<1>2. <<f, u>> \in S /\ <<2, c>> \in S /\ (n # NoText => <<3, n>> \in S) /\ <<f, u>> # <<2, c>>
  BY <1>1
<1>3. ASSUME NEW s \in Seq(S) PROVE <<>> \o s = s /\ s \o <<>> = s
  BY <1>3, ConcatEmptySeq
<1>4. ASSUME NEW s \in Seq(S), NEW t \in Seq(S)
      PROVE  /\ s \o t \in Seq(S) /\ Len(s \o t) = Len(s) + Len(t)
             /\ \A i \in 1..Len(s) + Len(t) : (s \o t)[i] = IF i <= Len(s) THEN s[i] ELSE t[i - Len(s)]
  BY <1>4, ConcatProperties
<1> DEFINE A == IF f = 1 THEN <<<<1, u>>>> ELSE <<>>
           B == <<<<2, c>>>>
           C == IF n = NoText THEN <<>> ELSE <<<<3, n>>>>
           D == IF f = 4 THEN <<<<4, u>>>> ELSE <<>>
<1>5. k = A \o B \o C \o D
  BY DEF Chunk
<1>6. A \in Seq(S) /\ B \in Seq(S) /\ C \in Seq(S) /\ D \in Seq(S)
  <2> HIDE DEF S
  <2>1. \A x \in S : <<x>> \in Seq(S)
    OBVIOUS
  <2>2. <<>> \in Seq(S)
    OBVIOUS
  <2>3. (f = 1 => <<1, u>> \in S) /\ (f = 4 => <<4, u>> \in S)
    BY <1>2
  <2>4. A \in Seq(S) /\ D \in Seq(S)
    BY <2>1, <2>2, <2>3
  <2>5. B \in Seq(S) /\ C \in Seq(S)
    BY <1>2, <2>1, <2>2
  <2> QED
    BY <2>4, <2>5
<1>7. Len(A) = (IF f = 1 THEN 1 ELSE 0) /\ Len(B) = 1 /\ Len(C) = (IF n = NoText THEN 0 ELSE 1)
      /\ Len(D) = (IF f = 4 THEN 1 ELSE 0)
  OBVIOUS
<1>8. /\ f = 1 => A[1] = <<f, u>>
      /\ B[1] = <<2, c>>
      /\ n # NoText => C[1] = <<3, n>>
      /\ f = 4 => D[1] = <<f, u>>
  OBVIOUS
<1> HIDE DEF A, B, C, D, S, k
<1>9. A \o B \in Seq(S) /\ A \o B \o C \in Seq(S) /\ k \in Seq(S)
  BY <1>4, <1>5, <1>6
<1> DEFINE AB == A \o B
           ABC == AB \o C
<1>10. k = ABC \o D
  BY <1>5
<1>11. /\ Len(AB) = Len(A) + 1
       /\ \A i \in 1..Len(A) + 1 : AB[i] = IF i <= Len(A) THEN A[i] ELSE B[i - Len(A)]
  <2>1. /\ Len(A \o B) = Len(A) + Len(B)
        /\ \A i \in 1..Len(A) + Len(B) : (A \o B)[i] = IF i <= Len(A) THEN A[i] ELSE B[i - Len(A)]
    BY <1>4, <1>6
  <2>2. Len(B) = 1
    BY <1>7
  <2> QED
    BY <2>1, <2>2
<1>12. /\ Len(ABC) = Len(AB) + Len(C)
       /\ \A i \in 1..Len(AB) + Len(C) : ABC[i] = IF i <= Len(AB) THEN AB[i] ELSE C[i - Len(AB)]
  BY <1>4, <1>6, <1>9
<1> HIDE DEF AB
<1>13. /\ Len(k) = Len(ABC) + Len(D)
       /\ \A i \in 1..Len(ABC) + Len(D) : k[i] = IF i <= Len(ABC) THEN ABC[i] ELSE D[i - Len(ABC)]
  BY <1>4, <1>6, <1>9, <1>10 DEF AB
<1> HIDE DEF ABC
<1>14. CASE f = 1
  <2>1. Len(A) = 1 /\ Len(AB) = 2 /\ Len(D) = 0 /\ AB[1] = <<f, u>> /\ AB[2] = <<2, c>>
    BY <1>14, <1>7, <1>8, <1>11
  <2>2. CASE n = NoText
    <3>1. Len(k) = 2 /\ k[1] = <<f, u>> /\ k[2] = <<2, c>>
      BY <1>7, <1>12, <1>13, <2>1, <2>2
    <3> QED
      <4>1. 1..Len(k) = {1, 2}
        BY <3>1
      <4> QED
        <5>1. k \in AnyChunk
          BY <1>9 DEF S, AnyChunk
        <5>2. \A i \in 1..Len(k) : k[i] = <<f, u>> \/ k[i] = <<2, c>> \/ (n # NoText /\ k[i] = <<3, n>>)
          BY <2>2, <3>1, <4>1
        <5>3. \E i \in 1..Len(k) : k[i] = <<f, u>>
          BY <3>1, <4>1
        <5>4. \E i \in 1..Len(k) : k[i] = <<2, c>> /\ \A j \in 1..Len(k) \ {i} : k[j] # <<2, c>>
          BY <3>1, <4>1, <1>2
        <5> QED
          BY <5>1, <5>2, <5>3, <5>4 DEF Holds
  <2>3. CASE n # NoText
    <3>1. Len(k) = 3 /\ k[1] = <<f, u>> /\ k[2] = <<2, c>> /\ k[3] = <<3, n>>
      BY <1>7, <1>8, <1>12, <1>13, <2>1, <2>3
    <3> QED
      <4>1. 1..Len(k) = {1, 2, 3}
        BY <3>1
      <4>2. <<f, u>> # <<2, c>> /\ <<3, n>> # <<2, c>>
        BY <1>2
      <4> QED
        <5>1. k \in AnyChunk
          BY <1>9 DEF S, AnyChunk
        <5>2. \A i \in 1..Len(k) : k[i] = <<f, u>> \/ k[i] = <<2, c>> \/ (n # NoText /\ k[i] = <<3, n>>)
          BY <2>3, <3>1, <4>1
        <5>3. \E i \in 1..Len(k) : k[i] = <<f, u>>
          BY <3>1, <4>1
        <5>4. \E i \in 1..Len(k) : k[i] = <<2, c>> /\ \A j \in 1..Len(k) \ {i} : k[j] # <<2, c>>
          BY <3>1, <4>1, <4>2
        <5> QED
          BY <5>1, <5>2, <5>3, <5>4 DEF Holds
  <2> QED
    BY <2>2, <2>3
<1>15. CASE f = 4
  <2>1. Len(A) = 0 /\ Len(AB) = 1 /\ Len(D) = 1 /\ AB[1] = <<2, c>> /\ D[1] = <<f, u>>
    BY <1>15, <1>7, <1>8, <1>11
  <2>2. CASE n = NoText
    <3>1. Len(k) = 2 /\ k[1] = <<2, c>> /\ k[2] = <<f, u>>
      BY <1>7, <1>12, <1>13, <2>1, <2>2
    <3> QED
      <4>1. 1..Len(k) = {1, 2}
        BY <3>1
      <4> QED
        <5>1. k \in AnyChunk
          BY <1>9 DEF S, AnyChunk
        <5>2. \A i \in 1..Len(k) : k[i] = <<f, u>> \/ k[i] = <<2, c>> \/ (n # NoText /\ k[i] = <<3, n>>)
          BY <2>2, <3>1, <4>1
        <5>3. \E i \in 1..Len(k) : k[i] = <<f, u>>
          BY <3>1, <4>1
        <5>4. \E i \in 1..Len(k) : k[i] = <<2, c>> /\ \A j \in 1..Len(k) \ {i} : k[j] # <<2, c>>
          BY <3>1, <4>1, <1>2
        <5> QED
          BY <5>1, <5>2, <5>3, <5>4 DEF Holds
  <2>3. CASE n # NoText
    <3>1. Len(k) = 3 /\ k[1] = <<2, c>> /\ k[2] = <<3, n>> /\ k[3] = <<f, u>>
      BY <1>7, <1>8, <1>12, <1>13, <2>1, <2>3
    <3> QED
      <4>1. 1..Len(k) = {1, 2, 3}
        BY <3>1
      <4>2. <<f, u>> # <<2, c>> /\ <<3, n>> # <<2, c>>
        BY <1>2
      <4> QED
        <5>1. k \in AnyChunk
          BY <1>9 DEF S, AnyChunk
        <5>2. \A i \in 1..Len(k) : k[i] = <<f, u>> \/ k[i] = <<2, c>> \/ (n # NoText /\ k[i] = <<3, n>>)
          BY <2>3, <3>1, <4>1
        <5>3. \E i \in 1..Len(k) : k[i] = <<f, u>>
          BY <3>1, <4>1
        <5>4. \E i \in 1..Len(k) : k[i] = <<2, c>> /\ \A j \in 1..Len(k) \ {i} : k[j] # <<2, c>>
          BY <3>1, <4>1, <4>2
        <5> QED
          BY <5>1, <5>2, <5>3, <5>4 DEF Holds
  <2> QED
    BY <2>2, <2>3
<1> QED
  BY <1>14, <1>15

\* FirstText where all the strings that fit are the same, and where none fits.
LEMMA FirstTextIs ==
  ASSUME NEW chunk, Len(chunk) \in Nat, NEW T,
         NEW t, \E i \in 1..Len(chunk) : chunk[i] \in T,
         \A i \in 1..Len(chunk) : chunk[i] \in T => chunk[i][2] = t
  PROVE  FirstText(chunk, T) = t
<1> DEFINE hits == {i \in 1..Len(chunk) : chunk[i] \in T}
           least == CHOOSE i \in hits : \A j \in hits : i <= j
<1>1. \E i \in hits : \A j \in hits : i <= j
  <2>1. hits \subseteq Nat /\ hits # {}
    OBVIOUS
  <2> HIDE DEF hits
  <2> QED
    BY <2>1, Least
<1>2. least \in hits
  <2> HIDE DEF hits
  <2> QED
    BY <1>1
<1>3. FirstText(chunk, T) = chunk[least][2]
  BY DEF FirstText
<1> HIDE DEF least
<1> QED
  BY <1>2, <1>3

LEMMA FirstTextNone ==
  ASSUME NEW chunk, NEW T, \A i \in 1..Len(chunk) : chunk[i] \notin T
  PROVE  FirstText(chunk, T) = NoText
BY DEF FirstText

\* A member's record has the member's username, whether or not the members are known,
\* and the nickname, whatever other string is in it.
LEMMA RecordOf ==
  ASSUME NEW u \in Users, NEW chunk, ChunkOf(chunk, u)
  PROVE  /\ chunk \in AnyChunk /\ FirstText(chunk, {1, 4} \X Text) = u
         /\ MemberOf(chunk, {}) = u
         /\ \A T \in SUBSET Users : u \in T => MemberOf(chunk, T) = u
         /\ Nickname(chunk, u) \in Cards /\ Nickname(chunk, u) = FirstText(chunk, {2} \X Text)
<1>1. PICK f \in {1, 4}, c \in Cards, n \in Noise \cup {NoText} : chunk = Chunk(u, f, c, n)
  BY DEF ChunkOf
<1>2. /\ chunk \in AnyChunk
      /\ \A i \in 1..Len(chunk) :
           chunk[i] = <<f, u>> \/ chunk[i] = <<2, c>> \/ (n # NoText /\ chunk[i] = <<3, n>>)
      /\ \E i \in 1..Len(chunk) : chunk[i] = <<f, u>>
      /\ \E i \in 1..Len(chunk) : chunk[i] = <<2, c>> /\ \A j \in 1..Len(chunk) \ {i} : chunk[j] # <<2, c>>
  <2>1. Holds(chunk, u, f, c, n)
    BY <1>1, ChunkCells
  <2> QED
    BY <2>1 DEF Holds
<1>3. /\ u \in Text /\ c \in Text /\ u # NoText /\ c # NoText /\ c # u /\ n # u
      /\ Users \cap Cards = {} /\ Users \cap Noise = {}
  <2>1. Users \cup Shown \cup Cards \cup Noise \subseteq Text /\ NoText \notin Text
        /\ (Cards \cup Noise) \cap Users = {}
    BY DirectoryAssumption
  <2> QED
    BY <2>1
<1>4. Len(chunk) \in Nat
  BY <1>2 DEF AnyChunk
<1>5. FirstText(chunk, {1, 4} \X Text) = u
  <2> DEFINE P == {1, 4} \X Text
  <2>0. <<f, u>> \in P
    BY <1>3
  <2>2. \A i \in 1..Len(chunk) : chunk[i] \in P => chunk[i][2] = u
    BY <1>2, <1>3
  <2> HIDE DEF P
  <2>1. \E i \in 1..Len(chunk) : chunk[i] \in P
    BY <1>2, <2>0
  <2>3. FirstText(chunk, P) = u
    BY <1>4, <2>1, <2>2, FirstTextIs
  <2> QED
    BY <2>3 DEF P
<1>6. FirstText(chunk, {2} \X Text) = c
  <2> DEFINE P == {2} \X Text
  <2>0. <<2, c>> \in P
    BY <1>3
  <2>2. \A i \in 1..Len(chunk) : chunk[i] \in P => chunk[i][2] = c
    BY <1>2, <1>3
  <2> HIDE DEF P
  <2>1. \E i \in 1..Len(chunk) : chunk[i] \in P
    BY <1>2, <2>0
  <2>3. FirstText(chunk, P) = c
    BY <1>4, <2>1, <2>2, FirstTextIs
  <2> QED
    BY <2>3 DEF P
<1>7. ASSUME NEW T \in SUBSET Users, u \in T
      PROVE  MemberOf(chunk, T) = u
  <2> DEFINE P == Field \X T
  <2>0. <<f, u>> \in P
    BY <1>7 DEF Field
  <2>2. \A i \in 1..Len(chunk) : chunk[i] \in P => chunk[i][2] = u
    BY <1>2, <1>3, <1>7
  <2>3. T # {} => MemberOf(chunk, T) = FirstText(chunk, P)
    BY DEF MemberOf
  <2> HIDE DEF P
  <2>1. \E i \in 1..Len(chunk) : chunk[i] \in P
    BY <1>2, <2>0
  <2>4. FirstText(chunk, P) = u
    BY <1>4, <2>1, <2>2, FirstTextIs
  <2> QED
    BY <1>7, <2>3, <2>4
<1>8. MemberOf(chunk, {}) = u
  <2> DEFINE alike == {t \in Text : LooksLike(t)}
             strong == {t \in Text : Strong(t)}
  <2>1. u \in alike
    <3>1. \A v \in Users : Prefix[v] # "plain" \/ v \in IdLike
      BY DirectoryAssumption
    <3> QED
      BY <1>3, <3>1 DEF LooksLike, Strong
  <2> DEFINE P == {1} \X alike
             Q == {4} \X alike
  <2>2. MemberOf(chunk, {}) = Or(FirstText(chunk, P), Or(FirstText(chunk, Q),
           Or(FirstText(chunk, Field \X strong), FirstText(chunk, Field \X alike))))
    BY DEF MemberOf
  <2> HIDE DEF alike, strong
  <2>3. (f = 1 => <<f, u>> \in P) /\ (f = 4 => <<f, u>> \in Q)
    BY <2>1
  <2>4. /\ f = 1 => \A i \in 1..Len(chunk) : chunk[i] \in P => chunk[i][2] = u
        /\ f = 4 => \A i \in 1..Len(chunk) : chunk[i] \in Q => chunk[i][2] = u
        /\ f = 4 => \A i \in 1..Len(chunk) : chunk[i] \notin P
    BY <1>2
  <2> HIDE DEF P, Q
  <2>5. CASE f = 1
    <3>1. FirstText(chunk, P) = u
      <4>1. \E i \in 1..Len(chunk) : chunk[i] \in P
        BY <1>2, <2>3, <2>5
      <4>2. \A i \in 1..Len(chunk) : chunk[i] \in P => chunk[i][2] = u
        BY <2>4, <2>5
      <4> QED
        BY <1>4, <4>1, <4>2, FirstTextIs
    <3> QED
      BY <1>3, <2>2, <3>1 DEF Or
  <2>6. CASE f = 4
    <3>1. FirstText(chunk, P) = NoText
      BY <2>4, <2>6, FirstTextNone
    <3>2. FirstText(chunk, Q) = u
      <4>1. \E i \in 1..Len(chunk) : chunk[i] \in Q
        BY <1>2, <2>3, <2>6
      <4> QED
        BY <1>4, <2>4, <2>6, <4>1, FirstTextIs
    <3> QED
      BY <1>3, <2>2, <3>1, <3>2 DEF Or
  <2> QED
    BY <2>5, <2>6
<1>9. Nickname(chunk, u) = c
  <2> DEFINE eligible == {i \in 1..Len(chunk) :
                 chunk[i][2] # u /\ ~Strong(chunk[i][2]) /\ Length[chunk[i][2]] <= 64}
             Beats(i, j) == \/ Score(chunk[i]) > Score(chunk[j])
                            \/ Score(chunk[i]) = Score(chunk[j]) /\ i < j
             best == CHOOSE i \in eligible : \A j \in eligible \ {i} : Beats(i, j)
  <2>1. Nickname(chunk, u) = IF eligible = {} THEN NoText ELSE chunk[best][2]
    BY DEF Nickname, First
  <2>2. PICK k \in 1..Len(chunk) : chunk[k] = <<2, c>> /\ \A j \in 1..Len(chunk) \ {k} : chunk[j] # <<2, c>>
    BY <1>2
  <2>3. k \in eligible
    <3>1. Prefix[c] = "plain" /\ Length[c] <= 64
      BY DirectoryAssumption
    <3> QED
      BY <1>3, <2>2, <3>1 DEF Strong
  <2>4. ASSUME NEW j \in eligible, j # k
        PROVE  Score(chunk[k]) > Score(chunk[j])
    <3>1. n # NoText /\ chunk[j] = <<3, n>>
      BY <1>2, <2>2, <2>4
    <3>2. n \in Text /\ Length \in [Text -> Nat]
      <4>1. Users \cup Shown \cup Cards \cup Noise \subseteq Text
        BY DirectoryAssumption
      <4> QED
        BY <3>1, <4>1, DirectoryAssumption
    <3>3. ASSUME NEW t \in Text PROVE Brevity(t) \in 0..32
      <4>1. Length[t] \in Nat
        BY <3>2
      <4>2. CASE Length[t] < 32
        <5>1. Brevity(t) = 32 - Length[t]
          BY <4>2 DEF Brevity
        <5>2. \A l \in Nat : l < 32 => 32 - l \in 0..32
          OBVIOUS
        <5> QED
          BY <4>1, <4>2, <5>1, <5>2
      <4>3. CASE ~(Length[t] < 32)
        BY <4>3 DEF Brevity
      <4> QED
        BY <4>2, <4>3
    <3>4. Brevity(c) \in 0..32 /\ Brevity(n) \in 0..32
      BY <1>3, <3>2, <3>3
    <3> DEFINE like(t) == IF LooksLike(t) THEN 0 ELSE 20
    <3>5. Score(<<2, c>>) = 100 + like(c) + Brevity(c) /\ Score(<<3, n>>) = 0 + like(n) + Brevity(n)
      BY DEF Score
    <3>6. like(c) \in 0..20 /\ like(n) \in 0..20
      OBVIOUS
    <3> HIDE DEF like
    <3>7. \A a, b \in 0..20, x, y \in 0..32 : 100 + a + x > 0 + b + y
      OBVIOUS
    <3>8. Score(<<2, c>>) > Score(<<3, n>>)
      BY <3>4, <3>5, <3>6, <3>7
    <3> QED
      BY <2>2, <3>1, <3>8
  <2>5. \A j \in eligible \ {k} : Score(chunk[k]) > Score(chunk[j])
    BY <2>4
  <2>6. best = k
    <3>1. \A j \in eligible \ {k} : Beats(k, j) /\ ~Beats(j, k)
      <4>1. ASSUME NEW j \in eligible \ {k} PROVE Score(chunk[j]) \in Int /\ Score(chunk[k]) \in Int
        <5>1. \A s : Length[s[2]] \in Nat => Score(s) \in Int
          BY DEF Score, Brevity
        <5>2. chunk[j] \in Nat \X Text /\ chunk[k] \in Nat \X Text
          BY <1>2 DEF AnyChunk
        <5>3. Length \in [Text -> Nat]
          BY DirectoryAssumption
        <5> QED
          BY <5>1, <5>2, <5>3
      <4> QED
        BY <2>5, <4>1
    <3> HIDE DEF eligible, Beats
    <3> QED
      BY <2>3, <3>1
  <2> HIDE DEF eligible, best
  <2> QED
    BY <2>1, <2>2, <2>3, <2>6
<1> QED
  BY <1>2, <1>5, <1>6, <1>7, <1>8, <1>9

-----------------------------------------------------------------------------
\* The members' nicknames, with and without the list of members: of each member, that of
\* the first of its records.
LEMMA NamedFirst ==
  ASSUME ContactsInv, NEW known \in BOOLEAN, NEW u
  PROVE  NamedIn(Targets(known), u) = {i \in 1..Len(ext) : FirstText(ext[i], {1, 4} \X Text) = u}
<1>1. ASSUME NEW i \in 1..Len(ext)
      PROVE  LET w == FirstText(ext[i], {1, 4} \X Text)
             IN  MemberOf(ext[i], Targets(known)) = w /\ Nickname(ext[i], w) # NoText
  <2>1. PICK v \in Members : ChunkOf(ext[i], v)
    BY DEF ContactsInv
  <2>2. v \in Users /\ Members \in SUBSET Users
    BY DEF ContactsInv, Members
  <2>3. MemberOf(ext[i], Targets(known)) = v
    BY <2>1, <2>2, RecordOf DEF Targets
  <2>4. Cards \subseteq Text /\ NoText \notin Text
    <3>1. Users \cup Shown \cup Cards \cup Noise \subseteq Text /\ NoText \notin Text
      BY DirectoryAssumption
    <3> QED
      BY <3>1
  <2> QED
    <3>1. FirstText(ext[i], {1, 4} \X Text) = v /\ Nickname(ext[i], v) \in Cards
      BY <2>1, <2>2, RecordOf
    <3> QED
      BY <2>3, <2>4, <3>1
<1> QED
  BY <1>1 DEF NamedIn

LEMMA SameNicknames ==
  ASSUME ContactsInv, NEW known \in BOOLEAN
  PROVE  Nicknames(Targets(known)) = Nicknames(Targets(TRUE))
<1>1. \A u : NamedIn(Targets(known), u) = NamedIn(Targets(TRUE), u)
  BY NamedFirst
<1> DEFINE D(b) == {t \in Text : NamedIn(Targets(b), t) # {}}
           N(b, u) == Nickname(ext[First(NamedIn(Targets(b), u), Sooner)], u)
<1>2. D(known) = D(TRUE)
  BY <1>1
<1>3. ASSUME NEW u PROVE N(known, u) = N(TRUE, u)
  <2>1. NamedIn(Targets(known), u) = NamedIn(Targets(TRUE), u)
    BY <1>1
  <2> QED
    BY <2>1, Zenon
<1>4. Nicknames(Targets(known)) = [u \in D(known) |-> N(known, u)]
      /\ Nicknames(Targets(TRUE)) = [u \in D(TRUE) |-> N(TRUE, u)]
  BY DEF Nicknames
<1> HIDE DEF D, N
<1> QED
  BY <1>2, <1>3, <1>4

LEMMA NicknamesExact ==
  ASSUME ContactsInv
  PROVE  NicknamesBelong
<1> SUFFICES ASSUME NEW known \in BOOLEAN, NEW i \in 1..Len(ext),
                    \A j \in 1..i-1 :
                      FirstText(ext[j], {1, 4} \X Text) # FirstText(ext[i], {1, 4} \X Text)
             PROVE  LET nick == Nicknames(Targets(known))
                        u == FirstText(ext[i], {1, 4} \X Text)
                    IN  u \in DOMAIN nick /\ nick[u] = FirstText(ext[i], {2} \X Text)
  BY DEF NicknamesBelong
<1> DEFINE u == FirstText(ext[i], {1, 4} \X Text)
           S == NamedIn(Targets(known), u)
           nick == Nicknames(Targets(known))
           least == CHOOSE j \in S : \A l \in S \ {j} : j < l
<1>1. PICK v \in Members : ChunkOf(ext[i], v)
  BY DEF ContactsInv
<1>2. v \in Users /\ v \in Text
  <2>1. Users \cup Shown \cup Cards \cup Noise \subseteq Text
    BY DirectoryAssumption
  <2> QED
    BY <1>1, <2>1 DEF ContactsInv, Members
<1>3. u = v /\ Nickname(ext[i], u) = FirstText(ext[i], {2} \X Text)
  BY <1>1, <1>2, RecordOf
<1>4. S = {j \in 1..Len(ext) : FirstText(ext[j], {1, 4} \X Text) = u}
  BY NamedFirst
<1>5. Len(ext) \in Nat
  BY DEF ContactsInv
<1>6. i \in S /\ \A j \in S \ {i} : i < j
  <2>1. ASSUME NEW j \in S \ {i} PROVE i < j
    <3>1. j \in 1..Len(ext) /\ j \notin 1..i - 1
      BY <1>4
    <3> QED
      BY <1>5, <3>1
  <2> QED
    BY <1>4, <2>1
<1>7. least = i
  <2> HIDE DEF u, S
  <2>1. \A j \in S : j \in Int
    BY <1>4, <1>5
  <2>2. \A j \in S \ {i} : ~(j < i)
    BY <1>6, <2>1
  <2>3. \A j \in S : (\A l \in S \ {j} : j < l) => j = i
    BY <1>6, <2>2
  <2>4. \E j \in S : \A l \in S \ {j} : j < l
    BY <1>6
  <2> QED
    BY <2>3, <2>4
<1>8. u \in DOMAIN nick /\ nick[u] = Nickname(ext[least], u)
  <2>1. nick = [t \in {t \in Text : NamedIn(Targets(known), t) # {}} |->
                  Nickname(ext[First(NamedIn(Targets(known), t), Sooner)], t)]
    BY DEF Nicknames
  <2>2. First(S, Sooner) = least
    BY DEF First, Sooner
  <2>3. u \in {t \in Text : NamedIn(Targets(known), t) # {}}
    BY <1>2, <1>3, <1>6
  <2> HIDE DEF u, nick
  <2> QED
    BY <2>1, <2>2, <2>3 DEF S
<1> HIDE DEF u, nick, least
<1> QED
  BY <1>3, <1>7, <1>8 DEF u, nick

LEMMA NamedExact ==
  ASSUME ContactsInv
  PROVE  NamedAlike
<1> SUFFICES ASSUME NEW u \in Members, NEW known \in BOOLEAN
             PROVE  SenderLabel(u, NoText, known) = MemberShown(u)
                    /\ SenderLabel(NoText, u, known) = MemberShown(u)
  BY DEF NamedAlike
<1> DEFINE nick == Nicknames(Targets(TRUE))
<1>1. u \in DOMAIN contacts /\ u # NoText
  <2>1. Users \cup Shown \cup Cards \cup Noise \subseteq Text /\ NoText \notin Text
    BY DirectoryAssumption
  <2> QED
    BY <2>1 DEF ContactsInv, Members
<1>2. Or(u, NoText) = u /\ Or(NoText, u) = u
  BY <1>1 DEF Or
<1>3. Nicknames(Targets(known)) = nick
  BY SameNicknames
<1>4. SenderDisplay(u, NoText, nick) = IF u \in DOMAIN nick THEN nick[u] ELSE contacts[u]
  BY <1>1 DEF SenderDisplay
<1>5. MemberShown(u) = IF u \in DOMAIN nick THEN nick[u] ELSE contacts[u]
  BY DEF MemberShown
<1> HIDE DEF nick
<1> QED
  BY <1>1, <1>2, <1>3, <1>4, <1>5 DEF SenderLabel

-----------------------------------------------------------------------------
\* First, for a strict order of a finite set, is in the set.
LEMMA FirstEarlier ==
  ASSUME NEW S \in SUBSET Text, IsFiniteSet(S), S # {}
  PROVE  First(S, Earlier) \in S
<1> DEFINE R == {p \in S \X S : Rank[p[1]] < Rank[p[2]]}
<1>1. \A x, y \in S : <<x, y>> \in R <=> Rank[x] < Rank[y]
  OBVIOUS
<1>2. \A x, y \in S : Rank[x] \in Nat /\ (Rank[x] = Rank[y] => x = y)
  BY DirectoryAssumption
<1> HIDE DEF R
<1>3. Orders(R, S)
  <2>1. \A i, j, l \in Nat : (i = j \/ i < j \/ j < i) /\ ~(i < i) /\ (i < j /\ j < l => i < l)
    OBVIOUS
  <2>2. ASSUME NEW x \in S, NEW y \in S
        PROVE  (x # y => <<x, y>> \in R \/ <<y, x>> \in R) /\ <<x, x>> \notin R
    BY <1>1, <1>2, <2>1
  <2>3. ASSUME NEW x \in S, NEW y \in S, NEW z \in S, <<x, y>> \in R, <<y, z>> \in R
        PROVE  <<x, z>> \in R
    BY <1>1, <1>2, <2>1, <2>3
  <2> QED
    BY <2>2, <2>3 DEF Orders
<1>4. \E x \in S : \A y \in S \ {x} : <<x, y>> \in R
  BY <1>3, FirstOne
<1>5. \E x \in S : \A y \in S \ {x} : Earlier(x, y)
  BY <1>1, <1>4 DEF Earlier
<1> QED
  BY <1>5 DEF First

LEMMA FirstCloser ==
  ASSUME ContactsInv, NEW S \in SUBSET DOMAIN contacts, S # {}
  PROVE  First(S, Closer) \in S
<1> DEFINE R == {p \in S \X S : Closer(p[1], p[2])}
<1>1. \A x, y \in S : <<x, y>> \in R <=> Closer(x, y)
  OBVIOUS
<1>2. ASSUME NEW x \in S
      PROVE  x \in Text /\ contacts[x] \in Text /\ Rank[x] \in Nat /\ Length[contacts[x]] \in Nat
  <2>1. Users \cup Shown \cup Cards \cup Noise \subseteq Text
        /\ Length \in [Text -> Nat] /\ Rank \in [Text -> Nat]
    BY DirectoryAssumption
  <2>2. x \in Users /\ contacts[x] \in Shown
    BY DEF ContactsInv
  <2> QED
    BY <2>1, <2>2
<1>3. \A x, y \in S : Rank[x] = Rank[y] => x = y
  BY <1>2, DirectoryAssumption
<1> HIDE DEF R
<1>4. IsFiniteSet(S)
  BY FS_Subset DEF ContactsInv
<1>5. Orders(R, S)
  <2>1. \A a, b, k, l \in Nat :
          LET less(p, q, r, s) == p < r \/ (p = r /\ q < s)
          IN  /\ ~less(a, b, a, b) /\ (less(a, b, k, l) \/ less(k, l, a, b) \/ (a = k /\ b = l))
              /\ \A m, n \in Nat : less(a, b, k, l) /\ less(k, l, m, n) => less(a, b, m, n)
    OBVIOUS
  <2>2. ASSUME NEW x \in S, NEW y \in S
        PROVE  (x # y => Closer(x, y) \/ Closer(y, x)) /\ ~Closer(x, x)
    BY <1>2, <1>3 DEF Closer, Earlier
  <2>3. ASSUME NEW x \in S, NEW y \in S, NEW z \in S, Closer(x, y), Closer(y, z)
        PROVE  Closer(x, z)
    BY <1>2, <2>3 DEF Closer, Earlier
  <2> QED
    BY <1>1, <2>2, <2>3 DEF Orders
<1>6. \E x \in S : \A y \in S \ {x} : <<x, y>> \in R
  BY <1>4, <1>5, FirstOne
<1>7. \E x \in S : \A y \in S \ {x} : Closer(x, y)
  BY <1>1, <1>6
<1> QED
  BY <1>7 DEF First

LEMMA ShownExact ==
  ASSUME ContactsInv
  PROVE  ShownResolves
<1>1. Users \cup Shown \cup Cards \cup Noise \subseteq Text /\ NoText \notin Text
      /\ Lower \in [Text -> Text] /\ \A t \in Text : <<Lower[t], Lower[t]>> \in Within
  BY DirectoryAssumption
<1>2. DOMAIN contacts \subseteq Text /\ IsFiniteSet(DOMAIN contacts)
      /\ \A u \in DOMAIN contacts : contacts[u] \in Text
  BY <1>1 DEF ContactsInv
<1>3. ASSUME NEW q
      PROVE  /\ Exact(q) # {} => First(Exact(q), Earlier) \in Exact(q)
             /\ Fuzzy(q) # {} => First(Fuzzy(q), Closer) \in Fuzzy(q)
  <2>1. Exact(q) \in SUBSET DOMAIN contacts /\ Fuzzy(q) \in SUBSET DOMAIN contacts
    BY DEF Exact, Fuzzy
  <2>2. Exact(q) \in SUBSET Text /\ IsFiniteSet(Exact(q))
    BY <1>2, <2>1, FS_Subset
  <2> QED
    BY <2>1, <2>2, FirstEarlier, FirstCloser
<1>4. ASSUME NEW u \in DOMAIN contacts,
             contacts[u] \notin DOMAIN contacts, Prefix[contacts[u]] \notin {"room", "wxid"}
      PROVE  LET r == Resolve(contacts[u]) IN r # NoText /\ Lower[contacts[r]] = Lower[contacts[u]]
  <2> DEFINE q == contacts[u]
  <2>1. u \in Exact(q)
    BY DEF Exact
  <2>2. Resolve(q) = First(Exact(q), Earlier)
    BY <1>4, <2>1 DEF Resolve
  <2>3. Resolve(q) \in Exact(q)
    BY <1>3, <2>1, <2>2
  <2> QED
    BY <1>1, <1>2, <2>3 DEF Exact
<1>5. ASSUME NEW q \in Text, Resolve(q) \in DOMAIN contacts
      PROVE  \/ <<Lower[q], Lower[contacts[Resolve(q)]]>> \in Within
             \/ <<Lower[q], Lower[Resolve(q)]>> \in Within
  <2>1. CASE q \in DOMAIN contacts \/ Prefix[q] \in {"room", "wxid"}
    BY <1>1, <2>1 DEF Resolve
  <2>2. CASE ~(q \in DOMAIN contacts \/ Prefix[q] \in {"room", "wxid"}) /\ Exact(q) # {}
    <3>1. Resolve(q) \in Exact(q)
      BY <1>3, <2>2 DEF Resolve
    <3> QED
      BY <1>1, <3>1 DEF Exact
  <2>3. CASE ~(q \in DOMAIN contacts \/ Prefix[q] \in {"room", "wxid"}) /\ Exact(q) = {} /\ Fuzzy(q) # {}
    <3>1. Resolve(q) \in Fuzzy(q)
      BY <1>3, <2>3 DEF Resolve
    <3> QED
      BY <3>1 DEF Fuzzy
  <2>4. CASE ~(q \in DOMAIN contacts \/ Prefix[q] \in {"room", "wxid"}) /\ Exact(q) = {} /\ Fuzzy(q) = {}
    BY <1>1, <1>2, <1>5, <2>4 DEF Resolve
  <2> QED
    BY <2>1, <2>2, <2>3, <2>4
<1>6. ASSUME NEW q \in Text, Resolve(q) \in DOMAIN contacts
      PROVE  Resolve(q) \in IF ChatType(Resolve(q)) = "group" THEN Groups(q)
                            ELSE Listed(ChatType(Resolve(q)), q)
  BY <1>5, <1>6 DEF Listed, Groups
<1> QED
  BY <1>4, <1>6 DEF ShownResolves

-----------------------------------------------------------------------------
LEMMA ContactsInitInv == ContactsInit => ContactsInv
<1> SUFFICES ASSUME ContactsInit PROVE ContactsInv
  OBVIOUS
<1>1. DOMAIN contacts = {} /\ ext = <<>>
  BY DEF ContactsInit
<1>2. IsFiniteSet({})
  BY FS_EmptySet
<1>3. <<>> \in Seq(AnyChunk) /\ Len(<<>>) = 0
  OBVIOUS
<1> QED
  BY <1>1, <1>2, <1>3 DEF ContactsInv

LEMMA ContactsStep ==
  ASSUME ContactsInv, [ContactsNext]_contactVars
  PROVE  ContactsInv'
<1>1. ASSUME NEW u \in Users, NEW d \in Shown, AddContact(u, d)
      PROVE  ContactsInv'
  <2>1. /\ contacts' = [v \in DOMAIN contacts \cup {u} |-> IF v = u THEN d ELSE contacts[v]]
        /\ ext' = ext
    BY <1>1 DEF AddContact
  <2>2. IsFiniteSet(DOMAIN contacts')
    BY <2>1, FS_AddElement DEF ContactsInv
  <2>3. Members \subseteq Members'
    BY <2>1 DEF Members
  <2>4. \A v \in DOMAIN contacts' : contacts'[v] \in Shown
    BY <2>1 DEF ContactsInv
  <2>5. \A i \in 1..Len(ext) : \E v \in Members' : ChunkOf(ext[i], v)
    BY <2>3 DEF ContactsInv
  <2> QED
    <3>1. DOMAIN contacts' \subseteq Users
      BY <2>1 DEF ContactsInv
    <3>2. ext' \in Seq(AnyChunk) /\ \A i \in 1..Len(ext') : \E v \in Members' : ChunkOf(ext'[i], v)
      BY <2>1, <2>5 DEF ContactsInv
    <3> QED
      BY <2>2, <2>4, <3>1, <3>2 DEF ContactsInv, ChunkOf, Chunk, AnyChunk
<1>2. ASSUME NEW u \in Users, NEW f \in {1, 4}, NEW c \in Cards, NEW n \in Noise \cup {NoText},
             AddCard(u, f, c, n)
      PROVE  ContactsInv'
  <2> DEFINE k == Chunk(u, f, c, n)
  <2>1. u \in Members /\ ext' = Append(ext, k) /\ contacts' = contacts
    BY <1>2 DEF AddCard
  <2>2. k \in AnyChunk /\ ChunkOf(k, u)
    BY ChunkCells DEF Holds, ChunkOf
  <2>3. Members' = Members
    BY <2>1 DEF Members
  <2> HIDE DEF k
  <2>4. /\ ext' \in Seq(AnyChunk) /\ Len(ext') = Len(ext) + 1
        /\ \A i \in 1..Len(ext) : ext'[i] = ext[i]
        /\ ext'[Len(ext) + 1] = k
    BY <2>1, <2>2, AppendProperties DEF ContactsInv
  <2>5. Len(ext) \in Nat
    BY DEF ContactsInv
  <2>6. ASSUME NEW i \in 1..Len(ext')
        PROVE  \E v \in Members : ChunkOf(ext'[i], v)
    <3>1. i \in 1..Len(ext) \/ i = Len(ext) + 1
      BY <2>4, <2>5
    <3> QED
      BY <2>1, <2>2, <2>4, <3>1 DEF ContactsInv
  <2> QED
    BY <2>1, <2>3, <2>4, <2>6 DEF ContactsInv, ChunkOf, Chunk, AnyChunk
<1>3. CASE UNCHANGED contactVars
  <2>1. contacts' = contacts /\ ext' = ext
    BY <1>3 DEF contactVars
  <2>2. Members' = Members
    BY <2>1 DEF Members
  <2>3. \A i \in 1..Len(ext') : \E v \in Members' : ChunkOf(ext'[i], v)
    BY <2>1, <2>2 DEF ContactsInv
  <2> QED
    BY <2>1, <2>3 DEF ContactsInv, ChunkOf, Chunk, AnyChunk
<1> QED
  BY <1>1, <1>2, <1>3 DEF ContactsNext

\* Any words that are the name a list shows mean a contact of that name, for any number of
\* contacts with any names, and what chat words mean is among those listed for them
\* (query.rs:1161, 858, 936).
THEOREM ShownIsFound == ContactsSpec => []ShownResolves
<1>1. ContactsInv /\ [ContactsNext]_contactVars => ContactsInv'
  BY ContactsStep
<1> QED
  BY <1>1, ContactsInitInv, ShownExact, PTL DEF ContactsSpec

\* For any ext_buffer WeChat writes, a member's nickname is that of its first record,
\* whether or not the members are known (query.rs:3368-3460).
THEOREM NicknameOfMember == ContactsSpec => []NicknamesBelong
<1>1. ContactsInv /\ [ContactsNext]_contactVars => ContactsInv'
  BY ContactsStep
<1> QED
  BY <1>1, ContactsInitInv, NicknamesExact, PTL DEF ContactsSpec

\* The list of members and the messages name a member alike, for any group
\* (query.rs:3480-3563, 4437-4540).
THEOREM OneNameEach == ContactsSpec => []NamedAlike
<1>1. ContactsInv /\ [ContactsNext]_contactVars => ContactsInv'
  BY ContactsStep
<1> QED
  BY <1>1, ContactsInitInv, NamedExact, PTL DEF ContactsSpec

-----------------------------------------------------------------------------
(* Attachments.                                                            *)

\* A .dat file as WeChat's encoder makes it.
DatLike(f) ==
  /\ f.md5 \in Picture /\ f.enc \in Encodings
  /\ f.aes = Layout[f.md5][1] /\ f.xor = Layout[f.md5][2]

\* The block of padding behind the first part.
PadOf(f) == Block - (f.aes % Block)

LEMMA DatSizes ==
  ASSUME NEW f, DatLike(f)
  PROVE  /\ f.aes \in Nat /\ f.xor \in Nat /\ f.aes + f.xor <= Bytes /\ Bytes \in Nat \ {0}
         /\ Block \in Nat \ {0} /\ PadOf(f) \in 1..Block
<1>1. f.aes \in Nat /\ f.xor \in Nat /\ f.aes + f.xor <= Bytes /\ Bytes \in Nat \ {0} /\ Block \in Nat \ {0}
  BY AttachmentsAssumption DEF DatLike
<1>2. \A a, b \in Nat : b # 0 => a % b \in 0..b - 1
  OBVIOUS
<1>3. f.aes % Block \in 0..Block - 1
  BY <1>1, <1>2
<1> QED
  BY <1>1, <1>3 DEF PadOf

\* What the cell at i of a file's body is.
Cell(f, i) ==
  [by |-> IF i <= f.aes + PadOf(f) THEN "aes"
          ELSE IF i <= Bytes + PadOf(f) - f.xor THEN "none" ELSE "xor",
   byte |-> IF i <= f.aes THEN <<f.md5, i>>
            ELSE IF i <= f.aes + PadOf(f) THEN Pad(PadOf(f)) ELSE <<f.md5, i - PadOf(f)>>]

\* Two pieces of a sequence, put together.
Piece(s, g, k, n) == s = [i \in 1..n |-> g[k + i]]

LEMMA Pieces ==
  ASSUME NEW a \in Nat, NEW b \in Nat, NEW g, NEW s, NEW t,
         Piece(s, g, 0, a), Piece(t, g, a, b)
  PROVE  Piece(s \o t, g, 0, a + b)
<1> DEFINE S == {g[i] : i \in 1..a + b}
<1>2. DOMAIN s = 1..a /\ DOMAIN t = 1..b /\ (\A i \in 1..a : s[i] = g[i]) /\ \A i \in 1..b : t[i] = g[a + i]
  BY DEF Piece
<1>1. s \in [1..a -> S] /\ t \in [1..b -> S]
  <2>1. s = [i \in 1..a |-> s[i]] /\ t = [i \in 1..b |-> t[i]]
    BY DEF Piece
  <2>2. ASSUME NEW i \in 1..a PROVE s[i] \in S
    <3>1. i \in 1..a + b
      OBVIOUS
    <3> QED
      BY <1>2, <3>1
  <2>3. ASSUME NEW i \in 1..b PROVE t[i] \in S
    <3>1. a + i \in 1..a + b
      OBVIOUS
    <3> QED
      BY <1>2, <3>1
  <2> HIDE DEF S
  <2> QED
    BY <1>2, <2>1, <2>2, <2>3
<1> HIDE DEF S
<1>3. s \in Seq(S) /\ Len(s) = a
  BY <1>1, <1>2
<1>4. t \in Seq(S) /\ Len(t) = b
  BY <1>1, <1>2
<1>5. /\ s \o t \in Seq(S) /\ Len(s \o t) = a + b
      /\ \A i \in 1..a + b : (s \o t)[i] = IF i <= a THEN s[i] ELSE t[i - a]
  BY <1>3, <1>4, ConcatProperties
<1>6. ASSUME NEW i \in 1..a + b PROVE (s \o t)[i] = g[i]
  <2>1. CASE i <= a
    BY <1>2, <1>5, <2>1
  <2>2. CASE ~(i <= a)
    <3>1. i - a \in 1..b /\ a + (i - a) = i
      BY <2>2
    <3>2. t[i - a] = g[a + (i - a)]
      BY <3>1, <1>2
    <3> QED
      BY <3>1, <3>2, <1>5, <2>2
  <2> QED
    BY <2>1, <2>2
<1>7. DOMAIN (s \o t) = 1..a + b /\ s \o t = [i \in DOMAIN (s \o t) |-> (s \o t)[i]]
  <2>1. \A x \in Seq(S) : DOMAIN x = 1..Len(x) /\ x = [i \in DOMAIN x |-> x[i]]
    OBVIOUS
  <2> QED
    BY <1>5, <2>1
<1>8. s \o t = [i \in 1..a + b |-> g[i]]
  BY <1>6, <1>7
<1> QED
  BY <1>8 DEF Piece

LEMMA BodyCells ==
  ASSUME NEW f, DatLike(f)
  PROVE  Body(f) = [i \in 1..Bytes + PadOf(f) |-> Cell(f, i)]
<1> DEFINE n == PadOf(f)
           m == Bytes - f.aes - f.xor
           g == [i \in 1..Bytes + n |-> Cell(f, i)]
           A == [i \in 1..f.aes |-> [by |-> "aes", byte |-> <<f.md5, i>>]]
           B == [i \in 1..n |-> [by |-> "aes", byte |-> Pad(n)]]
           C == [i \in 1..m |-> [by |-> "none", byte |-> <<f.md5, f.aes + i>>]]
           D == [i \in 1..f.xor |-> [by |-> "xor", byte |-> <<f.md5, Bytes - f.xor + i>>]]
<1>1. /\ f.aes \in Nat /\ f.xor \in Nat /\ f.aes + f.xor <= Bytes /\ Bytes \in Nat /\ n \in Nat \ {0}
      /\ m \in Nat /\ f.aes + n + m + f.xor = Bytes + n
  BY DatSizes
<1>2. Body(f) = A \o B \o C \o D
  BY DEF Body, PadOf
<1>3. ASSUME NEW i \in 1..f.aes
      PROVE  [by |-> "aes", byte |-> <<f.md5, i>>] = g[i]
  <2>1. i \in 1..Bytes + n /\ i <= f.aes + n
    BY <1>1
  <2>2. g[i] = Cell(f, i)
    BY <2>1
  <2> HIDE DEF g, n
  <2> QED
    BY <2>1, <2>2 DEF Cell, n
<1>4. ASSUME NEW i \in 1..n
      PROVE  [by |-> "aes", byte |-> Pad(n)] = g[f.aes + i]
  <2>1. f.aes + i \in 1..Bytes + n /\ ~(f.aes + i <= f.aes) /\ f.aes + i <= f.aes + n
    BY <1>1
  <2>2. g[f.aes + i] = Cell(f, f.aes + i)
    BY <2>1
  <2> HIDE DEF g, n
  <2> QED
    BY <2>1, <2>2 DEF Cell, n
<1>5. ASSUME NEW i \in 1..m
      PROVE  [by |-> "none", byte |-> <<f.md5, f.aes + i>>] = g[f.aes + n + i]
  <2>1. f.aes + n + i \in 1..Bytes + n /\ f.aes + n + i - n = f.aes + i
    BY <1>1
  <2>2. g[f.aes + n + i] = Cell(f, f.aes + n + i)
    BY <2>1
  <2> HIDE DEF g, n
  <2> QED
    BY <1>1, <2>1, <2>2 DEF Cell, n
<1>6. ASSUME NEW i \in 1..f.xor
      PROVE  [by |-> "xor", byte |-> <<f.md5, Bytes - f.xor + i>>] = g[f.aes + n + m + i]
  <2>1. f.aes + n + m + i \in 1..Bytes + n /\ f.aes + n + m + i - n = Bytes - f.xor + i
    BY <1>1
  <2>2. g[f.aes + n + m + i] = Cell(f, f.aes + n + m + i)
    BY <2>1
  <2> HIDE DEF g, n
  <2> QED
    BY <1>1, <2>1, <2>2 DEF Cell, n
<1>7. /\ Piece(A, g, 0, f.aes) /\ Piece(B, g, f.aes, n)
      /\ Piece(C, g, f.aes + n, m) /\ Piece(D, g, f.aes + n + m, f.xor)
  <2> HIDE DEF g, n, m
  <2> QED
    BY <1>3, <1>4, <1>5, <1>6 DEF Piece
<1>8. g = [i \in 1..Bytes + n |-> g[i]]
  OBVIOUS
<1> HIDE DEF g, n, m, A, B, C, D
<1>9. Piece(A \o B, g, 0, f.aes + n)
  BY <1>1, <1>7, Pieces
<1>10. Piece(A \o B \o C, g, 0, f.aes + n + m)
  BY <1>1, <1>7, <1>9, Pieces
<1>11. Piece(A \o B \o C \o D, g, 0, f.aes + n + m + f.xor)
  BY <1>1, <1>7, <1>10, Pieces
<1> QED
  <2>1. Body(f) = [i \in 1..Bytes + n |-> g[0 + i]]
    BY <1>1, <1>2, <1>11 DEF Piece
  <2> QED
    BY <2>1, <1>1 DEF g, n

-----------------------------------------------------------------------------
\* What the right key, or one with a wrong tail, makes of a whole file.
LEMMA DecodedParts ==
  ASSUME NEW f, DatLike(f), NEW key, key.aes = TRUE, key.xor \in BOOLEAN
  PROVE  /\ Len(Parts(f, Body(f), key)) = Bytes
         /\ Parts(f, Body(f), key) \in Seq((Picture \X Nat) \cup {Garbage})
         /\ \A i \in 1..Bytes :
              \/ Parts(f, Body(f), key)[i] = <<f.md5, i>>
              \/ ~key.xor /\ Parts(f, Body(f), key)[i] = Garbage
<1> DEFINE n == PadOf(f)
           body == Body(f)
           aesEnd == Aligned(f.aes)
           rawEnd == Len(body) - f.xor
           aes == [i \in 1..aesEnd |-> Decrypted(body[i], "aes", key.aes)]
           m == Bytes - f.aes - f.xor
           R == [i \in 1..rawEnd - aesEnd |-> Decrypted(body[aesEnd + i], "none", TRUE)]
           X == [i \in 1..f.xor |-> Decrypted(body[rawEnd + i], "xor", key.xor)]
           g == [i \in 1..Bytes |-> IF i <= Bytes - f.xor \/ key.xor THEN <<f.md5, i>> ELSE Garbage]
<1> HIDE DEF n, body, aesEnd, rawEnd, aes, m, R, X, g
<1>1. /\ f.aes \in Nat /\ f.xor \in Nat /\ f.aes + f.xor <= Bytes /\ Bytes \in Nat \ {0} /\ n \in Nat \ {0}
      /\ n \in 1..Block /\ m \in Nat /\ f.aes + m + f.xor = Bytes /\ f.md5 \in Picture
  BY DatSizes DEF DatLike, n, m
<1>2. body = [i \in 1..Bytes + n |-> Cell(f, i)] /\ Len(body) = Bytes + n
  <2>1. body = [i \in 1..Bytes + n |-> Cell(f, i)]
    BY BodyCells DEF body, n
  <2> QED
    BY <1>1, <2>1
<1>3. aesEnd = f.aes + n /\ rawEnd = Bytes + n - f.xor /\ rawEnd - aesEnd = m
  <2>1. f.aes % Block \in Int /\ Block \in Int
    <3>1. \A a, b \in Nat : b # 0 => a % b \in Int
      OBVIOUS
    <3> QED
      BY <1>1, <3>1, DatSizes
  <2>2. aesEnd = f.aes + n
    BY <1>1, <2>1 DEF Aligned, PadOf, aesEnd, n
  <2>3. rawEnd = Bytes + n - f.xor
    <3>1. Len(body) = Bytes + n
      BY <1>2
    <3> QED
      BY <1>1, <3>1 DEF rawEnd
  <2> QED
    BY <1>1, <2>2, <2>3
<1>4. /\ \A i \in 1..f.aes : aes[i] = <<f.md5, i>>
      /\ \A i \in 1..f.aes + n : i > f.aes => aes[i] = Pad(n)
  <2>2. ASSUME NEW i \in 1..f.aes + n PROVE aes[i] = IF i <= f.aes THEN <<f.md5, i>> ELSE Pad(n)
    <3>1. aes[i] = Decrypted(body[i], "aes", key.aes)
      BY <1>3 DEF aes
    <3>2. body[i] = Cell(f, i)
      BY <1>1, <1>2
    <3> QED
      BY <1>1, <3>1, <3>2 DEF Cell, Decrypted, n
  <2> QED
    <3>1. \A i \in 1..f.aes : i \in 1..f.aes + n /\ i <= f.aes
      BY <1>1
    <3>2. \A i \in 1..f.aes + n : i > f.aes => ~(i <= f.aes)
      BY <1>1
    <3> QED
      BY <2>2, <3>1, <3>2
<1>5. Len(aes) = f.aes + n
  BY <1>1, <1>3 DEF aes
<1>6. Padding(aes) = n
  <2>1. aes[Len(aes)] = Pad(n)
    <3>1. Len(aes) \in 1..f.aes + n /\ Len(aes) > f.aes
      BY <1>1, <1>5
    <3> QED
      BY <1>4, <3>1
  <2>2. aes[Len(aes)][2] = n
    BY <2>1 DEF Pad
  <2>3. \A i \in {j \in 1..Len(aes) : Len(aes) - n < j} : aes[i] = Pad(n)
    <3>1. ASSUME NEW i \in 1..Len(aes), Len(aes) - n < i PROVE aes[i] = Pad(n)
      <4>1. i \in 1..f.aes + n /\ i > f.aes
        BY <1>1, <1>5, <3>1
      <4> QED
        BY <4>1, <1>4
    <3> QED
      BY <3>1
  <2>4. n <= Len(aes)
    BY <1>1, <1>5
  <2> QED
    BY <1>1, <2>2, <2>3, <2>4 DEF Padding
<1>7. SubSeq(aes, 1, aesEnd - Padding(aes)) = [i \in 1..f.aes |-> aes[i]]
  <2>1. aesEnd - Padding(aes) = f.aes
    BY <1>1, <1>3, <1>6
  <2>2. SubSeq(aes, 1, f.aes) = [i \in 1..f.aes |-> aes[i]]
    <3> QED
      BY <1>1
  <2> QED
    BY <2>1, <2>2
<1>8. Piece(SubSeq(aes, 1, aesEnd - Padding(aes)), g, 0, f.aes)
  <2>1. \A i \in 1..f.aes : aes[i] = g[0 + i]
    <3>1. ASSUME NEW i \in 1..f.aes PROVE aes[i] = g[0 + i]
      <4>1. 0 + i = i /\ i \in 1..Bytes /\ i <= Bytes - f.xor
        BY <1>1
      <4>2. g[i] = <<f.md5, i>>
        BY <4>1 DEF g
      <4> QED
        BY <4>1, <4>2, <1>4
    <3> QED
      BY <3>1
  <2> QED
    BY <1>7, <2>1 DEF Piece
<1>9. Piece(R, g, f.aes, m)
  <2>1. ASSUME NEW i \in 1..m PROVE Decrypted(body[aesEnd + i], "none", TRUE) = g[f.aes + i]
    <3>1. aesEnd + i \in 1..Bytes + n /\ aesEnd + i = f.aes + n + i /\ f.aes + i \in 1..Bytes
          /\ f.aes + i <= Bytes - f.xor /\ f.aes + n + i - n = f.aes + i
          /\ f.aes + n + i <= Bytes + n - f.xor
      BY <1>1, <1>3
    <3>2. body[aesEnd + i] = Cell(f, f.aes + n + i)
      BY <1>2, <3>1
    <3>3. g[f.aes + i] = <<f.md5, f.aes + i>>
      BY <3>1 DEF g
    <3> QED
      BY <1>1, <3>1, <3>2, <3>3 DEF Cell, Decrypted, n
  <2> QED
    BY <1>3, <2>1 DEF Piece, R, X
<1>10. Piece(X, g, f.aes + m, f.xor)
  <2>1. ASSUME NEW i \in 1..f.xor PROVE Decrypted(body[rawEnd + i], "xor", key.xor) = g[f.aes + m + i]
    <3>1. rawEnd + i \in 1..Bytes + n /\ f.aes + m + i \in 1..Bytes /\ ~(f.aes + m + i <= Bytes - f.xor)
          /\ rawEnd + i - n = f.aes + m + i /\ ~(rawEnd + i <= Bytes + n - f.xor)
          /\ ~(rawEnd + i <= f.aes + n) /\ ~(rawEnd + i <= f.aes)
      BY <1>1, <1>3
    <3>2. body[rawEnd + i] = Cell(f, rawEnd + i)
      BY <1>2, <3>1
    <3>3. g[f.aes + m + i] = IF key.xor THEN <<f.md5, f.aes + m + i>> ELSE Garbage
      BY <3>1 DEF g
    <3>4. Cell(f, rawEnd + i) = [by |-> "xor", byte |-> <<f.md5, f.aes + m + i>>]
      <4>1. Cell(f, rawEnd + i) =
              [by |-> IF rawEnd + i <= f.aes + n THEN "aes"
                      ELSE IF rawEnd + i <= Bytes + n - f.xor THEN "none" ELSE "xor",
               byte |-> IF rawEnd + i <= f.aes THEN <<f.md5, rawEnd + i>>
                        ELSE IF rawEnd + i <= f.aes + n THEN Pad(n) ELSE <<f.md5, rawEnd + i - n>>]
        BY <1>1, <1>3 DEF Cell, n
      <4>2. /\ ~(rawEnd + i <= f.aes + n) /\ ~(rawEnd + i <= Bytes + n - f.xor)
            /\ ~(rawEnd + i <= f.aes) /\ rawEnd + i - n = f.aes + m + i
        BY <3>1
      <4> QED
        BY <4>1, <4>2, Zenon
    <3> QED
      BY <3>2, <3>3, <3>4 DEF Decrypted
  <2> QED
    BY <1>3, <2>1 DEF Piece, R, X
<1>11. Parts(f, Body(f), key) = SubSeq(aes, 1, aesEnd - Padding(aes)) \o R \o X
  <2>1. /\ ~(aesEnd > Len(body)) /\ ~(f.xor > Len(body)) /\ ~(aesEnd > rawEnd)
    <3>1. Len(body) = Bytes + n /\ aesEnd = f.aes + n /\ rawEnd = Bytes + n - f.xor
      BY <1>2, <1>3
    <3> QED
      BY <1>1, <3>1
  <2>2. Padding(aes) # 0
    BY <1>1, <1>6
  <2> QED
    BY <2>1, <2>2 DEF Parts, R, X, aes, body, aesEnd, rawEnd
<1>12. Piece(SubSeq(aes, 1, aesEnd - Padding(aes)) \o R, g, 0, f.aes + m)
  BY <1>1, <1>8, <1>9, Pieces
<1>13. Piece(Parts(f, Body(f), key), g, 0, f.aes + m + f.xor)
  BY <1>1, <1>10, <1>11, <1>12, Pieces
<1>14. Parts(f, Body(f), key) = [i \in 1..Bytes |-> g[0 + i]]
  BY <1>1, <1>13 DEF Piece
<1>15. \A i \in 1..Bytes : g[0 + i] = IF i <= Bytes - f.xor \/ key.xor THEN <<f.md5, i>> ELSE Garbage
  BY <1>1 DEF g
<1>16. \A i \in 1..Bytes : <<f.md5, i>> \in Picture \X Nat
  BY <1>1
<1> DEFINE P == Parts(f, Body(f), key)
<1>17. \A i \in 1..Bytes : P[i] = IF i <= Bytes - f.xor \/ key.xor THEN <<f.md5, i>> ELSE Garbage
  BY <1>14, <1>15
<1>18. P \in [1..Bytes -> (Picture \X Nat) \cup {Garbage}]
  <2>1. P = [i \in 1..Bytes |-> P[i]]
    BY <1>14
  <2> HIDE DEF P
  <2> QED
    BY <2>1, <1>16, <1>17
<1> HIDE DEF P
<1>19. P \in Seq((Picture \X Nat) \cup {Garbage}) /\ Len(P) = Bytes
  BY <1>1, <1>18
<1> QED
  BY <1>17, <1>19 DEF P

-----------------------------------------------------------------------------
\* A row of message_resource.db is some message's, with its time or no message's.
RowLike(r) ==
  \E m \in messages : r.lid = m[1] /\ r.md5 = m[3] /\ r.time \in {m[2], MaxMonth + 1}

ResourceRow == [lid : LocalIds, time : Nat, md5 : Picture]

PictureInv ==
  /\ messages \subseteq LocalIds \X (1..MaxMonth) \X Picture
  /\ \A m, n \in messages : m[1] = n[1] /\ m[2] = n[2] => m = n
  /\ resources \in Seq(ResourceRow) /\ \A i \in 1..Len(resources) : RowLike(resources[i])
  /\ \A f \in dats : DatLike(f)
  /\ stage \in {"fetch", "find", "read", "write"} => asked \in messages
  /\ copy \in Seq(ResourceRow) /\ \A i \in 1..Len(copy) : RowLike(copy[i])
  /\ stage \in {"read", "write"} => DatLike(path) /\ path.md5 = Lookup(asked)
  /\ stage = "write" => dat = Body(path)

\* The message's own row gives the message's own picture.
LEMMA OwnPicture ==
  ASSUME PictureInv, stage = "write", OwnRow
  PROVE  path.md5 = asked[3]
<1> DEFINE same == {i \in 1..Len(copy) : copy[i].lid = asked[1]}
           exact == {i \in same : copy[i].time = asked[2]}
           k == CHOOSE i \in exact : \A j \in exact : i >= j
<1>1. Len(copy) \in Nat /\ exact # {} /\ exact \subseteq 1..Len(copy)
  BY DEF PictureInv, OwnRow
<1>3. \E i \in exact : \A j \in exact : i >= j
  <2>1. exact \subseteq 0..Len(copy)
    BY <1>1
  <2>2. PICK i \in exact : \A j \in exact : j <= i
    <3> HIDE DEF exact
    <3> QED
      BY <1>1, <2>1, Greatest
  <2>3. \A j \in exact : j \in Nat
    BY <2>1
  <2> HIDE DEF exact
  <2>4. \A j \in exact : i >= j
    BY <2>2, <2>3
  <2> QED
    BY <2>4
<1>4. k \in exact
  <2> HIDE DEF exact
  <2> QED
    BY <1>3
<1>5. Lookup(asked) = copy[k].md5
  BY <1>1 DEF Lookup
<1>6. k \in 1..Len(copy) /\ copy[k].lid = asked[1] /\ copy[k].time = asked[2]
  BY <1>4
<1> HIDE DEF k
<1>7. PICK m \in messages : copy[k].lid = m[1] /\ copy[k].md5 = m[3] /\ copy[k].time \in {m[2], MaxMonth + 1}
  BY <1>6 DEF PictureInv, RowLike
<1>8. asked \in messages /\ asked[2] \in 1..MaxMonth /\ MaxMonth \in Nat
  BY AttachmentsAssumption DEF PictureInv
<1>9. m = asked
  <2>1. m[1] = asked[1] /\ m[2] = asked[2]
    BY <1>6, <1>7, <1>8
  <2> QED
    BY <1>8, <2>1 DEF PictureInv
<1> QED
  BY <1>5, <1>7, <1>9 DEF PictureInv

\* The keys that can be come by: on macOS both of the two or none.
LEMMA Keys ==
  ASSUME NEW h \in Hints, NEW key \in KeyMaterial(h)
  PROVE  /\ key.aes \in BOOLEAN /\ key.xor \in BOOLEAN
         /\ h.platform = "macos" => key \in {NoKey, WholeKey}
<1>1. \A d \in BOOLEAN : Voted(d) \subseteq BOOLEAN
  BY DEF Voted
<1>2. h.default \in BOOLEAN /\ h.platform \in {"macos", "windows", "linux"}
  BY DEF Hints
<1>3. MacKey(h) \subseteq {NoKey, WholeKey}
  BY DEF MacKey
<1>4. \A x \in WindowsKey(h) : x.aes \in BOOLEAN /\ x.xor \in BOOLEAN
  <2>1. \A right \in BOOLEAN : [aes |-> TRUE, xor |-> right].aes = TRUE /\ [aes |-> TRUE, xor |-> right].xor = right
    OBVIOUS
  <2>2. NoKey.aes = FALSE /\ NoKey.xor = FALSE
    BY DEF NoKey
  <2>3. ASSUME NEW x \in WindowsKey(h) PROVE x = NoKey \/ \E right \in BOOLEAN : x = [aes |-> TRUE, xor |-> right]
    BY <1>1, <1>2 DEF WindowsKey
  <2> QED
    BY <2>1, <2>2, <2>3
<1>5. NoKey.aes = FALSE /\ NoKey.xor = FALSE /\ WholeKey.aes = TRUE /\ WholeKey.xor = TRUE
  BY DEF NoKey, WholeKey
<1>6. CASE V2Files = {} \/ h.platform = "linux"
  BY <1>2, <1>5, <1>6 DEF KeyMaterial
<1>7. CASE V2Files # {} /\ h.platform = "macos"
  BY <1>3, <1>5, <1>7 DEF KeyMaterial
<1>8. CASE V2Files # {} /\ h.platform = "windows"
  BY <1>4, <1>8 DEF KeyMaterial
<1> QED
  BY <1>2, <1>6, <1>7, <1>8

LEMMA PictureInitInv == PictureInit => PictureInv /\ ExtractedIsOwn
BY DEF PictureInit, PictureInv, ExtractedIsOwn

\* WeChat's steps leave the request alone, and add what it may rely on.
LEMMA SendStep ==
  ASSUME PictureInv, NEW m \in LocalIds \X (1..MaxMonth) \X Picture, Send(m)
  PROVE  PictureInv'
<1> USE DEF Send, Idle
<1>1. messages' \subseteq LocalIds \X (1..MaxMonth) \X Picture
  BY DEF PictureInv
<1>2. \A x, y \in messages' : x[1] = y[1] /\ x[2] = y[2] => x = y
  BY DEF PictureInv
<1>3. \A r : RowLike(r) => RowLike(r)'
  BY DEF RowLike
<1>4. Lookup(asked)' = Lookup(asked) /\ UNCHANGED <<resources, dats, stage, asked, copy, path, dat, written>>
  BY DEF Lookup
<1> QED
  BY <1>1, <1>2, <1>3, <1>4 DEF PictureInv, ResourceRow, DatLike, Body, Pad

LEMMA IndexStep ==
  ASSUME PictureInv, NEW m \in messages, Index(m)
  PROVE  PictureInv'
<1>1. PICK t \in {m[2], MaxMonth + 1} : resources' = Append(resources, [lid |-> m[1], time |-> t, md5 |-> m[3]])
  BY DEF Index
<1> DEFINE r == [lid |-> m[1], time |-> t, md5 |-> m[3]]
<1>2. r \in ResourceRow /\ RowLike(r)
  BY AttachmentsAssumption DEF PictureInv, ResourceRow, RowLike
<1>3. UNCHANGED <<messages, dats, stage, asked, copy, path, dat, written>>
  BY DEF Index, Idle
<1>4. \A x : RowLike(x)' <=> RowLike(x)
  BY <1>3 DEF RowLike
<1>5. resources' \in Seq(ResourceRow) /\ \A i \in 1..Len(resources') : RowLike(resources'[i])
  <2>1. resources \in Seq(ResourceRow) /\ \A i \in 1..Len(resources) : RowLike(resources[i])
    BY DEF PictureInv
  <2> HIDE DEF r
  <2>2. resources' = Append(resources, r)
    BY <1>1 DEF r
  <2>3. ASSUME NEW i \in 1..Len(resources') PROVE RowLike(resources'[i])
    <3>1. CASE i \in 1..Len(resources)
      BY <1>2, <2>1, <2>2, <3>1
    <3>2. CASE i = Len(resources) + 1
      BY <1>2, <2>1, <2>2, <3>2
    <3> QED
      BY <2>1, <2>2, <1>2, <3>1, <3>2
  <2> QED
    BY <1>2, <2>1, <2>2, <2>3
<1>6. Lookup(asked)' = Lookup(asked)
  BY <1>3 DEF Lookup
<1> QED
  BY <1>3, <1>4, <1>5, <1>6 DEF PictureInv, ResourceRow, DatLike, Body, Pad

LEMMA DatStep ==
  ASSUME PictureInv, \/ \E m \in messages : Download(m)
                     \/ \E f \in dats : Clean(f)
  PROVE  PictureInv'
<1>1. UNCHANGED <<messages, resources, stage, asked, copy, path, dat, written>>
  BY DEF Download, Clean, Idle
<1>2. \A f \in dats' : DatLike(f)
  <2>1. CASE \E m \in messages : Download(m)
    <3>1. PICK m \in messages : Download(m)
      BY <2>1
    <3>2. PICK s \in ToSet(Sizes), e \in Encodings, delay \in Delays :
            dats' = dats \cup {[month |-> m[2] + delay, md5 |-> m[3], size |-> s, enc |-> e,
                                aes |-> Layout[m[3]][1], xor |-> Layout[m[3]][2]]}
      BY <3>1 DEF Download
    <3>3. m[3] \in Picture
      BY DEF PictureInv
    <3> QED
      BY <3>2, <3>3 DEF PictureInv, DatLike
  <2>2. CASE \E f \in dats : Clean(f)
    BY <2>2 DEF Clean, PictureInv
  <2> QED
    BY <2>1, <2>2
<1>3. \A x : RowLike(x)' <=> RowLike(x)
  BY <1>1 DEF RowLike
<1>4. Lookup(asked)' = Lookup(asked)
  BY <1>1 DEF Lookup
<1>5. \A f \in dats' : DatLike(f)'
  BY <1>2 DEF DatLike
<1> QED
  BY <1>1, <1>3, <1>4, <1>5 DEF PictureInv, ResourceRow, DatLike, Body, Pad

\* The request.
LEMMA RequestStep ==
  ASSUME PictureInv, (\E m \in messages : Ask(m)) \/ Fetch \/ Locate \/ Read \/ Write
  PROVE  PictureInv'
<1>1. UNCHANGED <<messages, resources, dats>>
  BY DEF Ask, Fetch, Locate, Read, Write, World
<1>2. \A x : RowLike(x)' <=> RowLike(x)
  BY <1>1 DEF RowLike
<1> DEFINE World1 == /\ messages' \subseteq LocalIds \X (1..MaxMonth) \X Picture
                     /\ \A m, n \in messages' : m[1] = n[1] /\ m[2] = n[2] => m = n
                     /\ resources' \in Seq(ResourceRow) /\ \A i \in 1..Len(resources') : RowLike(resources'[i])
                     /\ \A f \in dats' : DatLike(f)
<1>3. World1
  BY <1>1 DEF PictureInv
<1>4. CASE \E m \in messages : Ask(m)
  BY <1>1, <1>2, <1>3, <1>4 DEF Ask, PictureInv, ResourceRow, DatLike
<1>5. CASE Fetch
  BY <1>1, <1>2, <1>3, <1>5 DEF Fetch, PictureInv, ResourceRow, DatLike
<1>6. CASE Over
  <2>1. copy' \in Seq(ResourceRow) /\ Len(copy') = 0
    BY <1>6 DEF Over
  <2> QED
    BY <1>1, <1>2, <1>3, <1>6, <2>1 DEF Over, PictureInv, ResourceRow, DatLike
<1>7. CASE Locate /\ ~Over
  <2>1. PICK f \in Find(asked, Lookup(asked)) : path' = f
    BY <1>7 DEF Locate, Fail
  <2>2. stage = "find" /\ stage' = "read" /\ UNCHANGED <<asked, copy, dat, written>>
    BY <1>7 DEF Locate, Fail
  <2>3. f \in dats /\ f.md5 = Lookup(asked)
    BY <2>1 DEF Find, BestIn
  <2>4. DatLike(path') /\ path'.md5 = Lookup(asked)
    BY <2>1, <2>3 DEF PictureInv
  <2>5. Lookup(asked)' = Lookup(asked)
    BY <2>2 DEF Lookup
  <2> QED
    BY <1>1, <1>2, <1>3, <2>2, <2>4, <2>5 DEF PictureInv, ResourceRow, DatLike
<1>8. CASE Read /\ ~Over
  <2>1. stage = "read" /\ stage' = "write" /\ dat' = Body(path) /\ UNCHANGED <<asked, copy, path, written>>
    BY <1>8 DEF Read, Fail
  <2>2. Lookup(asked)' = Lookup(asked) /\ Body(path)' = Body(path)
    BY <2>1 DEF Lookup, Body, Pad
  <2> QED
    BY <1>1, <1>2, <1>3, <2>1, <2>2 DEF PictureInv, ResourceRow, DatLike
<1>9. Write => Over
  BY DEF Write
<1> QED
  BY <1>4, <1>5, <1>6, <1>7, <1>8, <1>9

\* Only Write writes, and what it writes is the message's own.
LEMMA WriteExact ==
  ASSUME PictureInv, Write
  PROVE  ExtractedIsOwn'
<1>1. PICK k \in UNION {{<<h.platform, key>> : key \in KeyMaterial(h)} : h \in Hints} :
        written' = [of |-> asked, own |-> OwnRow, platform |-> k[1], key |-> k[2],
                    enc |-> path.enc, data |-> Decode(path, dat, k[2])]
  BY DEF Write
<1>2. PICK h \in Hints : k \in {<<h.platform, key>> : key \in KeyMaterial(h)}
  OBVIOUS
<1>3. PICK key \in KeyMaterial(h) : k = <<h.platform, key>>
  BY <1>2
<1>4. written' = [of |-> asked, own |-> OwnRow, platform |-> h.platform, key |-> key,
                  enc |-> path.enc, data |-> Decode(path, dat, key)]
  <2>1. k[1] = h.platform /\ k[2] = key
    BY <1>3
  <2> QED
    BY <1>1, <2>1
<1>5. stage = "write" /\ DatLike(path) /\ dat = Body(path)
  BY DEF Write, PictureInv
<1>6. key.aes \in BOOLEAN /\ key.xor \in BOOLEAN /\ (h.platform = "macos" => key \in {NoKey, WholeKey})
  BY Keys
<1> DEFINE data == Decode(path, dat, key)
           Known == ~(path.enc = "v2" /\ ~key.aes)
<1>7. Bytes \in Nat \ {0} /\ path.md5 \in Picture /\ path.enc \in {"v2", "v1", "xor"}
  BY <1>5, AttachmentsAssumption DEF DatLike, Encodings
<1>8. ~Known => data = <<>>
  BY <1>5 DEF Decode
<1>9. Known => /\ Len(data) = Bytes /\ data # <<>>
               /\ \A i \in 1..Bytes : \/ data[i] = <<path.md5, i>>
                                      \/ ~key.xor /\ path.enc # "xor" /\ data[i] = Garbage
               /\ ToSet(data) = {data[i] : i \in 1..Bytes}
  <2>1. CASE path.enc = "xor"
    <3>1. data = [i \in 1..Bytes |-> <<path.md5, i>>]
      BY <2>1 DEF Decode, ToldByHead, Plain
    <3>2. data \in Seq(Picture \X Nat) /\ Len(data) = Bytes
      BY <1>7, <3>1
    <3> HIDE DEF data
    <3> QED
      BY <1>7, <3>1, <3>2 DEF ToSet
  <2>2. CASE path.enc # "xor" /\ Known
    <3>1. PICK used : used.aes = TRUE /\ used.xor = key.xor /\ data = Parts(path, Body(path), used)
      <4>1. CASE path.enc = "v1"
        <5>1. data = Parts(path, Body(path), [aes |-> TRUE, xor |-> key.xor])
          BY <1>5, <4>1 DEF Decode
        <5> QED
          BY <5>1
      <4>2. CASE path.enc = "v2"
        <5>1. key.aes = TRUE /\ data = Parts(path, Body(path), key)
          BY <1>5, <1>6, <2>2, <4>2 DEF Decode
        <5> QED
          BY <5>1
      <4> QED
        BY <1>7, <2>2, <4>1, <4>2
    <3> HIDE DEF data
    <3>2. /\ Len(data) = Bytes /\ data \in Seq((Picture \X Nat) \cup {Garbage})
          /\ \A i \in 1..Bytes : data[i] = <<path.md5, i>> \/ (~key.xor /\ data[i] = Garbage)
      BY <1>5, <1>6, <3>1, DecodedParts
    <3> QED
      BY <1>7, <2>2, <3>2 DEF ToSet
  <2> QED
    BY <2>1, <2>2
<1>10. path.enc = "v2" /\ h.platform = "macos" => Garbage \notin ToSet(data)
  <2>1. ToSet(<<>>) = {}
    BY DEF ToSet
  <2>2. Known /\ path.enc = "v2" /\ h.platform = "macos" => key.xor = TRUE
    BY <1>6 DEF NoKey, WholeKey
  <2>3. \A i \in 1..Bytes : <<path.md5, i>> # Garbage
    BY <1>7, AttachmentsAssumption DEF Garbage
  <2> HIDE DEF data
  <2> QED
    BY <1>8, <1>9, <2>1, <2>2, <2>3
<1>11. OwnRow => path.md5 = asked[3]
  BY <1>5, OwnPicture
<1>12. \A i \in 1..Bytes : Plain(asked[3])[i] = <<asked[3], i>>
  BY DEF Plain
<1> HIDE DEF data
<1>13. /\ written'.data = data /\ written'.enc = path.enc /\ written'.key = key /\ written'.own = OwnRow
       /\ written'.platform = h.platform /\ written'.of = asked
  BY <1>4 DEF data
<1> QED
  BY <1>8, <1>9, <1>10, <1>11, <1>12, <1>13 DEF ExtractedIsOwn, Plain, Garbage

\* The picture that is extracted is that of the message that was asked for, for any
\* number of messages, pictures, files and sizes, whatever WeChat stores and deletes while
\* the request runs (resolver.rs:47-277, decoder/v2.rs:23-126).
THEOREM ExtractedOwn == PictureSpec => []ExtractedIsOwn
<1>1. PictureInv /\ ExtractedIsOwn /\ [PictureNext]_pictureVars => PictureInv' /\ ExtractedIsOwn'
  <2> SUFFICES ASSUME PictureInv, ExtractedIsOwn, [PictureNext]_pictureVars
               PROVE  PictureInv' /\ ExtractedIsOwn'
    OBVIOUS
  <2>1. CASE UNCHANGED pictureVars
    <3>1. PictureInv'
      <4>1. UNCHANGED <<messages, resources, dats, stage, asked, copy, path, dat>>
        BY <2>1 DEF pictureVars
      <4>2. Lookup(asked)' = Lookup(asked)
        BY <4>1 DEF Lookup
      <4>3. Body(path)' = Body(path)
        BY <4>1 DEF Body, Pad
      <4> QED
        BY <4>1, <4>2, <4>3 DEF PictureInv, RowLike, ResourceRow, DatLike
    <3>2. ExtractedIsOwn'
      BY <2>1 DEF pictureVars, ExtractedIsOwn, Plain, Garbage
    <3> QED
      BY <3>1, <3>2
  <2>2. CASE PictureNext
    <3>1. PictureInv'
      BY <2>2, SendStep, IndexStep, DatStep, RequestStep DEF PictureNext
    <3>2. Write \/ UNCHANGED written
      BY <2>2 DEF PictureNext, Send, Index, Download, Clean, Idle, Ask, Fetch, Locate, Read, Fail
    <3>3. UNCHANGED written => ExtractedIsOwn'
      BY DEF ExtractedIsOwn, Plain, Garbage
    <3> QED
      BY <3>1, <3>2, <3>3, WriteExact
  <2> QED
    BY <2>1, <2>2
<1> QED
  BY <1>1, PictureInitInv, PTL DEF PictureSpec

-----------------------------------------------------------------------------
(* Listings.                                                               *)

\* Every row is one that WeChat may store, with a number of its own.
ListInv ==
  /\ kind \in Kinds /\ milli \in BOOLEAN /\ (kind # "favorites" => ~milli)
  /\ IsFiniteSet(rows)
  /\ \A r \in rows : r.id \in 1..Cardinality(rows) /\ r \in RowOf(kind, r.id)
  /\ \A r, s \in rows : r.id = s.id => r = s

LEMMA ListInitInv == ListInit => ListInv
BY FS_EmptySet DEF ListInit, ListInv, Kinds

LEMMA RowNumber ==
  ASSUME NEW k \in Kinds, NEW n, NEW r \in RowOf(k, n)
  PROVE  r.id = n
BY DEF RowOf, Kinds

LEMMA ListStep == ListInv /\ [ListNext]_listVars => ListInv'
<1> SUFFICES ASSUME ListInv, [ListNext]_listVars
             PROVE  ListInv'
  OBVIOUS
<1>1. CASE UNCHANGED listVars
  BY <1>1 DEF ListInv, listVars
<1>2. CASE ListNext
  <2> DEFINE n == Cardinality(rows) + 1
  <2>1. PICK r \in RowOf(kind, n) : Store(r)
    BY <1>2 DEF ListNext
  <2>2. Cardinality(rows) \in Nat
    BY FS_CardinalityType DEF ListInv
  <2>3. r.id = n /\ r \notin rows
    BY <2>2, RowNumber DEF ListInv
  <2>4. IsFiniteSet(rows') /\ Cardinality(rows') = n
    <3>1. rows' = rows \cup {r}
      BY <2>1 DEF Store
    <3> QED
      BY <2>3, <3>1, FS_AddElement DEF ListInv
  <2>5. rows' = rows \cup {r} /\ kind' = kind /\ milli' = milli
    BY <2>1 DEF Store
  <2>6. \A s \in rows' : s.id \in 1..n /\ s \in RowOf(kind, s.id)
    <3>1. \A s \in rows : s.id \in 1..Cardinality(rows) /\ s \in RowOf(kind, s.id)
      BY DEF ListInv
    <3> QED
      BY <2>2, <2>3, <2>5, <3>1
  <2>7. \A s, t \in rows' : s.id = t.id => s = t
    <3>1. \A s \in rows : s.id # n
      BY <2>2 DEF ListInv
    <3> QED
      BY <2>3, <2>5, <3>1 DEF ListInv
  <2> QED
    BY <2>4, <2>5, <2>6, <2>7 DEF ListInv
<1> QED
  BY <1>1, <1>2

\* The fields that the lists look at.
LEMMA Fields ==
  ASSUME ListInv, NEW r \in rows
  PROVE  /\ r.id \in Nat
         /\ kind = "sessions" => r.time \in Nat
         /\ kind = "favorites" => r.time \in Times
         /\ kind = "notices" => r.time \in Times
         /\ kind = "moments" => r.time \in Times
         /\ kind = "messages" =>
              /\ r.time \in Times /\ r.shard \in Shards /\ r.base \in Bases
              /\ r.sender \in Senders \cup {Chat, NoOne}
<1>1. r \in RowOf(kind, r.id) /\ r.id \in 1..Cardinality(rows)
  BY DEF ListInv
<1>2. Cardinality(rows) \in Nat
  BY FS_CardinalityType DEF ListInv
<1>3. Times \subseteq Nat
  BY ListingsAssumption
<1> QED
  BY <1>1, <1>2, <1>3 DEF RowOf

\* A table that is not longer than one scan is scanned to its end.
LEMMA ScannedAll ==
  ASSUME ListInv, NEW S \in SUBSET rows, Cardinality(rows) <= MaxScan
  PROVE  Scanned(S) = S
<1> SUFFICES ASSUME NEW r \in S
             PROVE  Cardinality({s \in S : s.id > r.id}) < MaxScan
  BY DEF Scanned
<1> DEFINE Before == {s \in S : s.id > r.id}
<1>1. IsFiniteSet(S) /\ Cardinality(S) <= Cardinality(rows) /\ Cardinality(rows) \in Nat
  BY FS_Subset, FS_CardinalityType DEF ListInv
<1>2. r.id \in Nat
  BY Fields
<1>3. Before \in SUBSET S /\ r \notin Before
  BY <1>2
<1> HIDE DEF Before
<1>4. Cardinality(Before) <= Cardinality(S) /\ Cardinality(Before) # Cardinality(S)
  BY <1>1, <1>3, FS_Subset
<1>5. Cardinality(Before) \in Nat /\ Cardinality(S) \in Nat
  BY <1>1, <1>3, FS_Subset, FS_CardinalityType
<1>6. Cardinality(Before) < MaxScan
  BY <1>1, <1>4, <1>5, ListingsAssumption
<1> QED
  BY <1>6 DEF Before

LEMMA UnreadNewest ==
  ASSUME NEW limit, NEW filter, NEW p \in Unread(limit, filter)
  PROVE  Newest(p, {r \in rows : r.unread > 0 /\ (filter = {} \/ r.type \in filter)}, limit, Time)
<1> DEFINE all == {r \in rows : r.unread > 0 /\ (filter = {} \/ r.type \in filter)}
<1>1. CASE filter = {}
  <2>1. all = {r \in rows : r.unread > 0}
    BY <1>1
  <2>2. p \in Tops(all, limit, Time)
    BY <1>1, <2>1 DEF Unread
  <2> HIDE DEF all
  <2>3. Newest(p, all, limit, Time)
    BY <2>2 DEF Tops, Newest, Time
  <2> QED
    BY <2>3 DEF all
<1>2. CASE filter # {}
  <2>1. all = {r \in {s \in rows : s.unread > 0} : r.type \in filter}
    BY <1>2
  <2>2. p \in Tops(all, limit, Time)
    BY <1>2, <2>1 DEF Unread
  <2> HIDE DEF all
  <2>3. Newest(p, all, limit, Time)
    BY <2>2 DEF Tops, Newest, Time
  <2> QED
    BY <2>3 DEF all
<1> QED
  BY <1>1, <1>2

LEMMA NoticesNewest ==
  ASSUME NEW read, NEW since, NEW until, NEW limit, NEW p \in Notices(read, since, until, limit)
  PROVE  Newest(p, {r \in rows : (read \/ r.unread = 1) /\ In(since, until, r.time)}, limit, Time)
<1> DEFINE all == {r \in rows : (read \/ r.unread = 1) /\ In(since, until, r.time)}
<1>1. p \in Tops(all, limit, Time)
  BY DEF Notices
<1> HIDE DEF all
<1>2. Newest(p, all, limit, Time)
  BY <1>1 DEF Tops, Newest, Time
<1> QED
  BY <1>2 DEF all

LEMMA FeedNewest ==
  ASSUME ListInv, Cardinality(rows) <= MaxScan, NEW S \in SUBSET rows,
         NEW user, NEW since, NEW until, NEW limit, NEW p \in Feed(S, user, since, until, limit)
  PROVE  Newest(p, PostsOf(S, user, since, until), limit, Time)
<1>1. p \in Tops(PostsOf(S, user, since, until), limit, Time)
  BY ScannedAll DEF Feed
<1> QED
  BY <1>1 DEF Tops, Newest, Time

LEMMA SearchesNewest ==
  ASSUME ListInv, Cardinality(rows) <= MaxScan,
         NEW user, NEW since, NEW until, NEW limit, NEW p \in Search(user, since, until, limit)
  PROVE  Newest(p, {r \in PostsOf(rows, user, since, until) : r.hit}, limit, Time)
<1> DEFINE hits == {r \in rows : r.hit}
<1>1. PostsOf(hits, user, since, until) = {r \in PostsOf(rows, user, since, until) : r.hit}
  BY DEF PostsOf
<1>2. hits \in SUBSET rows /\ p \in Feed(hits, user, since, until, limit)
  BY DEF Search
<1> HIDE DEF hits
<1>3. Newest(p, PostsOf(hits, user, since, until), limit, Time)
  BY <1>2, FeedNewest
<1> QED
  BY <1>1, <1>3

\* A time that is shown is the time of the row, in either unit, and the column is in
\* the order of the times.
LEMMA Divided ==
  ASSUME NEW t \in Nat, NEW m \in Nat \ {0}
  PROVE  (t * m) \div m = t
OBVIOUS

LEMMA Multiplied ==
  ASSUME NEW t \in Nat, NEW u \in Nat, NEW m \in Nat \ {0}, t * m >= u * m
  PROVE  t >= u
OBVIOUS

LEMMA ShownSeconds ==
  ASSUME ListInv, kind = "favorites", NEW r \in rows
  PROVE  Seconds(Stored(r)) = r.time
<1>1. r.time \in Times /\ r.time \in Nat /\ Milli \in Nat \ {0} /\ MilliFrom \in Nat
  BY Fields, ListingsAssumption
<1>2. r.time <= MilliFrom /\ r.time * Milli > MilliFrom
  BY <1>1, ListingsAssumption
<1>3. (r.time * Milli) \div Milli = r.time
  BY <1>1, Divided
<1>4. CASE milli
  BY <1>2, <1>3, <1>4 DEF Seconds, Stored
<1>5. CASE ~milli
  BY <1>1, <1>2, <1>5 DEF Seconds, Stored
<1> QED
  BY <1>4, <1>5

LEMMA StoredOrder ==
  ASSUME ListInv, kind = "favorites", NEW r \in rows, NEW s \in rows, Stored(r) >= Stored(s)
  PROVE  r.time >= s.time
<1>1. r.time \in Nat /\ s.time \in Nat /\ Milli \in Nat \ {0}
  BY Fields, ListingsAssumption
<1>2. CASE milli
  BY <1>1, <1>2, Multiplied DEF Stored
<1>3. CASE ~milli
  BY <1>3 DEF Stored
<1> QED
  BY <1>2, <1>3

\* A one-to-one image has as many elements.
LEMMA ImageSize ==
  ASSUME NEW S, IsFiniteSet(S), NEW f, DOMAIN f = S, f = [x \in S |-> f[x]],
         \A x, y \in S : f[x] = f[y] => x = y
  PROVE  LET T == {f[x] : x \in S}
         IN  IsFiniteSet(T) /\ Cardinality(T) = Cardinality(S)
<1> DEFINE T == {f[x] : x \in S}
<1>1. f \in [S -> T]
  OBVIOUS
<1>2. f \in Bijection(S, T)
  <2>1. \A t \in T : \E x \in S : f[x] = t
    OBVIOUS
  <2> HIDE DEF T
  <2>2. f \in Injection(S, T)
    BY <1>1 DEF Injection, IsInjective
  <2>3. f \in Surjection(S, T)
    BY <1>1, <2>1 DEF Surjection
  <2> QED
    BY <2>2, <2>3 DEF Bijection
<1>3. ExistsBijection(S, T)
  BY <1>2 DEF ExistsBijection
<1> HIDE DEF T
<1>4. IsFiniteSet(T) /\ Cardinality(T) = Cardinality(S)
  BY <1>3, FS_Bijection
<1> QED
  BY <1>4 DEF T

\* What a favorite is shown as.
Favorite(r) == [id |-> r.id, time |-> r.time]

LEMMA AsMany ==
  ASSUME ListInv, NEW S \in SUBSET rows
  PROVE  Cardinality({Favorite(r) : r \in S}) = Cardinality(S)
<1> DEFINE f == [r \in S |-> Favorite(r)]
<1>1. IsFiniteSet(S)
  BY FS_Subset DEF ListInv
<1>2. \A x, y \in S : f[x] = f[y] => x = y
  BY DEF Favorite, ListInv
<1>3. DOMAIN f = S /\ f = [x \in S |-> f[x]]
  OBVIOUS
<1>4. {f[x] : x \in S} = {Favorite(r) : r \in S}
  OBVIOUS
<1> HIDE DEF f
<1>5. Cardinality({f[x] : x \in S}) = Cardinality(S)
  BY <1>1, <1>2, <1>3, ImageSize
<1> QED
  BY <1>4, <1>5

LEMMA FavoritesNewest ==
  ASSUME ListInv, kind = "favorites", NEW limit, NEW type, NEW p \in Favorites(limit, type)
  PROVE  Newest(p, {[id |-> r.id, time |-> r.time] :
                      r \in {s \in rows : s.hit /\ type \in {AnyBase, s.type}}}, limit, Time)
<1> DEFINE all == {r \in rows : r.hit /\ type \in {AnyBase, r.type}}
           T == {Favorite(r) : r \in all}
<1>1. PICK b \in Tops(all, limit, Stored) :
        p = {[id |-> r.id, time |-> Seconds(Stored(r))] : r \in b}
  BY DEF Favorites
<1>2. b \in SUBSET all /\ all \in SUBSET rows /\ b \in SUBSET rows
  BY DEF Tops
<1>3. Cardinality(b) = Lesser(limit, Cardinality(all))
  BY DEF Tops
<1>4. p = {Favorite(r) : r \in b}
  BY <1>1, <1>2, ShownSeconds DEF Favorite
<1>5. p \subseteq T
  BY <1>2, <1>4
<1>6. Cardinality(p) = Lesser(limit, Cardinality(T))
  <2> HIDE DEF all
  <2> QED BY <1>2, <1>3, <1>4, AsMany
<1>7. \A x \in p, y \in T \ p : x.time >= y.time
  <2> SUFFICES ASSUME NEW x \in p, NEW y \in T \ p
               PROVE  x.time >= y.time
    OBVIOUS
  <2>1. PICK r \in b : x = Favorite(r)
    BY <1>4
  <2>2. PICK s \in all : y = Favorite(s)
    OBVIOUS
  <2>3. s \in all \ b
    BY <1>4, <2>2
  <2>4. Stored(r) >= Stored(s)
    BY <1>1, <2>1, <2>3 DEF Tops
  <2>5. r.time >= s.time
    BY <1>2, <2>1, <2>2, <2>4, StoredOrder
  <2> QED
    BY <2>1, <2>2, <2>5 DEF Favorite
<1>8. T = {[id |-> r.id, time |-> r.time] : r \in {s \in rows : s.hit /\ type \in {AnyBase, s.type}}}
  BY DEF Favorite
<1> HIDE DEF T, all
<1>9. Newest(p, T, limit, Time)
  BY <1>5, <1>6, <1>7 DEF Newest, Time
<1> QED
  BY <1>8, <1>9

\* What a shard leaves out is not newer than the rows it gives, which are as many as
\* the shard may give.
LEMMA ShardGives ==
  ASSUME ListInv, kind = "messages", NEW cap \in Nat, NEW all \in Merged(cap),
         NEW r \in AllImages \ all
  PROVE  \E q \in SUBSET all : /\ IsFiniteSet(q) /\ Cardinality(q) = cap
                               /\ \A s \in q : s.time >= r.time
<1>1. PICK s \in Shards : r \in Images(s)
  BY DEF AllImages
<1> DEFINE q == {t \in all : t.shard = s}
<1>2. q \in Tops(Images(s), cap, Time)
  BY DEF Merged
<1>3. r \in Images(s) \ q
  BY <1>1
<1> HIDE DEF q
<1>4. /\ q \in SUBSET Images(s) /\ Cardinality(q) = Lesser(cap, Cardinality(Images(s)))
      /\ \A t \in q : t.time >= r.time
  BY <1>2, <1>3 DEF Tops, Time
<1>5. Images(s) \in SUBSET rows
  BY DEF Images
<1>6. IsFiniteSet(Images(s))
  BY <1>5, FS_Subset DEF ListInv
<1>7. IsFiniteSet(q) /\ Cardinality(q) # Cardinality(Images(s))
  BY <1>3, <1>4, <1>6, FS_Subset
<1>8. Cardinality(q) = cap
  BY <1>4, <1>7 DEF Lesser
<1>9. q \in SUBSET all
  BY DEF q
<1> QED
  BY <1>4, <1>7, <1>8, <1>9

LEMMA MergedRows ==
  ASSUME ListInv, kind = "messages", NEW cap, NEW all \in Merged(cap)
  PROVE  all \subseteq AllImages /\ IsFiniteSet(AllImages) /\ AllImages \in SUBSET rows
<1>1. all \subseteq {r \in rows : r.base = Image}
  BY DEF Merged
<1>2. {r \in rows : r.base = Image} = AllImages
  BY Fields DEF AllImages, Images
<1>3. AllImages \in SUBSET rows
  BY DEF AllImages, Images
<1> QED
  BY <1>1, <1>2, <1>3, FS_Subset DEF ListInv

\* A page that ends within the rows that a shard may give is as long as it would be,
\* were it cut out of all rows.
LEMMA EnoughGiven ==
  ASSUME ListInv, kind = "messages", NEW cap \in Nat, NEW all \in Merged(cap),
         NEW n \in Nat, n <= cap
  PROVE  /\ IsFiniteSet(all)
         /\ Lesser(n, Cardinality(all)) = Lesser(n, Cardinality(AllImages))
<1>1. all \in SUBSET AllImages /\ IsFiniteSet(AllImages)
  BY MergedRows
<1>2. IsFiniteSet(all) /\ Cardinality(all) <= Cardinality(AllImages)
  BY <1>1, FS_Subset
<1>3. Cardinality(all) \in Nat /\ Cardinality(AllImages) \in Nat
  BY <1>1, <1>2, FS_CardinalityType
<1>4. CASE all = AllImages
  BY <1>2, <1>4
<1>5. CASE all # AllImages
  <2>1. PICK r \in AllImages \ all : TRUE
    BY <1>1, <1>5
  <2>2. PICK q \in SUBSET all : IsFiniteSet(q) /\ Cardinality(q) = cap
    BY <2>1, ShardGives
  <2>3. cap <= Cardinality(all)
    BY <1>2, <2>2, FS_Subset
  <2> QED
    BY <1>2, <1>3, <2>3 DEF Lesser
<1> QED
  BY <1>4, <1>5

\* Each page follows the one before: as many newer images as pages before it hold at
\* most, and the rest of the images after it.
LEMMA PagesTile ==
  ASSUME ListInv, kind = "messages", NEW limit \in Nat, NEW offset \in Nat,
         NEW p \in ImageList(limit, offset)
  PROVE  /\ Cardinality(p) = Lesser(limit,
              IF Cardinality(AllImages) < offset THEN 0 ELSE Cardinality(AllImages) - offset)
         /\ \A r \in p :
              /\ Cardinality({s \in AllImages : s.time > r.time}) < offset + limit
              /\ Cardinality({s \in AllImages : s.time < r.time})
                   < Cardinality(AllImages) - offset
<1> DEFINE cap == PerDbCap(limit, offset)
           n == limit + offset
<1>1. cap \in Nat /\ n \in Nat /\ n <= cap /\ offset <= cap
  BY DEF PerDbCap
<1>2. PICK all \in Merged(cap) : p \in Page(all, limit, offset)
  BY DEF ImageList
<1>3. PICK e \in Tops(all, n, Time), q \in Tops(all, offset, Time) : q \subseteq e /\ p = e \ q
  BY <1>2 DEF Page
<1> HIDE DEF cap
<1>4. IsFiniteSet(all) /\ all \in SUBSET AllImages /\ IsFiniteSet(AllImages)
  BY <1>1, EnoughGiven, MergedRows
<1>5. /\ e \in SUBSET all /\ Cardinality(e) = Lesser(n, Cardinality(AllImages))
      /\ \A r \in e, s \in all \ e : r.time >= s.time
  BY <1>1, <1>3, EnoughGiven DEF Tops, Time
<1>6. /\ q \in SUBSET all /\ Cardinality(q) = Lesser(offset, Cardinality(AllImages))
      /\ \A r \in q, s \in all \ q : r.time >= s.time
  BY <1>1, <1>3, EnoughGiven DEF Tops, Time
<1>7. IsFiniteSet(e) /\ IsFiniteSet(q)
  BY <1>4, <1>5, <1>6, FS_Subset
<1>8. Cardinality(e) \in Nat /\ Cardinality(q) \in Nat /\ Cardinality(AllImages) \in Nat
  BY <1>4, <1>7, FS_CardinalityType
<1>9. Cardinality(p) = Cardinality(e) - Cardinality(q)
  <2>1. e \cap q = q
    BY <1>3
  <2> QED
    BY <1>3, <1>7, <2>1, FS_Difference
<1>10. Cardinality(p) = Lesser(limit,
         IF Cardinality(AllImages) < offset THEN 0 ELSE Cardinality(AllImages) - offset)
  BY <1>5, <1>6, <1>8, <1>9 DEF Lesser
<1>11. \A r, s \in AllImages : r.time \in Nat /\ s.time \in Nat
  BY <1>2, MergedRows, Fields, ListingsAssumption
<1>12. ASSUME NEW r \in p
       PROVE  Cardinality({s \in AllImages : s.time > r.time}) < offset + limit
  <2> DEFINE newer == {s \in AllImages : s.time > r.time}
  <2>1. r \in e /\ r \in all /\ r \in AllImages
    BY <1>3, <1>4, <1>5
  <2>2. newer \subseteq all
    <3> SUFFICES ASSUME NEW s \in AllImages \ all, s.time > r.time
                 PROVE  FALSE
      OBVIOUS
    <3>1. PICK g \in SUBSET all : /\ IsFiniteSet(g) /\ Cardinality(g) = cap
                                  /\ \A t \in g : t.time >= s.time
      BY <1>1, <1>2, ShardGives
    <3>2. \A t \in g : t.time > r.time
      BY <1>4, <1>11, <2>1, <3>1
    <3>3. g \subseteq e /\ r \notin g
      BY <1>4, <1>5, <1>11, <2>1, <3>1, <3>2
    <3>4. Cardinality(g) <= Cardinality(e) /\ Cardinality(g) # Cardinality(e)
      BY <1>7, <2>1, <3>3, FS_Subset
    <3> QED
      BY <1>1, <1>5, <1>8, <3>1, <3>4 DEF Lesser
  <2>3. newer \subseteq e
    BY <1>4, <1>5, <1>11, <2>1, <2>2
  <2>4. r \notin newer /\ newer \in SUBSET e
    BY <1>11, <2>1, <2>3
  <2> HIDE DEF newer
  <2>5. Cardinality(newer) <= Cardinality(e) /\ Cardinality(newer) # Cardinality(e)
    BY <1>7, <2>1, <2>4, FS_Subset
  <2>6. Cardinality(newer) \in Nat
    BY <1>7, <2>4, FS_Subset, FS_CardinalityType
  <2>7. Cardinality(newer) < n
    BY <1>1, <1>5, <1>8, <2>5, <2>6 DEF Lesser
  <2> QED
    BY <2>7 DEF newer
<1>13. ASSUME NEW r \in p
       PROVE  Cardinality({s \in AllImages : s.time < r.time}) < Cardinality(AllImages) - offset
  <2> DEFINE older == {s \in AllImages : s.time < r.time}
  <2>1. r \in all \ q /\ r \in AllImages
    BY <1>3, <1>4, <1>5
  <2>2. older \cap (q \cup {r}) = {} /\ older \in SUBSET AllImages
    BY <1>4, <1>6, <1>11, <2>1
  <2>3. Cardinality(q) = offset
    <3>1. Cardinality(q) # Cardinality(AllImages)
      BY <1>4, <1>6, <2>1, FS_Subset
    <3> QED
      BY <1>6, <3>1 DEF Lesser
  <2> HIDE DEF older
  <2>4. IsFiniteSet(q \cup {r}) /\ Cardinality(q \cup {r}) = offset + 1
    BY <1>7, <2>1, <2>3, FS_AddElement
  <2>5. IsFiniteSet(older) /\ Cardinality(older) \in Nat
    BY <1>4, <2>2, FS_Subset, FS_CardinalityType
  <2>6. Cardinality(older \cup (q \cup {r})) = Cardinality(older) + (offset + 1)
    <3> DEFINE ahead == q \cup {r}
    <3>1. Cardinality(older \cap ahead) = 0
      BY <2>2, FS_EmptySet
    <3> HIDE DEF ahead
    <3>2. IsFiniteSet(ahead) /\ Cardinality(ahead) = offset + 1
      BY <2>4 DEF ahead
    <3>3. Cardinality(older \cup ahead) =
            Cardinality(older) + Cardinality(ahead) - Cardinality(older \cap ahead)
      BY <2>5, <3>2, FS_Union
    <3>4. Cardinality(older \cup ahead) = Cardinality(older) + (offset + 1)
      BY <2>5, <3>1, <3>2, <3>3
    <3> QED
      BY <3>4 DEF ahead
  <2>7. older \cup (q \cup {r}) \in SUBSET AllImages
    BY <1>4, <1>6, <2>1, <2>2
  <2>8. Cardinality(older) + (offset + 1) <= Cardinality(AllImages)
    BY <1>4, <2>6, <2>7, FS_Subset
  <2>9. Cardinality(older) < Cardinality(AllImages) - offset
    BY <1>8, <2>5, <2>8
  <2> QED
    BY <2>9 DEF older
<1> QED
  BY <1>10, <1>12, <1>13

LEMMA NewestFirstHolds == ListInv => NewestFirst
<1> SUFFICES ASSUME ListInv, NEW limit \in Limits
             PROVE  /\ UnreadFirst(limit) /\ FavoritesFirst(limit) /\ NoticesFirst(limit)
                    /\ MomentsFirst(limit) /\ \A offset \in Offsets : ImagesFirst(limit, offset)
  BY DEF NewestFirst
<1>1. UnreadFirst(limit)
  BY UnreadNewest, Zenon DEF UnreadFirst
<1>2. FavoritesFirst(limit)
  BY FavoritesNewest, Zenon DEF FavoritesFirst
<1>3. NoticesFirst(limit)
  BY NoticesNewest, Zenon DEF NoticesFirst
<1>4. MomentsFirst(limit)
  <2>1. rows \in SUBSET rows
    OBVIOUS
  <2> QED
    BY <2>1, FeedNewest, SearchesNewest, Zenon DEF MomentsFirst
<1>5. ASSUME NEW offset \in Offsets
      PROVE  ImagesFirst(limit, offset)
  <2>1. limit \in Nat /\ offset \in Nat
    BY ListingsAssumption
  <2> QED
    BY <2>1, PagesTile, Zenon DEF ImagesFirst
<1> QED
  BY <1>1, <1>2, <1>3, <1>4, <1>5

\* The list of the unread accounts' articles has one for each of them, unless the
\* limit is smaller than their number.
LEMMA EveryAccountShown == ListInv => EveryUnreadAccount
<1> SUFFICES ASSUME ListInv, kind = "articles", NEW chosen \in SUBSET Accounts,
                    NEW since \in Times, NEW until \in Times, NEW limit \in Nat,
                    NEW p \in UnreadArticles(chosen, since, until, limit),
                    Cardinality({a.account : a \in Articles(Wanted(chosen), since, until)}) <= limit,
                    NEW a \in Articles(Wanted(chosen), since, until)
             PROVE  \E b \in p : b.account = a.account /\ b.time >= a.time
  BY ListingsAssumption DEF EveryUnreadAccount
<1> DEFINE all == Articles(Wanted(chosen), since, until)
           accounts == {b.account : b \in all}
<1>1. PICK q \in NewestOfEach(all) : p \in Tops(q, limit, Time)
  BY DEF UnreadArticles
<1>2. IsFiniteSet(accounts)
  <2> DEFINE named == {Named(r.account) : r \in rows}
           f == [r \in rows |-> Named(r.account)]
  <2>1. IsFiniteSet(named)
    <3>1. f \in [rows -> named] /\ \A n \in named : \E r \in rows : f[r] = n
      OBVIOUS
    <3> HIDE DEF f, named
    <3>2. f \in Surjection(rows, named)
      BY <3>1 DEF Surjection
    <3> QED
      BY <3>2, FS_Surjection DEF ListInv
  <2>2. accounts \in SUBSET named
    BY DEF Articles, Items
  <2> HIDE DEF accounts, named
  <2> QED
    BY <2>1, <2>2, FS_Subset
<1> HIDE DEF all
<1>3. q \subseteq all /\ \A b, c \in q : b.account = c.account => b = c
  BY <1>1 DEF NewestOfEach
<1>4. IsFiniteSet(q) /\ Cardinality(q) <= Cardinality(accounts)
  <2> DEFINE f == [b \in q |-> b.account]
  <2>1. f \in [q -> accounts]
    BY <1>3
  <2>2. IsInjective(f)
    BY <1>3 DEF IsInjective
  <2> HIDE DEF f, accounts
  <2>3. f \in Injection(q, accounts)
    BY <2>1, <2>2 DEF Injection
  <2> QED
    BY <1>2, <2>3, FS_Injection
<1>5. Cardinality(accounts) <= limit
  BY DEF all
<1>6. p \in SUBSET q /\ Cardinality(p) = Lesser(limit, Cardinality(q))
  BY <1>1 DEF Tops
<1>7. Cardinality(q) \in Nat /\ Cardinality(accounts) \in Nat
  BY <1>2, <1>4, FS_CardinalityType
<1> HIDE DEF accounts
<1>8. Cardinality(p) = Cardinality(q)
  BY <1>4, <1>5, <1>6, <1>7 DEF Lesser
<1>9. p = q
  BY <1>4, <1>6, <1>8, FS_Subset
<1> QED
  BY <1>1, <1>9 DEF NewestOfEach, all

\* The sum of the sizes of disjoint sets is the size of their union.
LEMMA SumOfSizes ==
  ASSUME NEW D, IsFiniteSet(D), NEW A, NEW f, DOMAIN f = D,
         \A x \in D : IsFiniteSet(A[x]) /\ f[x] = Cardinality(A[x]),
         \A x, y \in D : \A z : z \in A[x] /\ z \in A[y] => x = y,
         NEW U, \A z : z \in U <=> \E x \in D : z \in A[x]
  PROVE  Sum(f) = Cardinality(U)
<1> DEFINE R == {A[x] : x \in D}
           P == UNION {{x} \X (1 .. f[x]) : x \in D}
           b == [x \in D |-> CHOOSE g : g \in Bijection(1 .. f[x], A[x])]
           h == [z \in P |-> b[z[1]][z[2]]]
<1>1. IsFiniteSet(U)
  <2> DEFINE e == [x \in D |-> A[x]]
  <2>1. e \in [D -> R] /\ \A n \in R : \E x \in D : e[x] = n
    OBVIOUS
  <2>2. U = UNION R /\ \A n \in R : IsFiniteSet(n)
    OBVIOUS
  <2> HIDE DEF e, R
  <2>3. e \in Surjection(D, R)
    BY <2>1 DEF Surjection
  <2>4. IsFiniteSet(R)
    BY <2>3, FS_Surjection
  <2> QED
    BY <2>2, <2>4, FS_UNION
<1>2. \A x \in D : b[x] \in Bijection(1 .. f[x], A[x])
  <2> SUFFICES ASSUME NEW x \in D
               PROVE  \E g : g \in Bijection(1 .. f[x], A[x])
    OBVIOUS
  <2>1. ExistsBijection(1 .. Cardinality(A[x]), A[x])
    BY FS_CardinalityType
  <2> QED
    BY <2>1 DEF ExistsBijection
<1> HIDE DEF b
<1>3. \A x \in D : /\ b[x] \in [1 .. f[x] -> A[x]]
                   /\ \A i, j \in 1 .. f[x] : b[x][i] = b[x][j] => i = j
                   /\ \A y \in A[x] : \E i \in 1 .. f[x] : b[x][i] = y
  <2> SUFFICES ASSUME NEW x \in D
               PROVE  /\ b[x] \in [1 .. f[x] -> A[x]]
                      /\ \A i, j \in 1 .. f[x] : b[x][i] = b[x][j] => i = j
                      /\ \A y \in A[x] : \E i \in 1 .. f[x] : b[x][i] = y
    OBVIOUS
  <2> DEFINE g == b[x]
             n == f[x]
             T == A[x]
  <2>1. g \in Bijection(1 .. n, T)
    BY <1>2
  <2> HIDE DEF g, n, T
  <2>2. g \in [1 .. n -> T] /\ IsInjective(g)
    BY <2>1 DEF Bijection, Injection
  <2>3. \A i, j \in 1 .. n : g[i] = g[j] => i = j
    BY <2>2 DEF IsInjective
  <2>4. \A y \in T : \E i \in 1 .. n : g[i] = y
    BY <2>1 DEF Bijection, Surjection
  <2> QED
    BY <2>2, <2>3, <2>4 DEF g, n, T
<1>4. \A z \in P : /\ z = <<z[1], z[2]>> /\ z[1] \in D /\ z[2] \in 1 .. f[z[1]]
                   /\ h[z] = b[z[1]][z[2]] /\ h[z] \in A[z[1]]
  <2> SUFFICES ASSUME NEW z \in P
               PROVE  /\ z = <<z[1], z[2]>> /\ z[1] \in D /\ z[2] \in 1 .. f[z[1]]
                      /\ h[z] = b[z[1]][z[2]] /\ h[z] \in A[z[1]]
    OBVIOUS
  <2>1. h[z] = b[z[1]][z[2]]
    OBVIOUS
  <2>2. PICK x \in D : z \in {x} \X (1 .. f[x])
    OBVIOUS
  <2>3. z = <<z[1], z[2]>> /\ z[1] = x /\ z[2] \in 1 .. f[x]
    BY <2>2
  <2> HIDE DEF P, h
  <2>4. b[x][z[2]] \in A[x]
    <3>1. b[x] \in [1 .. f[x] -> A[x]]
      BY <1>3
    <3> DEFINE g == b[x]
               n == f[x]
               i == z[2]
    <3>2. g \in [1 .. n -> A[x]] /\ i \in 1 .. n
      BY <2>3, <3>1
    <3> HIDE DEF g, n, i
    <3>3. g[i] \in A[x]
      BY <3>2
    <3> QED
      BY <3>3 DEF g, i
  <2> QED
    BY <2>1, <2>3, <2>4
<1>5. \A x \in D : \A i \in 1 .. f[x] : <<x, i>> \in P /\ h[<<x, i>>] = b[x][i]
  OBVIOUS
<1>6. DOMAIN h = P /\ h = [z \in P |-> h[z]]
  OBVIOUS
<1>7. \A y \in U : \E x \in D : y \in A[x]
  OBVIOUS
<1>8. \A x \in D : A[x] \subseteq U
  OBVIOUS
<1>9. Sum(f) = Cardinality(P)
  BY Zenon DEF Sum
<1> HIDE DEF P, h
<1>10. h \in [P -> U]
  BY <1>4, <1>6, <1>8
<1>11. h \in Injection(P, U)
  <2> SUFFICES ASSUME NEW y \in P, NEW z \in P, h[y] = h[z]
               PROVE  y = z
    BY <1>10 DEF Injection, IsInjective
  <2>1. y[1] = z[1]
    BY <1>4
  <2>2. y[2] = z[2]
    BY <1>3, <1>4, <2>1
  <2> QED
    BY <1>4, <2>1, <2>2
<1>12. h \in Surjection(P, U)
  <2> SUFFICES ASSUME NEW y \in U
               PROVE  \E z \in P : h[z] = y
    BY <1>10 DEF Surjection
  <2>1. PICK x \in D : y \in A[x]
    BY <1>7
  <2>2. PICK i \in 1 .. f[x] : b[x][i] = y
    BY <1>3, <2>1
  <2>3. <<x, i>> \in P /\ h[<<x, i>>] = y
    BY <1>5, <2>2
  <2> QED
    BY <2>3
<1>13. Cardinality(P) = Cardinality(U)
  BY <1>1, <1>11, <1>12, FS_Injection
<1> QED
  BY <1>9, <1>13

\* The messages of a window.
Window(since, until) == {r \in rows : In(since, until, r.time)}

LEMMA CountedByType ==
  ASSUME ListInv, kind = "messages", NEW since, NEW until, NEW b
  PROVE  Sum([s \in Shards |-> ByType(s, since, until, b)])
           = Cardinality({r \in Window(since, until) : r.base = b})
<1> DEFINE A == [s \in Shards |-> {r \in Windowed(s, since, until) : r.base = b}]
           f == [s \in Shards |-> ByType(s, since, until, b)]
           U == {r \in Window(since, until) : r.base = b}
<1>1. \A s \in Shards : A[s] \in SUBSET rows
  BY DEF Windowed
<1>2. \A s \in Shards : f[s] = Cardinality(A[s])
  BY DEF ByType
<1>3. \A z : z \in U <=> \E s \in Shards : z \in A[s]
  BY Fields DEF Windowed, Window
<1>4. \A s, t \in Shards : \A r : r \in A[s] /\ r \in A[t] => s = t
  BY DEF Windowed
<1>5. DOMAIN f = Shards
  OBVIOUS
<1> HIDE DEF A, f, U
<1>6. \A s \in Shards : IsFiniteSet(A[s])
  BY <1>1, FS_Subset DEF ListInv
<1>7. IsFiniteSet(Shards)
  BY ListingsAssumption
<1>8. Sum(f) = Cardinality(U)
  BY <1>2, <1>3, <1>4, <1>5, <1>6, <1>7, SumOfSizes
<1> QED
  BY <1>8 DEF f, U

LEMMA CountedBySender ==
  ASSUME ListInv, kind = "messages", NEW since, NEW until, NEW u
  PROVE  Sum([s \in Shards |-> BySender(s, since, until, u)])
           = Cardinality({r \in Window(since, until) : u # Chat /\ r.sender = u})
<1> DEFINE A == [s \in Shards |-> {r \in Windowed(s, since, until) : u # Chat /\ r.sender = u}]
           f == [s \in Shards |-> BySender(s, since, until, u)]
           U == {r \in Window(since, until) : u # Chat /\ r.sender = u}
<1>1. \A s \in Shards : A[s] \in SUBSET rows
  BY DEF Windowed
<1>2. \A s \in Shards : f[s] = Cardinality(A[s])
  <2>1. CASE u = Chat
    BY <2>1, FS_EmptySet DEF BySender
  <2>2. CASE u # Chat
    BY <2>2 DEF BySender
  <2> QED
    BY <2>1, <2>2
<1>3. \A z : z \in U <=> \E s \in Shards : z \in A[s]
  BY Fields DEF Windowed, Window
<1>4. \A s, t \in Shards : \A r : r \in A[s] /\ r \in A[t] => s = t
  BY DEF Windowed
<1>5. DOMAIN f = Shards
  OBVIOUS
<1> HIDE DEF A, f, U
<1>6. \A s \in Shards : IsFiniteSet(A[s])
  BY <1>1, FS_Subset DEF ListInv
<1>7. IsFiniteSet(Shards)
  BY ListingsAssumption
<1>8. Sum(f) = Cardinality(U)
  BY <1>2, <1>3, <1>4, <1>5, <1>6, <1>7, SumOfSizes
<1> QED
  BY <1>8 DEF f, U

LEMMA CountedAll ==
  ASSUME ListInv, kind = "messages", NEW since, NEW until
  PROVE  Sum([s \in Shards |-> Count(s, since, until)]) = Cardinality(Window(since, until))
<1> DEFINE A == [s \in Shards |-> Windowed(s, since, until)]
           f == [s \in Shards |-> Count(s, since, until)]
           U == Window(since, until)
<1>1. \A s \in Shards : A[s] \in SUBSET rows
  BY DEF Windowed
<1>2. \A s \in Shards : f[s] = Cardinality(A[s])
  BY DEF Count
<1>3. \A z : z \in U <=> \E s \in Shards : z \in A[s]
  BY Fields DEF Windowed, Window
<1>4. \A s, t \in Shards : \A r : r \in A[s] /\ r \in A[t] => s = t
  BY DEF Windowed
<1>5. DOMAIN f = Shards
  OBVIOUS
<1> HIDE DEF A, f, U
<1>6. \A s \in Shards : IsFiniteSet(A[s])
  BY <1>1, FS_Subset DEF ListInv
<1>7. IsFiniteSet(Shards)
  BY ListingsAssumption
<1>8. Sum(f) = Cardinality(U)
  BY <1>2, <1>3, <1>4, <1>5, <1>6, <1>7, SumOfSizes
<1> QED
  BY <1>8 DEF f, U

LEMMA StatsOfWindow ==
  ASSUME ListInv, kind = "messages", NEW since, NEW until
  PROVE  LET W == Window(since, until)
         IN  Stats(since, until) =
               [total |-> Cardinality(W),
                type |-> [b \in Bases |-> Cardinality({r \in W : r.base = b})],
                sender |-> [u \in Senders \cup {Chat} |->
                              Cardinality({r \in W : u # Chat /\ r.sender = u})]]
<1>1. Sum([s \in Shards |-> Count(s, since, until)]) = Cardinality(Window(since, until))
  BY CountedAll
<1>2. [b \in Bases |-> Sum([s \in Shards |-> ByType(s, since, until, b)])]
        = [b \in Bases |-> Cardinality({r \in Window(since, until) : r.base = b})]
  <2>1. \A b : Sum([s \in Shards |-> ByType(s, since, until, b)])
                = Cardinality({r \in Window(since, until) : r.base = b})
    BY CountedByType
  <2> QED
    BY <2>1, Zenon
<1>3. [u \in Senders \cup {Chat} |-> Sum([s \in Shards |-> BySender(s, since, until, u)])]
        = [u \in Senders \cup {Chat} |->
             Cardinality({r \in Window(since, until) : u # Chat /\ r.sender = u})]
  <2>1. \A u : Sum([s \in Shards |-> BySender(s, since, until, u)])
                = Cardinality({r \in Window(since, until) : u # Chat /\ r.sender = u})
    BY CountedBySender
  <2> QED
    BY <2>1, Zenon
<1> QED
  BY <1>1, <1>2, <1>3, Zenon DEF Stats

\* Two windows that follow each other have together what the whole one has.
LEMMA HalvesAdd ==
  ASSUME NEW W, IsFiniteSet(W), NEW V, NEW X, W = V \cup X, V \cap X = {}
  PROVE  Cardinality(W) = Cardinality(V) + Cardinality(X)
<1>1. IsFiniteSet(V) /\ IsFiniteSet(X)
  BY FS_Subset
<1>2. Cardinality(V) \in Nat /\ Cardinality(X) \in Nat
  BY <1>1, FS_CardinalityType
<1>3. Cardinality(V \cap X) = 0
  BY FS_EmptySet
<1>4. Cardinality(V \cup X) = Cardinality(V) + Cardinality(X) - Cardinality(V \cap X)
  BY <1>1, FS_Union
<1> QED
  BY <1>2, <1>3, <1>4

LEMMA StatsAdded == ListInv => StatsAddUp
<1> SUFFICES ASSUME ListInv, kind = "messages", NEW since \in Times, NEW until \in Times
             PROVE  LET all == Stats(since, until)
                    IN  /\ Sum(all.type) = all.total
                        /\ Sum(all.sender) <= all.total
                        /\ \A t \in Times : since <= t /\ t < until =>
                             LET one == Stats(since, t)
                                 two == Stats(t + 1, until)
                             IN  /\ all.total = one.total + two.total
                                 /\ \A u \in Senders :
                                      all.sender[u] = one.sender[u] + two.sender[u]
  BY DEF StatsAddUp
<1> DEFINE W == Window(since, until)
           types == [b \in Bases |-> {r \in W : r.base = b}]
           senders == [u \in Senders \cup {Chat} |-> {r \in W : u # Chat /\ r.sender = u}]
           all == Stats(since, until)
<1>1. W \in SUBSET rows /\ IsFiniteSet(W)
  BY FS_Subset DEF Window, ListInv
<1>2. /\ all.total = Cardinality(W)
      /\ DOMAIN all.type = Bases /\ \A b \in Bases : all.type[b] = Cardinality(types[b])
      /\ DOMAIN all.sender = Senders \cup {Chat}
      /\ \A u \in Senders \cup {Chat} : all.sender[u] = Cardinality(senders[u])
  <2> HIDE DEF W
  <2>1. Stats(since, until) =
          [total |-> Cardinality(W),
           type |-> [b \in Bases |-> Cardinality({r \in W : r.base = b})],
           sender |-> [u \in Senders \cup {Chat} |->
                         Cardinality({r \in W : u # Chat /\ r.sender = u})]]
    BY StatsOfWindow DEF W
  <2> QED
    BY <2>1
<1>3. Sum(all.type) = all.total
  <2>1. \A r : r \in W <=> \E b \in Bases : r \in types[b]
    BY <1>1, Fields
  <2>2. \A b \in Bases : types[b] \in SUBSET W
    OBVIOUS
  <2>3. \A b, c \in Bases : \A r : r \in types[b] /\ r \in types[c] => b = c
    OBVIOUS
  <2> HIDE DEF W, types, all
  <2>4. \A b \in Bases : IsFiniteSet(types[b])
    BY <1>1, <2>2, FS_Subset
  <2>5. IsFiniteSet(Bases)
    BY ListingsAssumption
  <2> DEFINE f == all.type
  <2>6. DOMAIN f = Bases /\ \A b \in Bases : f[b] = Cardinality(types[b])
    BY <1>2
  <2> HIDE DEF f
  <2>7. Sum(f) = Cardinality(W)
    BY <2>1, <2>3, <2>4, <2>5, <2>6, SumOfSizes
  <2> QED
    BY <1>2, <2>7 DEF f
<1>4. Sum(all.sender) <= all.total
  <2> DEFINE S == Senders \cup {Chat}
             f == all.sender
             U == UNION {senders[u] : u \in S}
  <2>1. U \in SUBSET W /\ \A r : r \in U <=> \E u \in S : r \in senders[u]
    OBVIOUS
  <2>2. \A u \in S : senders[u] \in SUBSET W
    OBVIOUS
  <2>3. \A u, v \in S : \A r : r \in senders[u] /\ r \in senders[v] => u = v
    OBVIOUS
  <2>4. DOMAIN f = S /\ \A u \in S : f[u] = Cardinality(senders[u])
    BY <1>2
  <2>5. IsFiniteSet(S)
    BY ListingsAssumption, FS_AddElement
  <2> HIDE DEF W, senders, all, S, f, U
  <2>6. \A u \in S : IsFiniteSet(senders[u])
    BY <1>1, <2>2, FS_Subset
  <2>7. Sum(f) = Cardinality(U)
    BY <2>1, <2>3, <2>4, <2>5, <2>6, SumOfSizes
  <2>8. Cardinality(U) <= Cardinality(W)
    BY <1>1, <2>1, FS_Subset
  <2> QED
    BY <1>2, <2>7, <2>8 DEF f
<1>5. ASSUME NEW t \in Times, since <= t, t < until
      PROVE  LET one == Stats(since, t)
                 two == Stats(t + 1, until)
             IN  /\ all.total = one.total + two.total
                 /\ \A u \in Senders : all.sender[u] = one.sender[u] + two.sender[u]
  <2> DEFINE V == Window(since, t)
             X == Window(t + 1, until)
             one == Stats(since, t)
             two == Stats(t + 1, until)
  <2>1. W = V \cup X /\ V \cap X = {}
    <3>1. since \in Nat /\ until \in Nat /\ t \in Nat /\ Times \subseteq Nat
      BY ListingsAssumption
    <3>2. \A r \in rows : r.time \in Nat
      BY <3>1, Fields
    <3>3. \A r \in rows : /\ In(since, until, r.time) <=> In(since, t, r.time) \/ In(t + 1, until, r.time)
                          /\ ~(In(since, t, r.time) /\ In(t + 1, until, r.time))
      BY <1>5, <3>1, <3>2 DEF In
    <3> QED
      BY <3>3 DEF Window
  <2> HIDE DEF W, V, X
  <2>2. /\ one.total = Cardinality(V) /\ two.total = Cardinality(X)
        /\ \A u \in Senders :
             /\ one.sender[u] = Cardinality({r \in V : u # Chat /\ r.sender = u})
             /\ two.sender[u] = Cardinality({r \in X : u # Chat /\ r.sender = u})
    <3>1. one = [total |-> Cardinality(V),
                 type |-> [b \in Bases |-> Cardinality({r \in V : r.base = b})],
                 sender |-> [u \in Senders \cup {Chat} |->
                               Cardinality({r \in V : u # Chat /\ r.sender = u})]]
      BY StatsOfWindow DEF V
    <3>2. two = [total |-> Cardinality(X),
                 type |-> [b \in Bases |-> Cardinality({r \in X : r.base = b})],
                 sender |-> [u \in Senders \cup {Chat} |->
                               Cardinality({r \in X : u # Chat /\ r.sender = u})]]
      BY StatsOfWindow DEF X
    <3> QED
      BY <3>1, <3>2
  <2>3. all.total = one.total + two.total
    <3>1. Cardinality(W) = Cardinality(V) + Cardinality(X)
      BY <1>1, <2>1, HalvesAdd
    <3> HIDE DEF all, one, two
    <3> QED
      BY <1>2, <2>2, <3>1
  <2>4. ASSUME NEW u \in Senders
        PROVE  all.sender[u] = one.sender[u] + two.sender[u]
    <3> DEFINE Of(S) == {r \in S : u # Chat /\ r.sender = u}
    <3>1. Of(W) = Of(V) \cup Of(X) /\ Of(V) \cap Of(X) = {} /\ Of(W) \in SUBSET W
      BY <2>1
    <3>2. senders[u] = Of(W)
      OBVIOUS
    <3>3. one.sender[u] = Cardinality(Of(V)) /\ two.sender[u] = Cardinality(Of(X))
      BY <2>2
    <3> HIDE DEF all, one, two, Of, senders
    <3>4. IsFiniteSet(Of(W))
      BY <1>1, <3>1, FS_Subset
    <3>5. Cardinality(Of(W)) = Cardinality(Of(V)) + Cardinality(Of(X))
      BY <3>1, <3>4, HalvesAdd
    <3> QED
      BY <1>2, <3>2, <3>3, <3>5
  <2> QED
    BY <2>3, <2>4
<1> QED
  BY <1>3, <1>4, <1>5

LEMMA ListInvAlways == ListSpec => []ListInv
BY ListInitInv, ListStep, PTL DEF ListSpec

\* What a list of unread chats, favorites, notices or moments leaves out because of its
\* limit is never newer than what it shows, and the pages of a chat's images follow each
\* other, for stores of any size, any limits and offsets, and any number of shards
\* (query.rs:4266, 5840, 6150, 6510, 6987).
THEOREM NewestShown == ListSpec => []NewestFirst
<1>1. ListInv => NewestFirst
  BY NewestFirstHolds
<1> QED
  BY <1>1, ListInvAlways, PTL

\* The list of unread articles has one of every account, when the limit is not smaller
\* than their number, for any accounts and any messages (query.rs:6940).
THEOREM EachAccountShown == ListSpec => []EveryUnreadAccount
<1>1. ListInv => EveryUnreadAccount
  BY EveryAccountShown
<1> QED
  BY <1>1, ListInvAlways, PTL

\* The statistics of two windows that follow each other add up to those of the whole,
\* and the types to the total, for any messages in any number of shards (query.rs:5948).
THEOREM WindowsAddUp == ListSpec => []StatsAddUp
<1>1. ListInv => StatsAddUp
  BY StatsAdded
<1> QED
  BY <1>1, ListInvAlways, PTL
=============================================================================
