--------------------------- MODULE DaemonLifecycle ---------------------------
(***************************************************************************)
(* How daemons come and go (Unix): src/cli/transport.rs starts, asks and   *)
(* stops them, src/daemon/mod.rs and server.rs are one, and `wxeasy init`  *)
(* (src/cli/init.rs) changes the configuration they read at their start.   *)
(* No lock ties these processes together: they share the path of the       *)
(* socket, daemon.pid and the configuration, and each step below touches   *)
(* one of them.                                                            *)
(*                                                                         *)
(* A Daemon is a process id.  It is given to a new process once nothing    *)
(* mentions the old one any more.                                          *)
(***************************************************************************)
EXTENDS Naturals, FiniteSets

CONSTANTS
  Cli,          \* terminals, each running one command at a time
  Daemon,       \* bound: process ids for daemons
  Nobody,
  MaxConfig,    \* bound: configurations written by `wxeasy init`
  Slow,         \* BOOLEAN: a healthy daemon may miss the deadlines of 2 and 15 s
  Interrupts,   \* BOOLEAN: a command may be cut off (Ctrl-C, kill)
  Crashes,      \* BOOLEAN: a daemon may die without cleaning up
  LoadMayFail   \* BOOLEAN: reading contact.db may fail

ASSUME DaemonLifecycleAssumption ==
  /\ Nobody \notin Daemon
  /\ MaxConfig \in Nat /\ {Slow, Interrupts, Crashes, LoadMayFail} \subseteq BOOLEAN

VARIABLES
  config,   \* the configuration on disk
  sock,     \* the daemon that bound the file at sock_path()
  pidFile,  \* the process daemon.pid names
  life,     \* how far each daemon is
  exit,     \* how far it is with cleanup_ipc_files
  names,    \* names_arc
  cfg,      \* the configuration it loaded
  pc,       \* where each terminal's command is
  job,      \* which command that is
  peer,     \* who answered its ping, then whom it is connected to
  target,   \* the process it spawned, or read from daemon.pid
  retried,  \* send has been through ensure_daemon twice
  inited,   \* history: the configuration of the last init that is over
  cut,      \* history: some command was cut off
  need      \* history: inited when the query began; what the init wrote

files == <<config, sock, pidFile>>
daemons == <<life, exit, names, cfg>>
commands == <<pc, job, peer, target, retried, need>>
history == <<inited, cut>>
vars == <<files, daemons, commands, history>>

Init ==
  /\ config = 0 /\ inited = 0 /\ cut = FALSE
  /\ sock = Nobody /\ pidFile = Nobody
  /\ life = [d \in Daemon |-> "dead"]
  /\ exit = [d \in Daemon |-> "no"]
  /\ names = [d \in Daemon |-> "loading"]
  /\ cfg = [d \in Daemon |-> 0]
  /\ pc = [c \in Cli |-> "idle"]
  /\ job = [c \in Cli |-> "none"]
  /\ peer = [c \in Cli |-> Nobody]
  /\ target = [c \in Cli |-> Nobody]
  /\ retried = [c \in Cli |-> FALSE]
  /\ need = [c \in Cli |-> 0]

-----------------------------------------------------------------------------
\* The process is gone; the files are as it left them.
Dies(d) ==
  /\ life' = [life EXCEPT ![d] = "dead"]
  /\ exit' = [exit EXCEPT ![d] = "no"]
  /\ names' = [names EXCEPT ![d] = "loading"]
  /\ cfg' = [cfg EXCEPT ![d] = 0]

\* async_run: the configuration and the keys are read once.
LoadConfig(d) ==
  /\ life[d] = "started"
  /\ life' = [life EXCEPT ![d] = "loaded"]
  /\ cfg' = [cfg EXCEPT ![d] = config]
  /\ UNCHANGED <<files, exit, names, commands, history>>

\* The background task: a failure leaves an empty Names.
LoadNames(d) ==
  /\ life[d] \notin {"dead", "started"}
  /\ names[d] = "loading"
  /\ \E n \in {"ready"} \cup (IF LoadMayFail THEN {"empty"} ELSE {}) :
       names' = [names EXCEPT ![d] = n]
  /\ UNCHANGED <<files, life, exit, cfg, commands, history>>

\* serve_unix deletes whatever is at the path, a living daemon's socket too.
RemoveOldSocket(d) ==
  /\ life[d] = "loaded"
  /\ sock' = Nobody
  /\ life' = [life EXCEPT ![d] = "unlinked"]
  /\ UNCHANGED <<config, pidFile, exit, names, cfg, commands, history>>

\* bind fails when another daemon has put its socket there meanwhile; the
\* failure goes through cleanup_ipc_files as every end of serve does.
Bind(d) ==
  /\ life[d] = "unlinked"
  /\ \/ /\ sock = Nobody
        /\ sock' = d
        /\ life' = [life EXCEPT ![d] = "bound"]
        /\ UNCHANGED exit
     \/ /\ sock # Nobody
        /\ life' = [life EXCEPT ![d] = "failed"]
        /\ exit' = [exit EXCEPT ![d] = "sock"]
        /\ UNCHANGED sock
  /\ UNCHANGED <<config, pidFile, names, cfg, commands, history>>

\* set_permissions fails when the path is gone again.
Chmod(d) ==
  /\ life[d] = "bound"
  /\ \/ /\ sock # Nobody
        /\ life' = [life EXCEPT ![d] = "serving"]
        /\ UNCHANGED exit
     \/ /\ sock = Nobody
        /\ life' = [life EXCEPT ![d] = "failed"]
        /\ exit' = [exit EXCEPT ![d] = "sock"]
  /\ UNCHANGED <<files, names, cfg, commands, history>>

\* cleanup_ipc_files of the daemon, one unlink after the other, then exit.
CleanSock(d) ==
  /\ exit[d] = "sock"
  /\ sock' = Nobody
  /\ exit' = [exit EXCEPT ![d] = "pid"]
  /\ UNCHANGED <<config, pidFile, life, names, cfg, commands, history>>

CleanPid(d) ==
  /\ exit[d] = "pid"
  /\ pidFile' = Nobody
  /\ Dies(d)
  /\ UNCHANGED <<config, sock, commands, history>>

Crash(d) ==
  /\ Crashes
  /\ life[d] # "dead"
  /\ Dies(d)
  /\ UNCHANGED <<files, commands, history>>

-----------------------------------------------------------------------------
\* Who answers a ping: the daemon whose socket the path names, if it serves.
Answering == {d \in Daemon : sock = d /\ life[d] = "serving"}

Goto(c, l) == pc' = [pc EXCEPT ![c] = l]

\* The command is over.
End(c) ==
  /\ Goto(c, "idle")
  /\ job' = [job EXCEPT ![c] = "none"]
  /\ peer' = [peer EXCEPT ![c] = Nobody]
  /\ target' = [target EXCEPT ![c] = Nobody]
  /\ retried' = [retried EXCEPT ![c] = FALSE]
  /\ need' = [need EXCEPT ![c] = 0]

Begin(c, j, l) ==
  /\ pc[c] = "idle"
  /\ Goto(c, l)
  /\ job' = [job EXCEPT ![c] = j]
  /\ UNCHANGED <<peer, target, retried>>

\* Every command that asks the daemon goes through send.
BeginQuery(c) ==
  /\ Begin(c, "query", "ping")
  /\ need' = [need EXCEPT ![c] = inited]
  /\ UNCHANGED <<files, daemons, history>>

\* ensure_daemon: is_alive.
Ping(c) ==
  /\ pc[c] = "ping"
  /\ Goto(c, IF Answering # {} THEN "connect" ELSE "spawn")
  /\ UNCHANGED <<files, daemons, job, peer, target, retried, need, history>>

\* A process id that nothing mentions.
Free(d) ==
  /\ life[d] = "dead" /\ sock # d /\ pidFile # d
  /\ \A c \in Cli : peer[c] # d /\ target[c] # d

\* start_daemon
Spawn(c) ==
  /\ pc[c] = "spawn"
  /\ \E d \in Daemon :
       /\ Free(d)
       /\ life' = [life EXCEPT ![d] = "started"]
       /\ target' = [target EXCEPT ![c] = d]
  /\ Goto(c, "wait")
  /\ UNCHANGED <<files, exit, names, cfg, job, peer, retried, need, history>>

\* Its loop ends when some daemon answers, be it the child or another one.
WaitAlive(c) ==
  /\ pc[c] = "wait"
  /\ Answering # {}
  /\ Goto(c, "pid")
  /\ UNCHANGED <<files, daemons, job, peer, target, retried, need, history>>

WaitTimesOut(c) ==
  /\ pc[c] = "wait"
  /\ Answering = {}
  /\ Slow \/ life[target[c]] \in {"dead", "serving", "failed"}
  /\ End(c)
  /\ UNCHANGED <<files, daemons, history>>

\* Mutant: daemon.pid is not written.
WritePidNowhere(c) ==
  /\ pc[c] = "pid"
  /\ target' = [target EXCEPT ![c] = Nobody]
  /\ Goto(c, "connect")
  /\ UNCHANGED <<files, daemons, job, peer, retried, need, history>>

\* write_pid_file names the child, whoever answered.
WritePid(c) ==
  /\ pc[c] = "pid"
  /\ pidFile' = target[c]
  /\ target' = [target EXCEPT ![c] = Nobody]
  /\ Goto(c, "connect")
  /\ UNCHANGED <<config, sock, daemons, job, peer, retried, need, history>>

\* Mutant: a refused connection is tried again without ensure_daemon.
ConnectOnly(c) ==
  /\ pc[c] = "connect"
  /\ \/ \E d \in Answering : peer' = [peer EXCEPT ![c] = d] /\ Goto(c, "await")
     \/ Answering = {} /\ UNCHANGED <<pc, peer>>
  /\ UNCHANGED <<files, daemons, job, target, retried, need, history>>

\* send_unix: a refused connection is worth one more ensure_daemon.
Connect(c) ==
  /\ pc[c] = "connect"
  /\ \/ \E d \in Answering :
          /\ peer' = [peer EXCEPT ![c] = d]
          /\ Goto(c, "await")
          /\ UNCHANGED <<job, target, retried, need>>
     \/ /\ Answering = {} /\ ~retried[c]
        /\ retried' = [retried EXCEPT ![c] = TRUE]
        /\ Goto(c, "ping")
        /\ UNCHANGED <<job, peer, target, need>>
     \/ /\ Answering = {} /\ retried[c]
        /\ End(c)
  /\ UNCHANGED <<files, daemons, history>>

\* Mutant: dispatch does not look at names_arc.
WarmAlways(d) == TRUE

\* dispatch has the names it needs.
Warm(d) == names[d] # "loading"

\* The connection outlives the socket file, but not the daemon.
Answered(c) ==
  /\ pc[c] = "await"
  /\ life[peer[c]] = "serving"
  /\ Warm(peer[c])
  /\ Goto(c, "answered")
  /\ UNCHANGED <<files, daemons, job, peer, target, retried, need, history>>

\* Response::warming_up: connect again, or give up after WARMUP_WAIT_TIMEOUT_SECS.
WarmingUp(c) ==
  /\ pc[c] = "await"
  /\ life[peer[c]] = "serving"
  /\ ~Warm(peer[c])
  /\ \/ /\ Goto(c, "connect")
        /\ peer' = [peer EXCEPT ![c] = Nobody]
        /\ UNCHANGED <<job, target, retried, need>>
     \/ Slow /\ End(c)
  /\ UNCHANGED <<files, daemons, history>>

\* The line never comes: an error, and not one that is retried.
ReplyLost(c) ==
  /\ pc[c] = "await"
  /\ life[peer[c]] # "serving"
  /\ End(c)
  /\ UNCHANGED <<files, daemons, history>>

-----------------------------------------------------------------------------
\* `wxeasy daemon stop`: cmd_stop has nothing to do when nobody answers.
BeginStop(c) ==
  /\ Answering # {}
  /\ Begin(c, "stop", "readPid")
  /\ UNCHANGED <<files, daemons, need, history>>

\* `wxeasy init` writes keys and config.json, then calls stop_daemon.
BeginInit(c) ==
  /\ config < MaxConfig
  /\ Begin(c, "init", "readPid")
  /\ config' = config + 1
  /\ need' = [need EXCEPT ![c] = config + 1]
  /\ UNCHANGED <<sock, pidFile, daemons, history>>

\* stop_daemon
ReadPid(c) ==
  /\ pc[c] = "readPid"
  /\ target' = [target EXCEPT ![c] = pidFile]
  /\ Goto(c, "stopPing")
  /\ UNCHANGED <<files, daemons, job, peer, retried, need, history>>

StopPing(c) ==
  /\ pc[c] = "stopPing"
  /\ peer' = [peer EXCEPT ![c] = IF Answering = {} THEN Nobody
                                 ELSE CHOOSE d \in Answering : TRUE]
  /\ Goto(c, "judge")
  /\ UNCHANGED <<files, daemons, job, target, retried, need, history>>

\* pid_belongs_to_daemon: ps shows a process of that id with the right name.
Belongs(d) == d # Nobody /\ life[d] # "dead"

\* stop_daemon fails; init drops the error and is over all the same.
StopFails(c) ==
  IF job[c] = "init" THEN /\ Goto(c, "stopped")
                          /\ UNCHANGED <<job, peer, target, retried, need>>
                     ELSE End(c)

\* SIGTERM: the handler cleans up; before it is set up, the process just ends.
Judge(c) ==
  LET d == target[c] IN
  /\ pc[c] = "judge"
  /\ \/ /\ Belongs(d)
        /\ \/ life[d] = "started" /\ Dies(d)
           \/ /\ exit' = [exit EXCEPT ![d] = IF @ = "no" THEN "sock" ELSE @]
              /\ UNCHANGED <<life, names, cfg>>
        /\ Goto(c, "exitWait")
        /\ UNCHANGED <<job, peer, target, retried, need>>
     \/ /\ ~Belongs(d) /\ peer[c] = Nobody
        /\ Goto(c, "cleanSock")
        /\ UNCHANGED <<daemons, job, peer, target, retried, need>>
     \/ /\ ~Belongs(d) /\ peer[c] # Nobody
        /\ StopFails(c)
        /\ UNCHANGED daemons
  /\ UNCHANGED <<files, history>>

\* Mutant: terminate_pid does not wait.
ExitedAtOnce(c) ==
  /\ pc[c] = "exitWait"
  /\ Goto(c, "pingWait")
  /\ UNCHANGED <<files, daemons, job, peer, target, retried, need, history>>

\* terminate_pid_unix waits for the process to be gone.
Exited(c) ==
  /\ pc[c] = "exitWait"
  /\ life[target[c]] = "dead"
  /\ Goto(c, "pingWait")
  /\ UNCHANGED <<files, daemons, job, peer, target, retried, need, history>>

ExitTimesOut(c) ==
  /\ Slow
  /\ pc[c] = "exitWait"
  /\ life[target[c]] # "dead"
  /\ StopFails(c)
  /\ UNCHANGED <<files, daemons, history>>

\* The loop after it ends when no ping is answered or, all the same, after 2 s.
PingGone(c) ==
  /\ pc[c] = "pingWait"
  /\ Goto(c, "cleanSock")
  /\ UNCHANGED <<files, daemons, job, peer, target, retried, need, history>>

\* cleanup_ipc_files of the command.
StopCleansSock(c) ==
  /\ pc[c] = "cleanSock"
  /\ sock' = Nobody
  /\ Goto(c, "cleanPid")
  /\ UNCHANGED <<config, pidFile, daemons, job, peer, target, retried, need, history>>

StopCleansPid(c) ==
  /\ pc[c] = "cleanPid"
  /\ pidFile' = Nobody
  /\ Goto(c, "stopped")
  /\ UNCHANGED <<config, sock, daemons, job, peer, target, retried, need, history>>

Finish(c) ==
  /\ pc[c] \in {"answered", "stopped"}
  /\ inited' = IF job[c] = "init" /\ need[c] > inited THEN need[c] ELSE inited
  /\ End(c)
  /\ UNCHANGED <<files, daemons, cut>>

Interrupt(c) ==
  /\ Interrupts
  /\ pc[c] \notin {"idle", "answered", "stopped"}
  /\ End(c)
  /\ cut' = TRUE
  /\ UNCHANGED <<files, daemons, inited>>

-----------------------------------------------------------------------------
DaemonNext(d) ==
  \/ LoadConfig(d) \/ LoadNames(d) \/ RemoveOldSocket(d) \/ Bind(d) \/ Chmod(d)
  \/ CleanSock(d) \/ CleanPid(d)

Query(c) ==
  \/ Ping(c) \/ Spawn(c) \/ WaitAlive(c) \/ WaitTimesOut(c) \/ WritePid(c)
  \/ Connect(c) \/ Answered(c) \/ WarmingUp(c) \/ ReplyLost(c)

Stop(c) ==
  \/ ReadPid(c) \/ StopPing(c) \/ Judge(c) \/ Exited(c)
  \/ ExitTimesOut(c) \/ PingGone(c) \/ StopCleansSock(c) \/ StopCleansPid(c)

Next ==
  \/ \E d \in Daemon : DaemonNext(d) \/ Crash(d)
  \/ \E c \in Cli :
       \/ BeginQuery(c) \/ BeginStop(c) \/ BeginInit(c)
       \/ Query(c) \/ Stop(c) \/ Finish(c) \/ Interrupt(c)

Spec == Init /\ [][Next]_vars

Disturbed ==
  \/ \E d \in Daemon : Crash(d)
  \/ \E c \in Cli : BeginStop(c) \/ BeginInit(c) \/ Interrupt(c)

\* Processes get to run, and queries are made again and again; from some
\* moment on nothing else is.
Fairness ==
  /\ \A d \in Daemon : WF_vars(DaemonNext(d))
  /\ \A c \in Cli : /\ WF_vars(BeginQuery(c)) /\ WF_vars(Finish(c))
                    /\ WF_vars(Query(c) \/ Stop(c))
  /\ <>[][~Disturbed]_vars
-----------------------------------------------------------------------------
IsAnswered(c) == pc[c] = "await" /\ pc'[c] = "answered"

\* server.rs:203-208: no query is answered before the contacts are there, nor
\* with an empty or half-built Names.
WithNames == \A c \in Cli : IsAnswered(c) => names[peer[c]] = "ready"
NamesReady == [][WithNames]_vars

\* init.rs:95: once init is over no daemon with an older configuration answers
\* a query that begins then; the next one starts a new daemon.
WithConfig == \A c \in Cli : IsAnswered(c) => cfg[peer[c]] >= need[c]
NoStaleConfig == [][WithConfig]_vars

\* It is so until some command is cut off, with one terminal.
SequentialConfig == [][~cut => WithConfig]_vars

\* daemon_cmd.rs:48-49: when `daemon stop` reports that the daemon is stopped,
\* the one whose answer to the ping made it go on is.
StoppedIsStopped ==
  \A c \in Cli : pc[c] = "stopped" /\ job[c] = "stop" /\ peer[c] # Nobody
                  => life[peer[c]] = "dead"

\* It is so until some command is cut off, with one terminal.
SequentialStop == ~cut => StoppedIsStopped

\* Bound: all process ids are taken.
Exhausted == \A d \in Daemon : ~Free(d)

\* README.md:176: a daemon is started when one is needed: whatever earlier
\* crashes, stops and interrupted commands have left of sockets, pid files and
\* daemons nobody can reach, queries are answered again.
SomeAnswer == \E c \in Cli : pc[c] = "answered"
QueriesRecover == []<>SomeAnswer \/ <>[]Exhausted
=============================================================================
