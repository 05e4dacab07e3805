---------------------------- MODULE DebugCapture ----------------------------
(***************************************************************************)
(* src/scanner/windows_live: `wxeasy init --live` and `--relaunch` on      *)
(* Windows.  wxeasy is the debugger of WeChat's processes: it puts         *)
(* hardware breakpoints on the key schedule of Weixin.dll in every thread, *)
(* takes the key from the registers when a thread opens a database, and    *)
(* detaches when it has all keys or WeChat is gone.                        *)
(*                                                                         *)
(* A debugged process stands still while a debug event of it is queued;    *)
(* the other processes go on.  Windows is modelled from the calls used:    *)
(* breakpoints belong to threads, new threads have none, and an exception  *)
(* the debugger leaves unanswered goes back to the process, which has no   *)
(* handler for it and ends.                                                *)
(***************************************************************************)
EXTENDS Naturals, FiniteSets, Sequences, SequencesExt

CONSTANTS
  Launcher, Main,  \* WeChat's processes: Weixin.exe may start itself again
  Thread, Owner,   \* the threads each process may have: [Thread -> process]
  First,           \* the first thread of each process
  Db,              \* the encrypted databases, all_dbs
  Existing,        \* those whose key is known before
  None,
  MaxLoads         \* bound: other DLLs a process loads

Proc == {Launcher, Main}

ASSUME DebugCaptureAssumption ==
  /\ Owner \in [Thread -> Proc] /\ First \in [Proc -> Thread]
  /\ \A p \in Proc : Owner[First[p]] = p
  /\ Launcher # Main /\ IsFiniteSet(Thread)
  /\ Existing \subseteq Db /\ None \notin Db
  /\ MaxLoads \in Nat

VARIABLES
  mode,      \* LiveMode: attach (--live) or relaunch
  status,    \* of each process: none, born, run, dead, crashed
  live,      \* the threads there are
  dll,       \* Weixin.dll in each process: no, mapped, listed
  loads,     \* other DLLs loaded
  dr,        \* the threads with breakpoints in their debug registers
  debugged,  \* the processes wxeasy is the debugger of
  queue,     \* of each process: its debug events, the first is reported next
  pc,        \* where run_capture is
  table,     \* procs: the processes it knows
  done,      \* databases whose key is known
  why        \* why the loop has ended

windows == <<mode, status, live, dll, loads, dr, debugged, queue>>
capture == <<pc, table, done, why>>
vars == <<windows, capture>>

Event == [type : {"process", "thread", "dll", "hit", "threadExit", "processExit"},
          thread : Thread \cup {None}, db : Db \cup {None}]
Ev(y, t, d) == [type |-> y, thread |-> t, db |-> d]
Unknown == [known |-> FALSE, armed |-> FALSE, threads |-> {}]

Of(p) == {t \in live : Owner[t] = p}

Init ==
  /\ mode \in {"attach", "relaunch"}
  /\ status = [p \in Proc |-> IF mode = "attach" /\ p = Main THEN "run" ELSE "none"]
  /\ live = {t \in Thread : status[Owner[t]] = "run"}
  /\ dll = [p \in Proc |-> IF status[p] = "run" THEN "listed" ELSE "no"]
  /\ loads = [p \in Proc |-> 0]
  /\ dr = {} /\ debugged = {} /\ queue = [p \in Proc |-> <<>>]
  /\ pc = "start" /\ table = [p \in Proc |-> Unknown]
  /\ done = Existing /\ why = "none"

-----------------------------------------------------------------------------
(* WeChat and Windows. *)

Runs(p) == status[p] = "run" /\ queue[p] = <<>>

\* An event is queued, if there is a debugger, and the process stands still.
Raise(p, e) == queue' = IF p \in debugged THEN [queue EXCEPT ![p] = Append(@, e)] ELSE queue

\* The launcher starts the main process, which is debugged as its parent is
\* (DEBUG_PROCESS); its event comes when its first thread begins to run.
Spawn ==
  /\ Runs(Launcher) /\ status[Main] = "none"
  /\ status' = [status EXCEPT ![Main] = "born"]
  /\ debugged' = IF Launcher \in debugged THEN debugged \cup {Main} ELSE debugged
  /\ UNCHANGED <<mode, live, dll, loads, dr, queue, capture>>

Begin(p) ==
  /\ status[p] = "born"
  /\ status' = [status EXCEPT ![p] = "run"]
  /\ live' = live \cup {First[p]}
  /\ Raise(p, Ev("process", First[p], None))
  /\ UNCHANGED <<mode, dll, loads, dr, debugged, capture>>

NewThread(t) ==
  /\ Runs(Owner[t]) /\ t \notin live /\ t \notin dr /\ t # First[Owner[t]]
  /\ live' = live \cup {t}
  /\ Raise(Owner[t], Ev("thread", t, None))
  /\ UNCHANGED <<mode, status, dll, loads, dr, debugged, capture>>

\* LOAD_DLL is raised when the file is mapped; the module list that
\* find_weixin_module reads gets it later.
MapDll(p) ==
  /\ Runs(p) /\ dll[p] = "no" /\ p = Main
  /\ dll' = [dll EXCEPT ![p] = "mapped"]
  /\ Raise(p, Ev("dll", None, None))
  /\ UNCHANGED <<mode, status, live, loads, dr, debugged, capture>>

ListDll(p) ==
  /\ Runs(p) /\ dll[p] = "mapped"
  /\ dll' = [dll EXCEPT ![p] = "listed"]
  /\ UNCHANGED <<mode, status, live, loads, dr, debugged, queue, capture>>

LoadOther(p) ==
  /\ Runs(p) /\ loads[p] < MaxLoads
  /\ loads' = [loads EXCEPT ![p] = @ + 1]
  /\ Raise(p, Ev("dll", None, None))
  /\ UNCHANGED <<mode, status, live, dll, dr, debugged, capture>>

\* A thread expands a key: of a database it opens, or another one (None).
Expand(t, d) ==
  /\ Runs(Owner[t]) /\ t \in live /\ dll[Owner[t]] = "listed"
  /\ t \in dr  \* without a breakpoint nothing is to be seen of it
  /\ IF Owner[t] \in debugged
     THEN Raise(Owner[t], Ev("hit", t, d)) /\ UNCHANGED <<status, live>>
     ELSE /\ status' = [status EXCEPT ![Owner[t]] = "crashed"]
          /\ live' = live \ Of(Owner[t])
          /\ UNCHANGED queue
  /\ UNCHANGED <<mode, dll, loads, dr, debugged, capture>>

ExitThread(t) ==
  /\ Runs(Owner[t]) /\ t \in live /\ t # First[Owner[t]]
  /\ live' = live \ {t} /\ dr' = dr \ {t}
  /\ Raise(Owner[t], Ev("threadExit", t, None))
  /\ UNCHANGED <<mode, status, dll, loads, debugged, capture>>

ExitProcess(p) ==
  /\ Runs(p)
  /\ status' = [status EXCEPT ![p] = "dead"]
  /\ live' = live \ Of(p) /\ dr' = dr \ Of(p)
  /\ Raise(p, Ev("processExit", None, None))
  /\ UNCHANGED <<mode, dll, loads, debugged, capture>>

WeChat ==
  \/ Spawn
  \/ \E p \in Proc : Begin(p) \/ MapDll(p) \/ ListDll(p) \/ LoadOther(p) \/ ExitProcess(p)
  \/ \E t \in Thread : NewThread(t) \/ ExitThread(t) \/ \E d \in Db \cup {None} : Expand(t, d)

-----------------------------------------------------------------------------
(* run_capture *)

To(step) == pc' = step

\* Windows tells an attached debugger of the threads and modules there are.
Attach ==
  /\ pc = "start" /\ mode = "attach"
  /\ Runs(Main)
  /\ To("loop")
  /\ debugged' = {Main}
  /\ queue' = [queue EXCEPT ![Main] =
       <<Ev("process", First[Main], None)>>
         \o SetToSeq({Ev("thread", t, None) : t \in Of(Main) \ {First[Main]}})
         \o <<Ev("dll", None, None)>>]
  /\ UNCHANGED <<mode, status, live, dll, loads, dr, table, done, why>>

\* prepare_relaunch has waited for WeChat to be gone; CreateProcess.
Launch ==
  /\ pc = "start" /\ mode = "relaunch"
  /\ To("loop")
  /\ status' = [status EXCEPT ![Launcher] = "born"]
  /\ debugged' = {Launcher}
  /\ UNCHANGED <<mode, live, dll, loads, dr, queue, table, done, why>>

\* arm_thread on each of the threads T.
Arm(T) == dr' = dr \cup T

\* try_arm, with the threads known now; the functions are found in the file.
TryArm(p, T) ==
  IF dll[p] = "listed" /\ ~table[p].armed
  THEN /\ table' = [table EXCEPT ![p] = [known |-> TRUE, armed |-> TRUE, threads |-> T]]
       /\ Arm(T)
  ELSE /\ table' = [table EXCEPT ![p] = [known |-> TRUE, armed |-> @.armed, threads |-> T]]
       /\ UNCHANGED dr

Answer(p) == pc = "loop" /\ queue[p] # <<>> /\ queue' = [queue EXCEPT ![p] = Tail(@)]
Reported(p, y) == Head(queue[p]).type = y

OnProcess(p) ==
  /\ Answer(p) /\ Reported(p, "process")
  /\ TryArm(p, table[p].threads \cup {Head(queue[p]).thread})
  /\ To("check")
  /\ UNCHANGED <<mode, status, live, dll, loads, debugged, done, why>>

\* Mutant of OnThread: a new thread is armed and forgotten.
OnThreadForgotten(p) ==
  /\ Answer(p) /\ Reported(p, "thread")
  /\ IF table[p].armed THEN Arm({Head(queue[p]).thread}) ELSE UNCHANGED dr
  /\ To("check")
  /\ UNCHANGED <<mode, status, live, dll, loads, debugged, table, done, why>>
\* Mutant of OnThread: only the threads of the moment of try_arm are armed.
OnThreadUnarmed(p) ==
  /\ Answer(p) /\ Reported(p, "thread")
  /\ table' = [table EXCEPT ![p].threads = @ \cup {Head(queue[p]).thread}]
  /\ To("check")
  /\ UNCHANGED <<mode, status, live, dll, loads, debugged, dr, done, why>>
OnThread(p) ==
  /\ Answer(p) /\ Reported(p, "thread")
  /\ LET t == Head(queue[p]).thread IN
     /\ table' = IF table[p].known THEN [table EXCEPT ![p].threads = @ \cup {t}] ELSE table
     /\ IF table[p].armed THEN Arm({t}) ELSE UNCHANGED dr
  /\ To("check")
  /\ UNCHANGED <<mode, status, live, dll, loads, debugged, done, why>>

OnDll(p) ==
  /\ Answer(p) /\ Reported(p, "dll")
  /\ IF table[p].known THEN TryArm(p, table[p].threads) ELSE UNCHANGED <<table, dr>>
  /\ To("check")
  /\ UNCHANGED <<mode, status, live, dll, loads, debugged, done, why>>

\* handle_hit: the key in the registers is tried on the databases still
\* without one; it is None's, or of a database that is done already.
Keys(d) == done \cup ({d} \ {None})

\* With step_over; the exception of a thread that is not in the table is
\* given back.
OnHit(p) ==
  /\ Answer(p) /\ Reported(p, "hit")
  /\ LET e == Head(queue[p]) IN
     IF e.thread \in table[p].threads
     THEN done' = Keys(e.db) /\ UNCHANGED <<status, live>>
     ELSE /\ status' = [status EXCEPT ![p] = "crashed"]
          /\ live' = live \ Of(p)
          /\ UNCHANGED done
  /\ To("check")
  /\ UNCHANGED <<mode, dll, loads, dr, debugged, table, why>>

OnThreadExit(p) ==
  /\ Answer(p) /\ Reported(p, "threadExit")
  /\ table' = [table EXCEPT ![p].threads = @ \ {Head(queue[p]).thread}]
  /\ To("check")
  /\ UNCHANGED <<mode, status, live, dll, loads, dr, debugged, done, why>>

\* Mutant of OnProcessExit: the process stays in the table.
OnProcessExitKept(p) ==
  /\ Answer(p) /\ Reported(p, "processExit")
  /\ why' = IF \A q \in Proc : ~table[q].known THEN "gone" ELSE why
  /\ To("check")
  /\ UNCHANGED <<mode, status, live, dll, loads, dr, debugged, table, done>>
OnProcessExit(p) ==
  /\ Answer(p) /\ Reported(p, "processExit")
  /\ table' = [table EXCEPT ![p] = Unknown]
  /\ why' = IF \A q \in Proc : ~table'[q].known THEN "gone" ELSE why
  /\ To("check")
  /\ UNCHANGED <<mode, status, live, dll, loads, dr, debugged, done>>

Complete == Cardinality(done) >= Cardinality(Db)

\* After ContinueDebugEvent; WaitForDebugEvent has a timeout of its own.
Check ==
  /\ pc = "check"
  /\ why' = IF Complete THEN "all" ELSE why
  /\ To(IF why' # "none" THEN "detach" ELSE "loop")
  /\ UNCHANGED <<windows, table, done>>

TimedOut ==
  /\ pc = "loop" /\ \A p \in Proc : queue[p] = <<>>
  /\ Complete
  /\ why' = "all"
  /\ To("detach")
  /\ UNCHANGED <<windows, table, done>>

\* An unanswered hit goes back to the process when its debugger leaves.
Pending(p) == \E i \in DOMAIN queue[p] : queue[p][i].type = "hit"
Release(P) ==
  LET lost == {p \in P : Pending(p)} IN
  /\ status' = [p \in Proc |-> IF p \in lost THEN "crashed" ELSE status[p]]
  /\ live' = {t \in live : Owner[t] \notin lost}
  /\ queue' = [p \in Proc |-> IF p \in P THEN <<>> ELSE queue[p]]
  /\ debugged' = debugged \ P

\* detach_all: the threads of one process are disarmed ...
Disarm(p) ==
  /\ pc = "detach" /\ table[p].known /\ p \in debugged
  /\ dr \cap table[p].threads # {}
  /\ dr' = dr \ table[p].threads
  /\ UNCHANGED <<mode, status, live, dll, loads, debugged, queue, capture>>

\* ... and it is let go.
Stop(p) ==
  /\ pc = "detach" /\ table[p].known /\ p \in debugged
  /\ dr \cap table[p].threads = {}
  /\ Release({p})
  /\ UNCHANGED <<mode, dll, loads, dr, capture>>

\* wxeasy goes on and ends; kill-on-exit is off.
End ==
  /\ pc = "detach"
  /\ \A p \in debugged : ~table[p].known
  /\ To("ended")
  /\ Release(debugged)
  /\ UNCHANGED <<mode, dll, loads, dr, table, done, why>>

\* wxeasy may be killed at any time (Ctrl-C).
Kill ==
  /\ pc \in {"loop", "check", "detach"}
  /\ To("killed")
  /\ Release(debugged)
  /\ UNCHANGED <<mode, dll, loads, dr, table, done, why>>

Debugger ==
  \/ Attach \/ Launch \/ Check \/ TimedOut \/ End
  \/ \E p \in Proc : \/ OnProcess(p) \/ OnThread(p) \/ OnDll(p) \/ OnHit(p)
                     \/ OnThreadExit(p) \/ OnProcessExit(p) \/ Disarm(p) \/ Stop(p)

Next == WeChat \/ Debugger \/ Kill

Spec == Init /\ [][Next]_vars

\* Windows reports what is queued and wxeasy answers; WeChat need not move.
FairSpec == Spec /\ WF_vars(Debugger)

-----------------------------------------------------------------------------
TypeOK ==
  /\ mode \in {"attach", "relaunch"}
  /\ status \in [Proc -> {"none", "born", "run", "dead", "crashed"}]
  /\ live \subseteq Thread /\ dr \subseteq Thread /\ debugged \subseteq Proc
  /\ dll \in [Proc -> {"no", "mapped", "listed"}] /\ loads \in [Proc -> 0..MaxLoads]
  /\ queue \in [Proc -> Seq(Event)]
  /\ pc \in {"start", "loop", "check", "detach", "ended", "killed"}
  /\ table \in [Proc -> [known : BOOLEAN, armed : BOOLEAN, threads : SUBSET Thread]]
  /\ done \subseteq Db /\ why \in {"none", "all", "gone"}

\* A thread WeChat has that has not been told of yet.
Untold(p, t) == \E i \in DOMAIN queue[p] :
                  queue[p][i].thread = t /\ queue[p][i].type \in {"process", "thread"}

\* While wxeasy waits, no thread of an armed process can open a database
\* unseen, whenever the thread was made (hwbp.rs:4-6, debugger.rs:14).
NoThreadUnseen ==
  pc = "loop" => \A p \in Proc : table[p].armed =>
    \A t \in Of(p) : t \in dr \/ Untold(p, t)

\* When run_capture has returned, no thread of WeChat has a breakpoint left
\* (hwbp.rs:74): a hit without a debugger ends the process.
NoResidue == pc = "ended" => dr \cap live = {}

\* When WeChat is gone the capture ends; it does not wait for keys that cannot
\* come any more (debugger.rs:224-245).
Gone == \A p \in Proc : status[p] \in {"dead", "none"}
EventuallyEnds == (pc = "loop" /\ []Gone) ~> (pc \in {"ended", "killed"})

\* debugger.rs:11-12, 142, 355: neither a detach nor a killed wxeasy ends WeChat.
WeChatSurvives == \A p \in Proc : status[p] # "crashed"
=============================================================================
