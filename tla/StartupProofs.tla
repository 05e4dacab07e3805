---------------------------- MODULE StartupProofs ----------------------------
(***************************************************************************)
(* Before the first query: the capture of keys (DebugCapture), the key     *)
(* file over many runs of init (KeyInit) and the search of a region of     *)
(* memory (MemoryScan), for any number of threads, databases and bytes.    *)
(*                                                                         *)
(* Capture: no thread of an armed process goes unwatched while wxeasy      *)
(* waits, and no breakpoint is left when it has ended, whatever WeChat     *)
(* starts and ends meanwhile.  A process stands still while an event of it *)
(* is queued: what wxeasy has not been told of yet is in the queue, and    *)
(* the threads in its table are exactly those it has been told of.         *)
(*                                                                         *)
(* Key file: a run that is about to replace its file holds every key that  *)
(* is good and stands in one of the files it may take keys from - either   *)
(* it took them, or it has as many keys as there are encrypted databases,  *)
(* and then it has all of them.                                            *)
(*                                                                         *)
(* Search: what stands in a chunk as a whole is found, as the loop never   *)
(* jumps over it, and what begins before the next chunk stands as a whole  *)
(* in this one.  That such a loop has a result at all is shown by the set  *)
(* of the places it reaches, which takes no induction.                     *)
(***************************************************************************)
EXTENDS DebugCapture, KeyInit, MemoryScan, FiniteSetTheorems, SequenceTheorems,
        WellFoundedInduction, TLAPS

\* The events of p that are queued, and what they say.
Told(p, y) == \E i \in DOMAIN queue[p] : queue[p][i].type = y
Exiting(p, t) == \E i \in DOMAIN queue[p] :
                   queue[p][i].type = "threadExit" /\ queue[p][i].thread = t

\* Only a process that runs has threads, its first one always.
StatusInv(p) ==
  /\ Of(p) # {} => status[p] = "run"
  /\ status[p] = "run" => First[p] \in Of(p)

\* A process stands still while an event is queued: there is one event at most,
\* except those an attached debugger is told at once.
QueueInv(p) ==
  /\ queue[p] # <<>> =>
       /\ p \in debugged
       /\ \/ status[p] = "run"
          \/ status[p] = "dead" /\ Told(p, "processExit")
  /\ \A i \in DOMAIN queue[p] :
       LET e == queue[p][i] IN
       /\ e.type \in {"process", "thread"} => e.thread \in Of(p)
       /\ e.type = "process" => i = 1 /\ ~table[p].known
       /\ e.type \in {"hit", "threadExit", "processExit"} => Len(queue[p]) = 1
       /\ e.type = "threadExit" => e.thread \notin Of(p)
       /\ e.type = "processExit" => Of(p) = {}

\* A process is in the table from its event to its end.
TableInv(p) ==
  /\ ~table[p].known => table[p] = Unknown
  /\ table[p].known => status[p] \notin {"none", "born"}
  /\ table[p].known /\ pc \in {"loop", "check"} => p \in debugged
  /\ p \in debugged /\ Of(p) # {} /\ ~table[p].known =>
       queue[p] # <<>> /\ queue[p][1].type = "process"

\* The threads in the table are those of the process, but for the events that
\* are still queued.
ThreadsInv(p) ==
  p \in debugged =>
    /\ \A t \in Of(p) : t \in table[p].threads \/ Untold(p, t)
    /\ status[p] = "run" => \A t \in table[p].threads : t \in Of(p) \/ Exiting(p, t)

\* All of them have their breakpoints while wxeasy waits, and nobody else has;
\* breakpoints end with their thread.
ArmedInv(p) ==
  /\ table[p].armed /\ pc \in {"loop", "check"} => table[p].threads \cap Of(p) \subseteq dr
  /\ p \in debugged => dr \cap Of(p) \subseteq table[p].threads
  /\ p \notin debugged /\ pc # "killed" => dr \cap Of(p) = {}
  /\ \A t \in dr : Owner[t] = p => t \in Of(p) \/ status[p] = "crashed"

ProcInv(p) ==
  StatusInv(p) /\ QueueInv(p) /\ TableInv(p) /\ ThreadsInv(p) /\ ArmedInv(p)

\* Before and after the capture nothing is debugged; a relaunch begins without
\* WeChat.
StartInv ==
  /\ pc = "start" =>
       /\ debugged = {} /\ dr = {}
       /\ table = [p \in Proc |-> Unknown] /\ queue = [p \in Proc |-> <<>>]
       /\ mode = "relaunch" => status = [p \in Proc |-> "none"]
  /\ pc \in {"ended", "killed"} => debugged = {}

CaptureInv == TypeOK /\ StartInv /\ \A p \in Proc : ProcInv(p)

-----------------------------------------------------------------------------
(* What all steps have in common *)

Entry == [known : BOOLEAN, armed : BOOLEAN, threads : SUBSET Thread]

LEMMA Constants ==
  /\ Launcher \in Proc /\ Main \in Proc /\ Launcher # Main
  /\ Owner \in [Thread -> Proc] /\ \A p \in Proc : First[p] \in Thread /\ Owner[First[p]] = p
  /\ IsFiniteSet(Thread)
  /\ Unknown \in Entry /\ ~Unknown.known /\ ~Unknown.armed /\ Unknown.threads = {}
<1>1. Unknown \in Entry /\ ~Unknown.known /\ ~Unknown.armed /\ Unknown.threads = {}
  BY DEF Unknown, Entry
<1> QED
  BY <1>1, DebugCaptureAssumption DEF Proc

LEMMA Events ==
  ASSUME NEW y \in {"process", "thread", "dll", "hit", "threadExit", "processExit"},
         NEW t \in Thread \cup {None}, NEW d \in Db \cup {None}
  PROVE  Ev(y, t, d) \in Event /\ Ev(y, t, d).type = y /\ Ev(y, t, d).thread = t
  BY DEF Ev, Event

\* The step is one of process p: the others' share of the state stays.
Apart(p) ==
  /\ \A q \in Proc \ {p} : /\ status'[q] = status[q] /\ table'[q] = table[q]
                           /\ queue'[q] = queue[q] /\ (q \in debugged' <=> q \in debugged)
  /\ \A t \in Thread : Owner[t] # p => (t \in live' <=> t \in live) /\ (t \in dr' <=> t \in dr)
  /\ pc' \in {"loop", "check"} => pc \in {"loop", "check"}
  /\ pc' # "killed" => pc # "killed"

LEMMA ApartKeeps ==
  ASSUME TypeOK, TypeOK', NEW p \in Proc, NEW q \in Proc, q # p, Apart(p), ProcInv(q)
  PROVE  ProcInv(q)'
<1>1. /\ status'[q] = status[q] /\ table'[q] = table[q] /\ queue'[q] = queue[q]
      /\ q \in debugged' <=> q \in debugged
      /\ \A t \in Thread : Owner[t] = q => (t \in live' <=> t \in live) /\ (t \in dr' <=> t \in dr)
  BY DEF Apart
<1>2. /\ live \subseteq Thread /\ live' \subseteq Thread
      /\ dr \subseteq Thread /\ dr' \subseteq Thread
      /\ table[q].threads \subseteq Thread /\ First[q] \in Thread /\ Owner[First[q]] = q
  BY Constants DEF TypeOK
<1>3. Of(q)' = Of(q)
  BY <1>1, <1>2 DEF Of
<1>4. StatusInv(q)'
  BY <1>1, <1>3 DEF ProcInv, StatusInv
<1>5. QueueInv(q)'
  BY <1>1, <1>3 DEF ProcInv, QueueInv, Told
<1>6. TableInv(q)'
  BY <1>1, <1>3 DEF ProcInv, TableInv, Apart
<1>7. ThreadsInv(q)'
  BY <1>1, <1>3 DEF ProcInv, ThreadsInv, Untold, Exiting
<1>8. ArmedInv(q)'
  <2>1. \A t \in dr' : Owner[t] = q => t \in dr
    BY <1>1, <1>2
  <2>2. \A t \in Of(q) : t \in Thread /\ Owner[t] = q
    BY <1>2 DEF Of
  <2>3. dr' \cap Of(q) = dr \cap Of(q)
    BY <1>1, <1>2, <2>2
  <2>4. /\ table[q].armed /\ pc' \in {"loop", "check"} => table[q].threads \cap Of(q) \subseteq dr'
        /\ q \in debugged => dr' \cap Of(q) \subseteq table[q].threads
        /\ q \notin debugged /\ pc' # "killed" => dr' \cap Of(q) = {}
    BY <2>3 DEF ProcInv, ArmedInv, Apart
  <2>5. \A t \in dr' : Owner[t] = q => t \in Of(q) \/ status[q] = "crashed"
    BY <2>1 DEF ProcInv, ArmedInv
  <2> QED
    BY <2>4, <2>5, <1>1, <1>3 DEF ArmedInv
<1> QED
  BY <1>4, <1>5, <1>6, <1>7, <1>8 DEF ProcInv

\* An event of a process that runs is the only one that is queued.
LEMMA RaiseOne ==
  ASSUME TypeOK, NEW p \in Proc, queue[p] = <<>>, NEW e \in Event, Raise(p, e)
  PROVE  /\ queue' \in [Proc -> Seq(Event)]
         /\ \A q \in Proc \ {p} : queue'[q] = queue[q]
         /\ queue'[p] = IF p \in debugged THEN <<e>> ELSE <<>>
         /\ queue = [q \in Proc |-> <<>>] /\ debugged = {} => queue' = queue
<1>1. queue \in [Proc -> Seq(Event)]
  BY DEF TypeOK
<1>2. CASE p \in debugged
  <2>1. queue' = [queue EXCEPT ![p] = Append(queue[p], e)]
    BY <1>2 DEF Raise
  <2>2. Append(queue[p], e) = <<e>>
    BY <1>1
  <2>3. <<e>> \in Seq(Event)
    OBVIOUS
  <2> QED
    BY <2>1, <2>2, <2>3, <1>1, <1>2
<1>3. CASE p \notin debugged
  BY <1>1, <1>3 DEF Raise
<1> QED
  BY <1>2, <1>3

\* What holds of a process that is told nothing.
LEMMA Quiet ==
  ASSUME NEW p \in Proc, ProcInv(p), queue[p] = <<>>
  PROVE  /\ p \in debugged => Of(p) \subseteq table[p].threads
         /\ p \in debugged /\ status[p] = "run" =>
              table[p].threads \subseteq Of(p) /\ table[p].known
<1>1. DOMAIN queue[p] = {}
  OBVIOUS
<1>2. \A t : ~Untold(p, t) /\ ~Exiting(p, t)
  BY <1>1 DEF Untold, Exiting
<1>3. status[p] = "run" => Of(p) # {}
  BY DEF ProcInv, StatusInv
<1> QED
  BY <1>2, <1>3 DEF ProcInv, ThreadsInv, TableInv

\* What a process that has been quiet shows after its next step.
LEMMA AfterQuiet ==
  ASSUME NEW p \in Proc, NEW e \in Event,
         queue'[p] = IF p \in debugged THEN <<e>> ELSE <<>>, debugged' = debugged,
         p \in debugged => status'[p] = "run" \/ (status'[p] = "dead" /\ e.type = "processExit"),
         e.type \in {"process", "thread"} => e.thread \in Of(p)',
         e.type = "process" => ~table'[p].known,
         e.type = "threadExit" => e.thread \notin Of(p)',
         e.type = "processExit" => Of(p)' = {}
  PROVE  /\ QueueInv(p)'
         /\ p \in debugged =>
              /\ queue'[p] # <<>> /\ queue'[p][1] = e
              /\ e.type \in {"process", "thread"} => Untold(p, e.thread)'
              /\ e.type = "threadExit" => Exiting(p, e.thread)'
<1>1. CASE p \notin debugged
  <2>1. queue'[p] = <<>> /\ DOMAIN queue'[p] = {}
    BY <1>1
  <2> QED
    BY <2>1, <1>1 DEF QueueInv
<1>2. CASE p \in debugged
  <2>1. queue'[p] = <<e>> /\ DOMAIN queue'[p] = {1} /\ queue'[p][1] = e /\ Len(queue'[p]) = 1
        /\ queue'[p] # <<>>
    BY <1>2
  <2>2. Told(p, e.type)'
    BY <2>1 DEF Told
  <2>3. QueueInv(p)'
    BY <2>1, <2>2, <1>2 DEF QueueInv
  <2>4. /\ e.type \in {"process", "thread"} => Untold(p, e.thread)'
        /\ e.type = "threadExit" => Exiting(p, e.thread)'
    BY <2>1 DEF Untold, Exiting
  <2> QED
    BY <2>1, <2>3, <2>4
<1> QED
  BY <1>1, <1>2

LEMMA StepOf ==
  ASSUME CaptureInv, TypeOK', StartInv', NEW p \in Proc, Apart(p), ProcInv(p)'
  PROVE  CaptureInv'
  BY ApartKeeps DEF CaptureInv

-----------------------------------------------------------------------------
(* Steps of WeChat *)

\* What a running process has before a step of its own.
Still(p) ==
  /\ TypeOK /\ StartInv /\ ProcInv(p)
  /\ queue[p] = <<>> /\ First[p] \in Of(p) /\ status[p] = "run"
  /\ pc = "start" => mode = "attach"
  /\ p \in debugged => table[p].threads = Of(p) /\ table[p].known

LEMMA RunsStill ==
  ASSUME CaptureInv, NEW p \in Proc, Runs(p)
  PROVE  Still(p)
<1>1. TypeOK /\ StartInv /\ ProcInv(p) /\ status[p] = "run" /\ queue[p] = <<>>
  BY DEF CaptureInv, Runs
<1>2. pc = "start" => mode = "attach"
  BY <1>1 DEF StartInv, TypeOK
<1>3. First[p] \in Of(p)
  BY <1>1 DEF ProcInv, StatusInv
<1> QED
  BY <1>1, <1>2, <1>3, Quiet DEF Still

LEMMA OwnThreads ==
  ASSUME TypeOK, NEW p \in Proc
  PROVE  /\ \A t \in Of(p) : t \in Thread /\ t \in live /\ Owner[t] = p
         /\ \A t \in live : t \in Thread /\ (Owner[t] = p => t \in Of(p))
  BY DEF Of, TypeOK

LEMMA NewThreadStep ==
  ASSUME CaptureInv, NEW t \in Thread, NewThread(t)
  PROVE  CaptureInv'
<1> DEFINE p == Owner[t]
           e == Ev("thread", t, None)
<1>1. /\ Runs(p) /\ t \notin live /\ t \notin dr /\ t # First[p]
      /\ live' = live \cup {t} /\ Raise(p, e)
      /\ UNCHANGED <<mode, status, dll, loads, dr, debugged, capture>>
  BY DEF NewThread
<1>2. p \in Proc
  BY Constants
<1>3. e \in Event /\ e.type = "thread" /\ e.thread = t
  BY Events
<1>4. Still(p)
  BY <1>1, <1>2, RunsStill
<1> HIDE DEF e, p
<1>5. /\ queue' \in [Proc -> Seq(Event)]
      /\ \A q \in Proc \ {p} : queue'[q] = queue[q]
      /\ queue'[p] = IF p \in debugged THEN <<e>> ELSE <<>>
      /\ queue = [q \in Proc |-> <<>>] /\ debugged = {} => queue' = queue
  BY <1>1, <1>2, <1>3, <1>4, RaiseOne DEF Still
<1>6. Of(p)' = Of(p) \cup {t} /\ t \notin Of(p)
  BY <1>1 DEF Of, p
<1>7. TypeOK'
  BY <1>1, <1>4, <1>5 DEF TypeOK, Still, capture
<1>8. StartInv'
  BY <1>1, <1>4, <1>5 DEF Still, StartInv, capture
<1>9. Apart(p)
  BY <1>1, <1>5 DEF Apart, capture, p
<1>10. /\ QueueInv(p)'
       /\ p \in debugged => queue'[p] # <<>> /\ queue'[p][1] = e /\ Untold(p, t)'
  BY <1>1, <1>2, <1>3, <1>4, <1>5, <1>6, AfterQuiet DEF Still
<1>11. StatusInv(p)'
  BY <1>1, <1>4, <1>6 DEF StatusInv, Still
<1>12. TableInv(p)'
  BY <1>1, <1>4 DEF TableInv, Still, ProcInv, capture
<1>13. ThreadsInv(p)'
  BY <1>1, <1>4, <1>6, <1>10 DEF ThreadsInv, Still, capture
<1>14. ArmedInv(p)'
  <2>1. dr \cap Of(p)' = dr \cap Of(p)
    BY <1>1, <1>6
  <2>2. table[p].armed /\ pc \in {"loop", "check"} => table[p].threads = Of(p)
    <3>1. table[p].armed => table[p].known
      BY <1>4, Constants DEF Still, ProcInv, TableInv
    <3> QED
      BY <3>1, <1>4 DEF Still, ProcInv, TableInv
  <2> QED
    BY <2>1, <2>2, <1>1, <1>4, <1>6 DEF ArmedInv, Still, ProcInv, capture
<1>15. ProcInv(p)'
  BY <1>10, <1>11, <1>12, <1>13, <1>14 DEF ProcInv
<1> QED
  BY <1>2, <1>7, <1>8, <1>9, <1>15, StepOf

\* Events that change nothing of what wxeasy keeps in its table.
LEMMA DllStep ==
  ASSUME CaptureInv, NEW p \in Proc, MapDll(p) \/ LoadOther(p)
  PROVE  CaptureInv'
<1> DEFINE e == Ev("dll", None, None)
<1>1. /\ Runs(p) /\ Raise(p, e)
      /\ dll' = dll \/ dll' = [dll EXCEPT ![p] = "mapped"]
      /\ loads' = loads \/ (loads[p] < MaxLoads /\ loads' = [loads EXCEPT ![p] = @ + 1])
      /\ UNCHANGED <<mode, status, live, dr, debugged, capture>>
  <2>1. CASE MapDll(p)
    BY <2>1 DEF MapDll
  <2>2. CASE LoadOther(p)
    BY <2>2 DEF LoadOther
  <2> QED
    BY <2>1, <2>2
<1>3. e \in Event /\ e.type = "dll"
  BY Events
<1>4. Still(p)
  BY <1>1, RunsStill
<1> HIDE DEF e
<1>5. /\ queue' \in [Proc -> Seq(Event)]
      /\ \A q \in Proc \ {p} : queue'[q] = queue[q]
      /\ queue'[p] = IF p \in debugged THEN <<e>> ELSE <<>>
      /\ queue = [q \in Proc |-> <<>>] /\ debugged = {} => queue' = queue
  BY <1>1, <1>3, <1>4, RaiseOne DEF Still
<1>6. Of(p)' = Of(p)
  BY <1>1 DEF Of
<1>7. TypeOK'
  <2>1. dll' \in [Proc -> {"no", "mapped", "listed"}]
    BY <1>1, <1>4 DEF TypeOK, Still
  <2>2. loads' \in [Proc -> 0..MaxLoads]
    <3>1. MaxLoads \in Nat /\ loads \in [Proc -> 0..MaxLoads]
      BY <1>4, DebugCaptureAssumption DEF TypeOK, Still
    <3>2. loads[p] < MaxLoads => loads[p] + 1 \in 0..MaxLoads
      BY <3>1
    <3> QED
      BY <3>1, <3>2, <1>1
  <2> QED
    BY <2>1, <2>2, <1>1, <1>4, <1>5 DEF TypeOK, Still, capture
<1>8. StartInv'
  BY <1>1, <1>4, <1>5 DEF Still, StartInv, capture
<1>9. Apart(p)
  BY <1>1, <1>5 DEF Apart, capture
<1>10. QueueInv(p)' /\ (p \in debugged => queue'[p] # <<>> /\ queue'[p][1] = e)
  BY <1>1, <1>3, <1>4, <1>5, <1>6, AfterQuiet DEF Still
<1>11. StatusInv(p)'
  BY <1>1, <1>4, <1>6 DEF StatusInv, Still
<1>12. TableInv(p)'
  BY <1>1, <1>4 DEF TableInv, Still, ProcInv, capture
<1>13. ThreadsInv(p)'
  BY <1>1, <1>4, <1>6 DEF ThreadsInv, Still, capture
<1>14. ArmedInv(p)'
  BY <1>1, <1>4, <1>6 DEF ArmedInv, Still, ProcInv, capture
<1>15. ProcInv(p)'
  BY <1>10, <1>11, <1>12, <1>13, <1>14 DEF ProcInv
<1> QED
  BY <1>7, <1>8, <1>9, <1>15, StepOf

LEMMA ExpandStep ==
  ASSUME CaptureInv, NEW t \in Thread, NEW d \in Db \cup {None}, Expand(t, d)
  PROVE  CaptureInv'
<1> DEFINE p == Owner[t]
           e == Ev("hit", t, d)
<1>1. /\ Runs(p) /\ t \in live
      /\ UNCHANGED <<mode, dll, loads, dr, debugged, capture>>
      /\ p \in debugged => Raise(p, e) /\ UNCHANGED <<status, live>>
      /\ p \notin debugged => /\ status' = [status EXCEPT ![p] = "crashed"]
                              /\ live' = live \ Of(p)
                              /\ UNCHANGED queue
  BY DEF Expand
<1>2. p \in Proc
  BY Constants
<1>3. e \in Event /\ e.type = "hit"
  BY Events
<1>4. Still(p)
  BY <1>1, <1>2, RunsStill
<1>5. \A q \in Thread : q \in Of(p) => Owner[q] = p
  BY DEF Of
<1> HIDE DEF e, p
<1>6. CASE p \in debugged
  <2>1. /\ queue' \in [Proc -> Seq(Event)]
        /\ \A q \in Proc \ {p} : queue'[q] = queue[q]
        /\ queue'[p] = IF p \in debugged THEN <<e>> ELSE <<>>
        /\ queue = [q \in Proc |-> <<>>] /\ debugged = {} => queue' = queue
    BY <1>1, <1>2, <1>3, <1>4, <1>6, RaiseOne DEF Still
  <2>2. Of(p)' = Of(p) /\ UNCHANGED <<status, live>>
    BY <1>1, <1>6 DEF Of
  <2>3. TypeOK'
    BY <2>1, <2>2, <1>1, <1>4 DEF TypeOK, Still, capture
  <2>4. StartInv'
    BY <2>1, <2>2, <1>1, <1>4 DEF Still, StartInv, capture
  <2>5. Apart(p)
    BY <2>1, <2>2, <1>1 DEF Apart, capture
  <2>6. QueueInv(p)' /\ queue'[p] # <<>> /\ queue'[p][1] = e
    BY <2>1, <2>2, <1>1, <1>2, <1>3, <1>4, <1>6, AfterQuiet DEF Still
  <2>7. StatusInv(p)' /\ TableInv(p)'
    BY <2>2, <1>1, <1>4 DEF StatusInv, TableInv, Still, ProcInv, capture
  <2>8. ThreadsInv(p)' /\ ArmedInv(p)'
    BY <2>2, <1>1, <1>4 DEF ThreadsInv, ArmedInv, Still, ProcInv, capture
  <2> QED
    BY <2>3, <2>4, <2>5, <2>6, <2>7, <2>8, <1>2, StepOf DEF ProcInv
<1>7. CASE p \notin debugged
  <2>1. /\ status' = [status EXCEPT ![p] = "crashed"] /\ live' = live \ Of(p)
        /\ queue' = queue /\ Of(p)' = {}
    BY <1>1, <1>7 DEF Of
  <2>2. TypeOK' /\ status'[p] = "crashed"
    BY <2>1, <1>1, <1>2, <1>4 DEF TypeOK, Still, capture
  <2>3. StartInv'
    BY <2>1, <1>1, <1>4 DEF Still, StartInv, capture
  <2>4. Apart(p)
    BY <2>1, <1>1, <1>4, <1>5 DEF Apart, capture, Still, TypeOK
  <2>5. QueueInv(p)'
    BY <2>1, <1>4 DEF QueueInv, Still
  <2>6. StatusInv(p)' /\ TableInv(p)'
    BY <2>1, <2>2, <1>1, <1>4 DEF StatusInv, TableInv, Still, ProcInv, capture
  <2>7. ThreadsInv(p)' /\ ArmedInv(p)'
    BY <2>1, <2>2, <1>1, <1>4, <1>7 DEF ThreadsInv, ArmedInv, Still, ProcInv, capture
  <2> QED
    BY <2>2, <2>3, <2>4, <2>5, <2>6, <2>7, <1>2, StepOf DEF ProcInv
<1> QED
  BY <1>6, <1>7

LEMMA ExitThreadStep ==
  ASSUME CaptureInv, NEW t \in Thread, ExitThread(t)
  PROVE  CaptureInv'
<1> DEFINE p == Owner[t]
           e == Ev("threadExit", t, None)
<1>1. /\ Runs(p) /\ t \in live /\ t # First[p]
      /\ live' = live \ {t} /\ dr' = dr \ {t} /\ Raise(p, e)
      /\ UNCHANGED <<mode, status, dll, loads, debugged, capture>>
  BY DEF ExitThread
<1>2. p \in Proc
  BY Constants
<1>3. e \in Event /\ e.type = "threadExit" /\ e.thread = t
  BY Events
<1>4. Still(p)
  BY <1>1, <1>2, RunsStill
<1>5. Of(p)' = Of(p) \ {t}
  BY <1>1 DEF Of
<1> HIDE DEF e
<1>6. /\ queue' \in [Proc -> Seq(Event)]
      /\ \A q \in Proc \ {p} : queue'[q] = queue[q]
      /\ queue'[p] = IF p \in debugged THEN <<e>> ELSE <<>>
      /\ queue = [q \in Proc |-> <<>>] /\ debugged = {} => queue' = queue
  BY <1>1, <1>2, <1>3, <1>4, RaiseOne DEF Still
<1>7. Apart(p)
  BY <1>1, <1>6 DEF Apart, capture
<1> HIDE DEF p
<1>8. TypeOK'
  BY <1>1, <1>4, <1>6 DEF TypeOK, Still, capture
<1>9. StartInv'
  BY <1>1, <1>4, <1>6 DEF Still, StartInv, capture
<1>10. QueueInv(p)' /\ (p \in debugged => Exiting(p, t)')
  BY <1>1, <1>2, <1>3, <1>4, <1>5, <1>6, AfterQuiet DEF Still
<1>11. StatusInv(p)' /\ TableInv(p)'
  BY <1>1, <1>4, <1>5 DEF StatusInv, TableInv, Still, ProcInv, capture
<1>12. ThreadsInv(p)'
  BY <1>1, <1>4, <1>5, <1>10 DEF ThreadsInv, Still, capture
<1>13. ArmedInv(p)'
  BY <1>1, <1>4, <1>5 DEF ArmedInv, Still, ProcInv, capture
<1> QED
  BY <1>2, <1>7, <1>8, <1>9, <1>10, <1>11, <1>12, <1>13, StepOf DEF ProcInv

LEMMA ExitProcessStep ==
  ASSUME CaptureInv, NEW p \in Proc, ExitProcess(p)
  PROVE  CaptureInv'
<1> DEFINE e == Ev("processExit", None, None)
<1>1. /\ Runs(p) /\ status' = [status EXCEPT ![p] = "dead"]
      /\ live' = live \ Of(p) /\ dr' = dr \ Of(p) /\ Raise(p, e)
      /\ UNCHANGED <<mode, dll, loads, debugged, capture>>
  BY DEF ExitProcess
<1>2. e \in Event /\ e.type = "processExit"
  BY Events
<1>3. Still(p)
  BY <1>1, RunsStill
<1>4. Of(p)' = {} /\ \A t \in Thread : t \in Of(p) => Owner[t] = p
  BY <1>1 DEF Of
<1> HIDE DEF e
<1>5. /\ queue' \in [Proc -> Seq(Event)]
      /\ \A q \in Proc \ {p} : queue'[q] = queue[q]
      /\ queue'[p] = IF p \in debugged THEN <<e>> ELSE <<>>
      /\ queue = [q \in Proc |-> <<>>] /\ debugged = {} => queue' = queue
  BY <1>1, <1>2, <1>3, RaiseOne DEF Still
<1>6. TypeOK' /\ status'[p] = "dead"
  BY <1>1, <1>3, <1>5 DEF TypeOK, Still, capture
<1>7. StartInv'
  BY <1>1, <1>3, <1>5 DEF Still, StartInv, capture
<1>8. Apart(p)
  BY <1>1, <1>3, <1>4, <1>5 DEF Apart, capture, Still, TypeOK
<1>9. QueueInv(p)'
  BY <1>1, <1>2, <1>4, <1>5, <1>6, AfterQuiet
<1>10. StatusInv(p)' /\ TableInv(p)' /\ ThreadsInv(p)'
  BY <1>1, <1>3, <1>4, <1>6 DEF StatusInv, TableInv, ThreadsInv, Still, ProcInv, capture
<1>11. ArmedInv(p)'
  BY <1>1, <1>3, <1>4 DEF ArmedInv, Still, ProcInv, capture
<1> QED
  BY <1>6, <1>7, <1>8, <1>9, <1>10, <1>11, StepOf DEF ProcInv

LEMMA BeginStep ==
  ASSUME CaptureInv, NEW p \in Proc, Begin(p)
  PROVE  CaptureInv'
<1> DEFINE t == First[p]
           e == Ev("process", t, None)
<1>1. /\ status[p] = "born" /\ status' = [status EXCEPT ![p] = "run"]
      /\ live' = live \cup {t} /\ Raise(p, e)
      /\ UNCHANGED <<mode, dll, loads, dr, debugged, capture>>
  BY DEF Begin
<1>2. t \in Thread /\ Owner[t] = p
  BY Constants
<1>3. e \in Event /\ e.type = "process" /\ e.thread = t
  BY <1>2, Events
<1>4. TypeOK /\ StartInv /\ ProcInv(p)
  BY DEF CaptureInv
<1>5. queue[p] = <<>> /\ Of(p) = {} /\ table[p] = Unknown
  BY <1>1, <1>4 DEF ProcInv, QueueInv, StatusInv, TableInv
<1>6. Of(p)' = {t}
  BY <1>1, <1>2, <1>5 DEF Of
<1>7. t \notin dr
  BY <1>1, <1>2, <1>4, <1>5 DEF ProcInv, ArmedInv
<1> HIDE DEF e
<1>8. /\ queue' \in [Proc -> Seq(Event)]
      /\ \A q \in Proc \ {p} : queue'[q] = queue[q]
      /\ queue'[p] = IF p \in debugged THEN <<e>> ELSE <<>>
      /\ queue = [q \in Proc |-> <<>>] /\ debugged = {} => queue' = queue
  BY <1>1, <1>3, <1>4, <1>5, RaiseOne
<1>9. TypeOK' /\ status'[p] = "run"
  BY <1>1, <1>2, <1>4, <1>8 DEF TypeOK, capture
<1>10. StartInv'
  <2>1. pc = "start" => mode # "relaunch"
    BY <1>1, <1>4 DEF StartInv
  <2> QED
    BY <2>1, <1>1, <1>4, <1>8 DEF StartInv, capture
<1>11. Apart(p)
  BY <1>1, <1>2, <1>4, <1>8 DEF Apart, capture, TypeOK
<1>12. table'[p] = Unknown /\ ~table[p].known /\ ~table[p].armed /\ table[p].threads = {}
  BY <1>1, <1>5, Constants DEF capture
<1>13. /\ QueueInv(p)'
       /\ p \in debugged => queue'[p] # <<>> /\ queue'[p][1] = e /\ Untold(p, t)'
  BY <1>1, <1>3, <1>6, <1>8, <1>9, <1>12, Constants, AfterQuiet
<1>14. StatusInv(p)'
  BY <1>6, <1>9 DEF StatusInv
<1>15. TableInv(p)'
  BY <1>1, <1>3, <1>9, <1>12, <1>13, Constants DEF TableInv, capture
<1>16. ThreadsInv(p)'
  BY <1>1, <1>6, <1>12, <1>13, Constants DEF ThreadsInv, capture
<1>17. ArmedInv(p)'
  BY <1>1, <1>4, <1>5, <1>6, <1>7, <1>12, Constants DEF ArmedInv, ProcInv, capture
<1> QED
  BY <1>9, <1>10, <1>11, <1>13, <1>14, <1>15, <1>16, <1>17, StepOf DEF ProcInv

LEMMA SpawnStep ==
  ASSUME CaptureInv, Spawn
  PROVE  CaptureInv'
<1>1. /\ Runs(Launcher) /\ status[Main] = "none"
      /\ status' = [status EXCEPT ![Main] = "born"]
      /\ debugged' = debugged \/ (Launcher \in debugged /\ debugged' = debugged \cup {Main})
      /\ UNCHANGED <<mode, live, dll, loads, dr, queue, capture>>
  BY DEF Spawn
<1>2. Main \in Proc /\ Launcher \in Proc /\ Still(Launcher)
  BY <1>1, Constants, RunsStill
<1>3. TypeOK /\ StartInv /\ ProcInv(Main)
  BY <1>2 DEF CaptureInv
<1>4. /\ queue[Main] = <<>> /\ Of(Main) = {} /\ table[Main] = Unknown
      /\ ~table[Main].known /\ ~table[Main].armed /\ table[Main].threads = {}
  BY <1>1, <1>3, Constants DEF ProcInv, QueueInv, StatusInv, TableInv
<1>5. Of(Main)' = {} /\ table' = table /\ pc' = pc /\ queue' = queue
  BY <1>1, <1>4 DEF Of, capture
<1>6. TypeOK' /\ status'[Main] = "born"
  BY <1>1, <1>2, <1>3 DEF TypeOK, capture
<1>7. StartInv'
  BY <1>1, <1>2, <1>3 DEF StartInv, Still, capture
<1>8. Apart(Main)
  BY <1>1, <1>3 DEF Apart, capture, TypeOK
<1>9. QueueInv(Main)'
  BY <1>4, <1>5 DEF QueueInv
<1>10. StatusInv(Main)' /\ TableInv(Main)' /\ ThreadsInv(Main)'
  BY <1>4, <1>5, <1>6 DEF StatusInv, TableInv, ThreadsInv
<1>11. ArmedInv(Main)'
  BY <1>1, <1>3, <1>4, <1>5 DEF ArmedInv, ProcInv
<1> QED
  BY <1>2, <1>6, <1>7, <1>8, <1>9, <1>10, <1>11, StepOf DEF ProcInv

\* Nothing of what the invariant is about changes.
LEMMA CaptureKept ==
  ASSUME CaptureInv, TypeOK',
         UNCHANGED <<mode, status, live, dr, debugged, queue, pc, table>>
  PROVE  CaptureInv'
<1>1. StartInv'
  BY DEF CaptureInv, StartInv
<1>2. ASSUME NEW p \in Proc PROVE ProcInv(p)'
  <2>1. StatusInv(p)' /\ QueueInv(p)' /\ TableInv(p)'
    BY DEF CaptureInv, ProcInv, StatusInv, QueueInv, TableInv, Of, Told
  <2>2. ThreadsInv(p)' /\ ArmedInv(p)'
    BY DEF CaptureInv, ProcInv, ThreadsInv, ArmedInv, Of, Untold, Exiting
  <2> QED
    BY <2>1, <2>2 DEF ProcInv
<1> QED
  BY <1>1, <1>2 DEF CaptureInv

LEMMA WeChatStep ==
  ASSUME CaptureInv, WeChat
  PROVE  CaptureInv'
<1>1. ASSUME NEW p \in Proc, ListDll(p) PROVE CaptureInv'
  <2>1. TypeOK'
    BY <1>1 DEF ListDll, CaptureInv, TypeOK, capture
  <2> QED
    BY <2>1, <1>1, CaptureKept DEF ListDll, capture
<1> QED
  BY <1>1, SpawnStep, BeginStep, DllStep, ExitProcessStep, NewThreadStep, ExitThreadStep,
     ExpandStep DEF WeChat

-----------------------------------------------------------------------------
(* Steps of wxeasy *)

\* The events of the threads an attached debugger is told of.
LEMMA ThreadEvents ==
  ASSUME NEW S, IsFiniteSet(S)
  PROVE  LET s == SetToSeq(S) IN
         /\ s \in Seq(S)
         /\ \A x \in S : \E i \in DOMAIN s : s[i] = x
<1> DEFINE n == Cardinality(S)
<1>1. n \in Nat /\ ExistsBijection(1..n, S)
  BY FS_CardinalityType
<1>2. PICK f \in [1..n -> S] : IsInjective(f)
  BY <1>1 DEF ExistsBijection, Bijection, Injection
<1>3. SetToSeq(S) \in [1..n -> S] /\ IsInjective(SetToSeq(S))
  BY <1>2 DEF SetToSeq
<1>4. SetToSeq(S) \in Injection(1..n, S)
  BY <1>3 DEF Injection
<1>5. IsFiniteSet(1..n) /\ Cardinality(1..n) = n
  BY <1>1, FS_Interval
<1>6. SetToSeq(S) \in Surjection(1..n, S)
  BY <1>4, <1>5, FS_Injection
<1>7. \A x \in S : \E i \in 1..n : SetToSeq(S)[i] = x
  BY <1>6 DEF Surjection
<1>8. PICK s : s = SetToSeq(S)
  OBVIOUS
<1> HIDE DEF n
<1>9. s \in Seq(S) /\ DOMAIN s = 1..n
  BY <1>1, <1>3, <1>8
<1> QED
  BY <1>7, <1>8, <1>9

Around(a, g, b) == <<a>> \o g \o <<b>>

LEMMA AttachQueue ==
  ASSUME NEW a \in Event, NEW b \in Event, NEW g \in Seq(Event),
         NEW q, q = Around(a, g, b)
  PROVE  /\ q \in Seq(Event) /\ q # <<>> /\ q[1] = a /\ 1 \in DOMAIN q
         /\ \A i \in DOMAIN q : i = 1 \/ q[i] = b \/ \E j \in DOMAIN g : q[i] = g[j]
         /\ \A j \in DOMAIN g : \E i \in DOMAIN q : q[i] = g[j]
<1> DEFINE r == <<a>> \o g
<1>1. r \in Seq(Event) /\ Len(r) = 1 + Len(g) /\ r[1] = a
      /\ \A i \in 2..Len(r) : r[i] = g[i - 1]
  OBVIOUS
<1>0. q = r \o <<b>>
  BY DEF Around
<1> HIDE DEF r
<1>2. q \in Seq(Event) /\ Len(q) = Len(r) + 1 /\ q[Len(q)] = b
      /\ \A i \in 1..Len(r) : q[i] = r[i]
  BY <1>0, <1>1
<1>3. Len(g) \in Nat /\ DOMAIN g = 1..Len(g) /\ DOMAIN q = 1..(Len(g) + 2) /\ q # <<>>
  BY <1>1, <1>2
<1>4. q[1] = a /\ 1 \in DOMAIN q
  BY <1>1, <1>2, <1>3
<1>5. ASSUME NEW i \in DOMAIN q, i # 1, i # Len(g) + 2
      PROVE  i - 1 \in DOMAIN g /\ q[i] = g[i - 1]
  BY <1>1, <1>2, <1>3, <1>5
<1>6. \A i \in DOMAIN q : i = 1 \/ q[i] = b \/ \E j \in DOMAIN g : q[i] = g[j]
  BY <1>1, <1>2, <1>3, <1>5
<1>7. ASSUME NEW j \in DOMAIN g PROVE \E i \in DOMAIN q : q[i] = g[j]
  <2>1. j + 1 \in DOMAIN q /\ j + 1 # 1 /\ j + 1 # Len(g) + 2 /\ j + 1 - 1 = j
    BY <1>3
  <2> QED
    BY <2>1, <1>5
<1> QED
  BY <1>2, <1>3, <1>4, <1>6, <1>7

\* Windows tells a debugger that attaches itself of everything there is.
LEMMA AttachStep ==
  ASSUME CaptureInv, Attach
  PROVE  CaptureInv'
<1> DEFINE p == Main
           T == Of(p) \ {First[p]}
           S == {Ev("thread", t, None) : t \in T}
           a == Ev("process", First[p], None)
           b == Ev("dll", None, None)
           q == <<a>> \o SetToSeq(S) \o <<b>>
<1>1. /\ pc = "start" /\ mode = "attach" /\ Runs(p) /\ pc' = "loop" /\ debugged' = {p}
      /\ queue' = [queue EXCEPT ![p] = q]
      /\ UNCHANGED <<mode, status, live, dll, loads, dr, table, done, why>>
  BY DEF Attach, To
<1>2. p \in Proc /\ First[p] \in Thread /\ IsFiniteSet(Thread) /\ Unknown.threads = {}
      /\ ~Unknown.known /\ ~Unknown.armed
  BY Constants
<1>3. Still(p) /\ status[p] = "run" /\ First[p] \in Of(p)
  BY <1>1, <1>2, RunsStill DEF Runs, Still
<1>4. T \subseteq Thread
  BY <1>3, OwnThreads, <1>2 DEF Still
<1>5. /\ \A e \in S : e \in Event /\ e.type = "thread" /\ e.thread \in Of(p)
      /\ \A t \in T : \E e \in S : e.type = "thread" /\ e.thread = t
      /\ a \in Event /\ a.type = "process" /\ a.thread = First[p]
      /\ b \in Event /\ b.type = "dll"
  BY <1>2, <1>4, Events
<1>6. IsFiniteSet(S)
  <2>1. IsFiniteSet(T)
    BY <1>2, <1>4, FS_Subset
  <2>2. [t \in T |-> Ev("thread", t, None)] \in Surjection(T, S)
    BY DEF Surjection
  <2> QED
    BY <2>1, <2>2, FS_Surjection
<1> HIDE DEF S, T, a, b, p
<1>7. PICK g \in Seq(S) : g = SetToSeq(S) /\ \A x \in S : \E i \in DOMAIN g : g[i] = x
  BY <1>6, ThreadEvents
<1>8. g \in Seq(Event) /\ \A i \in DOMAIN g : g[i] \in S
  BY <1>5, <1>7
<1>9. /\ q \in Seq(Event) /\ q # <<>> /\ q[1] = a /\ 1 \in DOMAIN q
      /\ \A i \in DOMAIN q : i = 1 \/ q[i] = b \/ q[i] \in S
      /\ \A e \in S : \E i \in DOMAIN q : q[i] = e
  <2>1. q = Around(a, g, b)
    BY <1>7 DEF Around
  <2> HIDE DEF q
  <2>2. /\ q \in Seq(Event) /\ q # <<>> /\ q[1] = a /\ 1 \in DOMAIN q
        /\ \A i \in DOMAIN q : i = 1 \/ q[i] = b \/ \E j \in DOMAIN g : q[i] = g[j]
        /\ \A j \in DOMAIN g : \E i \in DOMAIN q : q[i] = g[j]
    <3>1. a \in Event /\ b \in Event /\ g \in Seq(Event)
      BY <1>5, <1>8
    <3> QED
      BY <3>1, <2>1, AttachQueue
  <2> QED
    BY <2>2, <1>7, <1>8
<1> HIDE DEF q
<1>10. queue'[p] = q /\ Of(p)' = Of(p) /\ table' = table /\ table[p] = Unknown
       /\ debugged = {} /\ dr = {} /\ status'[p] = "run" /\ dr' = {}
  BY <1>1, <1>2, <1>3 DEF Still, StartInv, TypeOK, Of
<1>11. TypeOK'
  <2>1. queue' \in [Proc -> Seq(Event)] /\ debugged' \subseteq Proc
    BY <1>1, <1>2, <1>3, <1>9 DEF Still, TypeOK
  <2> QED
    BY <2>1, <1>1, <1>3 DEF Still, TypeOK
<1>12. StartInv'
  BY <1>1 DEF StartInv
<1>13. ASSUME NEW r \in Proc, r # p PROVE ProcInv(r)'
  <2>1. /\ ProcInv(r) /\ queue'[r] = <<>> /\ table'[r] = Unknown /\ r \notin debugged'
        /\ status' = status /\ Of(r)' = Of(r) /\ dr' = {}
    BY <1>1, <1>3, <1>10, <1>13 DEF CaptureInv, StartInv, Still, TypeOK, Of
  <2>2. StatusInv(r)' /\ QueueInv(r)' /\ TableInv(r)'
    BY <2>1, <1>2 DEF ProcInv, StatusInv, QueueInv, TableInv
  <2>3. ThreadsInv(r)' /\ ArmedInv(r)'
    BY <2>1, <1>2 DEF ThreadsInv, ArmedInv
  <2> QED
    BY <2>2, <2>3 DEF ProcInv
<1>14. ProcInv(p)'
  <2>1. StatusInv(p)' /\ TableInv(p)'
    BY <1>1, <1>2, <1>3, <1>5, <1>9, <1>10 DEF Still, ProcInv, StatusInv, TableInv
  <2>2. QueueInv(p)'
    <3>1. \A i \in DOMAIN q : /\ q[i].type \in {"process", "thread", "dll"}
                              /\ q[i].type # "dll" => q[i].thread \in Of(p)
                              /\ q[i].type = "process" => i = 1
      BY <1>3, <1>5, <1>9
    <3> QED
      BY <3>1, <1>1, <1>2, <1>10 DEF QueueInv
  <2>3. \A t \in Of(p) : Untold(p, t)'
    <3> SUFFICES ASSUME NEW t \in Of(p) PROVE Untold(p, t)'
      OBVIOUS
    <3>1. CASE t = First[p]
      BY <3>1, <1>5, <1>9, <1>10 DEF Untold
    <3>2. CASE t # First[p]
      <4>1. PICK e \in S : e.type = "thread" /\ e.thread = t
        BY <3>2, <1>5 DEF T
      <4>2. PICK i \in DOMAIN q : q[i] = e
        BY <1>9
      <4> QED
        BY <4>1, <4>2, <1>10 DEF Untold
    <3> QED
      BY <3>1, <3>2
  <2>4. ThreadsInv(p)' /\ ArmedInv(p)'
    BY <2>3, <1>1, <1>2, <1>10 DEF ThreadsInv, ArmedInv
  <2> QED
    BY <2>1, <2>2, <2>4 DEF ProcInv
<1> QED
  BY <1>11, <1>12, <1>13, <1>14 DEF CaptureInv

LEMMA LaunchStep ==
  ASSUME CaptureInv, Launch
  PROVE  CaptureInv'
<1>1. /\ pc = "start" /\ mode = "relaunch" /\ pc' = "loop" /\ debugged' = {Launcher}
      /\ status' = [status EXCEPT ![Launcher] = "born"]
      /\ UNCHANGED <<mode, live, dll, loads, dr, queue, table, done, why>>
  BY DEF Launch, To
<1>2. TypeOK /\ StartInv
  BY DEF CaptureInv
<1>3. TypeOK'
  BY <1>1, <1>2, Constants DEF TypeOK
<1>4. ASSUME NEW p \in Proc PROVE ProcInv(p)'
  <2>1. /\ queue'[p] = <<>> /\ table'[p] = Unknown /\ dr' = {} /\ status[p] = "none"
        /\ status'[p] \in {"none", "born"}
    BY <1>1, <1>2, Constants DEF StartInv, TypeOK
  <2>2. Of(p) = {} /\ Of(p)' = {}
    BY <2>1, <1>1 DEF CaptureInv, ProcInv, StatusInv, Of
  <2>3. StatusInv(p)' /\ QueueInv(p)' /\ TableInv(p)'
    BY <2>1, <2>2, Constants DEF StatusInv, QueueInv, TableInv
  <2>4. ThreadsInv(p)' /\ ArmedInv(p)'
    BY <2>1, <2>2, Constants DEF ThreadsInv, ArmedInv
  <2> QED
    BY <2>3, <2>4 DEF ProcInv
<1>5. StartInv'
  BY <1>1 DEF StartInv
<1> QED
  BY <1>3, <1>4, <1>5 DEF CaptureInv

\* What wxeasy has before it answers the event e of process p, and what is
\* queued when it has.
Asked(p, e) ==
  /\ TypeOK /\ ProcInv(p) /\ pc = "loop" /\ p \in debugged
  /\ e \in Event /\ e = queue[p][1] /\ e = Head(queue[p]) /\ 1 \in DOMAIN queue[p]
  /\ e.type # "processExit" => status[p] = "run"
  /\ queue' = [queue EXCEPT ![p] = Tail(queue[p])]
  /\ queue'[p] \in Seq(Event)
  /\ \A i \in DOMAIN queue'[p] :
       /\ queue'[p][i].type \in {"thread", "dll"}
       /\ queue'[p][i].type = "thread" => queue'[p][i].thread \in Of(p)
  /\ \A i \in DOMAIN queue[p] :
       i = 1 \/ \E j \in DOMAIN queue'[p] : queue'[p][j] = queue[p][i]
  /\ e.type \in {"hit", "threadExit", "processExit"} => queue'[p] = <<>>

LEMMA Asking ==
  ASSUME CaptureInv, NEW p \in Proc, Answer(p)
  PROVE  Asked(p, Head(queue[p]))
<1> DEFINE q == queue[p]
           r == queue'[p]
<1>1. /\ TypeOK /\ ProcInv(p) /\ pc = "loop" /\ q # <<>> /\ q \in Seq(Event)
      /\ queue' = [queue EXCEPT ![p] = Tail(q)] /\ r = Tail(q)
  BY DEF CaptureInv, Answer, TypeOK
<1>2. /\ Len(q) \in Nat \ {0} /\ DOMAIN q = 1..Len(q) /\ 1 \in DOMAIN q /\ Head(q) = q[1]
      /\ q[1] \in Event
  BY <1>1
<1>3. /\ r \in Seq(Event) /\ DOMAIN r = 1..(Len(q) - 1)
      /\ \A i \in 1..(Len(q) - 1) : r[i] = q[i + 1]
  <2> HIDE DEF q, r
  <2>1. r = Tail(q) /\ q \in Seq(Event) /\ Len(q) \in Nat \ {0}
    BY <1>1, <1>2
  <2>2. r \in Seq(Event) /\ Len(r) = Len(q) - 1 /\ \A i \in 1..Len(r) : r[i] = q[i + 1]
    BY <2>1
  <2> QED
    BY <2>1, <2>2
<1>4. /\ p \in debugged
      /\ \/ status[p] = "run"
         \/ status[p] = "dead" /\ Told(p, "processExit")
  BY <1>1 DEF ProcInv, QueueInv
<1>5. \A i \in DOMAIN q :
        /\ q[i].type \in {"process", "thread"} => q[i].thread \in Of(p)
        /\ q[i].type = "process" => i = 1
        /\ q[i].type \in {"hit", "threadExit", "processExit"} => Len(q) = 1
  BY <1>1 DEF ProcInv, QueueInv
<1>6. Told(p, "processExit") => q[1].type = "processExit"
  <2> SUFFICES ASSUME NEW i \in DOMAIN q, q[i].type = "processExit" PROVE i = 1
    BY DEF Told
  <2> QED
    BY <1>2, <1>5
<1>7. ASSUME NEW i \in DOMAIN r
      PROVE  /\ r[i].type \in {"thread", "dll"}
             /\ r[i].type = "thread" => r[i].thread \in Of(p)
  <2>1. i + 1 \in DOMAIN q /\ r[i] = q[i + 1] /\ i + 1 # 1 /\ Len(q) # 1
    BY <1>2, <1>3
  <2>2. q[i + 1] \in Event
    BY <1>1, <2>1
  <2>3. q[i + 1].type \in {"process", "thread", "dll", "hit", "threadExit", "processExit"}
    BY <2>2 DEF Event
  <2> HIDE DEF q, r
  <2> QED
    BY <2>1, <2>3, <1>5
<1>8. ASSUME NEW i \in DOMAIN q, i # 1 PROVE \E j \in DOMAIN r : r[j] = q[i]
  <2>1. i - 1 \in DOMAIN r /\ r[i - 1] = q[i]
    BY <1>2, <1>3, <1>8
  <2> QED
    BY <2>1
<1>9. q[1].type \in {"hit", "threadExit", "processExit"} => r = <<>>
  BY <1>2, <1>3, <1>5
<1> QED
  BY <1>1, <1>2, <1>3, <1>4, <1>6, <1>7, <1>8, <1>9 DEF Asked

\* What follows for the queue of a process whose threads and status stay.
LEMMA AnsweredQueue ==
  ASSUME NEW p \in Proc, NEW e, Asked(p, e), e.type # "processExit",
         debugged' = debugged, status' = status, Of(p)' = Of(p)
  PROVE  /\ QueueInv(p)' /\ StatusInv(p)'
         /\ \A t : Untold(p, t) =>
              Untold(p, t)' \/ (t = e.thread /\ e.type \in {"process", "thread"})
         /\ \A t : Exiting(p, t) => t = e.thread /\ e.type = "threadExit"
<1>1. QueueInv(p)'
  BY DEF Asked, QueueInv
<1>2. StatusInv(p)'
  BY DEF Asked, ProcInv, StatusInv
<1>3. ASSUME NEW t, Untold(p, t)
      PROVE  Untold(p, t)' \/ (t = e.thread /\ e.type \in {"process", "thread"})
  <2>1. PICK i \in DOMAIN queue[p] :
          queue[p][i].thread = t /\ queue[p][i].type \in {"process", "thread"}
    BY <1>3 DEF Untold
  <2>2. i = 1 \/ \E j \in DOMAIN queue'[p] : queue'[p][j] = queue[p][i]
    BY DEF Asked
  <2> QED
    BY <2>1, <2>2 DEF Untold, Asked
<1>4. ASSUME NEW t, Exiting(p, t) PROVE t = e.thread /\ e.type = "threadExit"
  <2>1. PICK i \in DOMAIN queue[p] :
          queue[p][i].thread = t /\ queue[p][i].type = "threadExit"
    BY <1>4 DEF Exiting
  <2>2. i = 1 \/ \E j \in DOMAIN queue'[p] : queue'[p][j] = queue[p][i]
    BY DEF Asked
  <2> QED
    BY <2>1, <2>2 DEF Asked
<1> QED
  BY <1>1, <1>2, <1>3, <1>4

\* A step of the loop leaves the other processes alone.
LEMMA LoopApart ==
  ASSUME NEW p \in Proc, NEW e, Asked(p, e), pc' = "check", debugged' = debugged,
         \A q \in Proc \ {p} : status'[q] = status[q] /\ table'[q] = table[q],
         live' \subseteq live, live \ Of(p) \subseteq live',
         dr \subseteq dr', dr' \subseteq dr \cup Of(p)
  PROVE  Apart(p) /\ StartInv'
<1>1. \A t \in Of(p) : Owner[t] = p
  BY DEF Of
<1>2. \A q \in Proc \ {p} : queue'[q] = queue[q]
  BY DEF Asked, TypeOK
<1>3. Apart(p)
  BY <1>1, <1>2 DEF Asked, Apart
<1> QED
  BY <1>3 DEF StartInv

LEMMA OnHitStep ==
  ASSUME CaptureInv, NEW p \in Proc, OnHit(p)
  PROVE  CaptureInv'
<1> DEFINE e == Head(queue[p])
<1>1. /\ e.type = "hit" /\ pc' = "check" /\ UNCHANGED <<mode, dll, loads, dr, debugged, table, why>>
      /\ \/ done' = Keys(e.db) /\ UNCHANGED <<status, live>>
         \/ /\ status' = [status EXCEPT ![p] = "crashed"] /\ live' = live \ Of(p)
            /\ UNCHANGED done
  BY DEF OnHit, Reported, To
<1>2. Asked(p, e)
  BY Asking DEF OnHit
<1> HIDE DEF e
<1>3. queue'[p] = <<>>
  BY <1>1, <1>2 DEF Asked
<1>4. TypeOK'
  <2>1. queue' \in [Proc -> Seq(Event)] /\ e.db \in Db \cup {None}
    BY <1>2 DEF Asked, TypeOK, Event
  <2>2. done' \subseteq Db
    BY <2>1, <1>1, <1>2 DEF Keys, Asked, TypeOK
  <2> QED
    BY <2>1, <2>2, <1>1, <1>2 DEF Asked, TypeOK
<1>5. Apart(p) /\ StartInv'
  BY <1>1, <1>2, LoopApart DEF Asked, TypeOK
<1>6. CASE UNCHANGED <<status, live>>
  <2>1. Of(p)' = Of(p)
    BY <1>6 DEF Of
  <2>2. /\ QueueInv(p)' /\ StatusInv(p)'
        /\ \A t : Untold(p, t) => Untold(p, t)'
        /\ \A t : ~Exiting(p, t)
    BY <2>1, <1>1, <1>2, <1>6, AnsweredQueue
  <2>3. TableInv(p)'
    BY <2>1, <1>1, <1>2, <1>6 DEF Asked, ProcInv, TableInv
  <2>4. ThreadsInv(p)' /\ ArmedInv(p)'
    BY <2>1, <2>2, <1>1, <1>2, <1>6 DEF Asked, ProcInv, ThreadsInv, ArmedInv
  <2> QED
    BY <2>2, <2>3, <2>4, <1>4, <1>5, StepOf DEF ProcInv
<1>7. CASE status' = [status EXCEPT ![p] = "crashed"] /\ live' = live \ Of(p)
  <2>1. Of(p)' = {} /\ status'[p] = "crashed"
    BY <1>2, <1>7 DEF Of, Asked, TypeOK
  <2>2. QueueInv(p)'
    BY <1>3 DEF QueueInv
  <2>3. StatusInv(p)' /\ TableInv(p)' /\ ThreadsInv(p)'
    BY <2>1, <1>1, <1>2 DEF Asked, ProcInv, StatusInv, TableInv, ThreadsInv
  <2>4. ArmedInv(p)'
    BY <2>1, <1>1, <1>2 DEF Asked, ArmedInv
  <2> QED
    BY <2>2, <2>3, <2>4, <1>4, <1>5, StepOf DEF ProcInv
<1> QED
  BY <1>1, <1>6, <1>7

LEMMA OnThreadExitStep ==
  ASSUME CaptureInv, NEW p \in Proc, OnThreadExit(p)
  PROVE  CaptureInv'
<1> DEFINE e == Head(queue[p])
<1>1. /\ e.type = "threadExit" /\ pc' = "check"
      /\ table' = [table EXCEPT ![p].threads = @ \ {e.thread}]
      /\ UNCHANGED <<mode, status, live, dll, loads, dr, debugged, done, why>>
  BY DEF OnThreadExit, Reported, To
<1>2. Asked(p, e)
  BY Asking DEF OnThreadExit
<1> HIDE DEF e
<1>3. e.thread \notin Of(p)
  BY <1>1, <1>2 DEF Asked, ProcInv, QueueInv
<1>4. /\ table[p] \in Entry /\ table'[p] = [table[p] EXCEPT !.threads = @ \ {e.thread}]
      /\ table' = [table EXCEPT ![p] = table'[p]]
  BY <1>1, <1>2 DEF Asked, TypeOK, Entry
<1>5. /\ table'[p] \in Entry /\ table'[p].known = table[p].known
      /\ table'[p].armed = table[p].armed
      /\ table'[p].threads = table[p].threads \ {e.thread}
  BY <1>4 DEF Entry
<1>6. TypeOK'
  <2>1. queue' \in [Proc -> Seq(Event)]
    BY <1>2 DEF Asked, TypeOK
  <2> QED
    BY <2>1, <1>1, <1>2, <1>4, <1>5 DEF Asked, TypeOK, Entry
<1>7. Apart(p) /\ StartInv'
  BY <1>1, <1>2, <1>4, LoopApart DEF Asked, TypeOK
<1>8. Of(p)' = Of(p)
  BY <1>1 DEF Of
<1>9. /\ QueueInv(p)' /\ StatusInv(p)'
      /\ \A t : Untold(p, t) => Untold(p, t)'
      /\ \A t : Exiting(p, t) => t = e.thread
  BY <1>1, <1>2, <1>8, AnsweredQueue
<1>10. TableInv(p)'
  <2>1. ~table[p].known => table'[p] = Unknown
    <3>1. ~table[p].known => table[p] = Unknown
      BY <1>2 DEF Asked, ProcInv, TableInv
    <3>2. table[p] = Unknown => table'[p] = Unknown
      BY <1>4 DEF Unknown
    <3> QED
      BY <3>1, <3>2
  <2>2. table[p].known
    <3>1. status[p] = "run" => Of(p) # {}
      BY <1>2 DEF Asked, ProcInv, StatusInv
    <3> QED
      BY <3>1, <1>1, <1>2 DEF Asked, ProcInv, TableInv
  <2> QED
    BY <2>1, <2>2, <1>1, <1>2, <1>5, <1>8 DEF Asked, ProcInv, TableInv
<1>11. ThreadsInv(p)'
  BY <1>1, <1>2, <1>3, <1>5, <1>8, <1>9 DEF Asked, ProcInv, ThreadsInv
<1>12. ArmedInv(p)'
  BY <1>1, <1>2, <1>3, <1>5, <1>8 DEF Asked, ProcInv, ArmedInv
<1> QED
  BY <1>6, <1>7, <1>9, <1>10, <1>11, <1>12, StepOf DEF ProcInv

LEMMA OnProcessExitStep ==
  ASSUME CaptureInv, NEW p \in Proc, OnProcessExit(p)
  PROVE  CaptureInv'
<1> DEFINE e == Head(queue[p])
<1>1. /\ e.type = "processExit" /\ pc' = "check"
      /\ table' = [table EXCEPT ![p] = Unknown] /\ why' \in {why, "gone"}
      /\ UNCHANGED <<mode, status, live, dll, loads, dr, debugged, done>>
  BY DEF OnProcessExit, Reported, To
<1>2. Asked(p, e)
  BY Asking DEF OnProcessExit
<1> HIDE DEF e
<1>3. Of(p) = {} /\ Of(p)' = {} /\ queue'[p] = <<>>
  BY <1>1, <1>2 DEF Asked, ProcInv, QueueInv, Of
<1>4. table'[p] = Unknown
  BY <1>1, <1>2 DEF Asked, TypeOK
<1>5. TypeOK'
  <2>1. queue' \in [Proc -> Seq(Event)] /\ table' \in [Proc -> Entry]
    BY <1>1, <1>2, Constants DEF Asked, TypeOK, Entry
  <2> QED
    BY <2>1, <1>1, <1>2 DEF Asked, TypeOK, Entry
<1>6. Apart(p) /\ StartInv'
  BY <1>1, <1>2, LoopApart DEF Asked, TypeOK
<1>7. QueueInv(p)'
  BY <1>3 DEF QueueInv
<1>8. StatusInv(p)' /\ TableInv(p)'
  BY <1>1, <1>2, <1>3, <1>4, Constants DEF Asked, ProcInv, StatusInv, TableInv
<1>9. ThreadsInv(p)' /\ ArmedInv(p)'
  BY <1>1, <1>2, <1>3, <1>4, Constants DEF Asked, ProcInv, ThreadsInv, ArmedInv
<1> QED
  BY <1>5, <1>6, <1>7, <1>8, <1>9, StepOf DEF ProcInv

\* The threads of the process that wxeasy knows once it has answered e.
ThreadsWith(p, e) ==
  table[p].threads \cup (IF e.type \in {"process", "thread"} THEN {e.thread} ELSE {})

\* wxeasy learns of threads or arms them, all those it knows or none.
LEMMA LearnStep ==
  ASSUME CaptureInv, NEW p \in Proc, NEW e, Asked(p, e), e.type \in {"process", "thread", "dll"},
         pc' = "check", UNCHANGED <<mode, status, live, dll, loads, debugged, done, why>>,
         NEW A \in BOOLEAN,
         table' = [table EXCEPT ![p] = [known |-> TRUE, armed |-> A, threads |-> ThreadsWith(p, e)]],
         dr \subseteq dr', dr' \subseteq dr \cup ThreadsWith(p, e), A => ThreadsWith(p, e) \subseteq dr'
  PROVE  CaptureInv'
<1> DEFINE T == ThreadsWith(p, e)
<1>1. status[p] = "run" /\ p \in debugged /\ pc = "loop" /\ TypeOK
  BY DEF Asked
<1>2. Of(p)' = Of(p)
  BY DEF Of
<1>3. /\ QueueInv(p) /\ StatusInv(p)' /\ QueueInv(p)
      /\ \A t : Untold(p, t) =>
           Untold(p, t)' \/ (t = e.thread /\ e.type \in {"process", "thread"})
      /\ \A t : ~Exiting(p, t)
  BY <1>2, AnsweredQueue DEF Asked, ProcInv
<1>4. T \subseteq Of(p)
  <2>1. table[p].threads \subseteq Of(p)
    BY <1>1, <1>3 DEF Asked, ProcInv, ThreadsInv
  <2>2. e.type \in {"process", "thread"} => e.thread \in Of(p)
    BY <1>3 DEF Asked, QueueInv
  <2> QED
    BY <2>1, <2>2 DEF ThreadsWith
<1>5. T \subseteq Thread
  BY <1>1, <1>4, OwnThreads
<1> HIDE DEF T
<1>6. /\ table'[p].known /\ table'[p].armed = A /\ table'[p].threads = T
      /\ table' \in [Proc -> Entry] /\ \A q \in Proc \ {p} : table'[q] = table[q]
  <2>1. [known |-> TRUE, armed |-> A, threads |-> T] \in Entry
    BY <1>5 DEF Entry
  <2> QED
    BY <2>1, <1>1 DEF TypeOK, Entry, T
<1>7. dr \subseteq dr' /\ dr' \subseteq dr \cup T /\ (A => T \subseteq dr')
  BY DEF T
<1>8. TypeOK'
  <2>1. queue' \in [Proc -> Seq(Event)]
    BY <1>1 DEF Asked, TypeOK
  <2>2. dr' \subseteq Thread
    BY <1>1, <1>5, <1>7 DEF TypeOK
  <2> QED
    BY <2>1, <2>2, <1>1, <1>6 DEF TypeOK, Entry
<1>9. Apart(p) /\ StartInv'
  BY <1>4, <1>6, <1>7, LoopApart
<1>10. QueueInv(p)'
  BY <1>2, AnsweredQueue
<1>11. TableInv(p)'
  BY <1>1, <1>6 DEF TableInv
<1>12. ThreadsInv(p)'
  <2>1. \A t \in Of(p) : t \in table[p].threads \/ Untold(p, t)
    BY <1>1 DEF Asked, ProcInv, ThreadsInv
  <2>2. \A t \in Of(p) : t \in T \/ Untold(p, t)'
    BY <2>1, <1>3 DEF T, ThreadsWith
  <2> QED
    BY <2>2, <1>2, <1>4, <1>6 DEF ThreadsInv
<1>13. ArmedInv(p)'
  <2>1. table[p].threads \subseteq T
    BY DEF T, ThreadsWith
  <2>2. \A t \in T : t \in Of(p)
    BY <1>4
  <2>3. /\ dr \cap Of(p) \subseteq table[p].threads
        /\ \A t \in dr : Owner[t] = p => t \in Of(p) \/ status[p] = "crashed"
    BY <1>1 DEF Asked, ProcInv, ArmedInv
  <2>4. dr' \cap Of(p) \subseteq T
    BY <2>1, <2>3, <1>7
  <2>5. \A t \in dr' : Owner[t] = p => t \in Of(p) \/ status[p] = "crashed"
    BY <2>2, <2>3, <1>7
  <2> QED
    BY <2>4, <2>5, <1>1, <1>2, <1>6, <1>7 DEF ArmedInv
<1> QED
  BY <1>3, <1>8, <1>9, <1>10, <1>11, <1>12, <1>13, StepOf DEF ProcInv

\* A process is known before anything but its first event is answered.
LEMMA KnownAsked ==
  ASSUME NEW p \in Proc, NEW e, Asked(p, e), e.type \in {"thread", "dll"}
  PROVE  /\ table[p] \in Entry /\ table[p].known
         /\ table[p].armed => table[p].threads \subseteq dr
<1>1. status[p] = "run" => Of(p) # {}
  BY DEF Asked, ProcInv, StatusInv
<1>2. table[p] \in Entry /\ table[p].known
  BY <1>1 DEF Asked, ProcInv, TableInv, TypeOK, Entry
<1>3. \A t : ~Exiting(p, t)
  <2> SUFFICES ASSUME NEW i \in DOMAIN queue[p], queue[p][i].type = "threadExit" PROVE FALSE
    BY DEF Exiting
  <2>1. i = 1 \/ \E j \in DOMAIN queue'[p] : queue'[p][j] = queue[p][i]
    BY DEF Asked
  <2> QED
    BY <2>1 DEF Asked
<1>4. table[p].threads \subseteq Of(p)
  BY <1>3 DEF Asked, ProcInv, ThreadsInv
<1> QED
  BY <1>2, <1>4 DEF Asked, ProcInv, ArmedInv

LEMMA OnThreadStep ==
  ASSUME CaptureInv, NEW p \in Proc, OnThread(p)
  PROVE  CaptureInv'
<1> DEFINE e == Head(queue[p])
<1>1. /\ e.type = "thread" /\ pc' = "check"
      /\ table' = IF table[p].known
                  THEN [table EXCEPT ![p].threads = @ \cup {e.thread}] ELSE table
      /\ dr' = IF table[p].armed THEN dr \cup {e.thread} ELSE dr
      /\ UNCHANGED <<mode, status, live, dll, loads, debugged, done, why>>
  BY DEF OnThread, Reported, To, Arm
<1>2. Asked(p, e)
  BY Asking DEF OnThread
<1> HIDE DEF e
<1>3. /\ table[p] \in Entry /\ table[p].known
      /\ table[p].armed => table[p].threads \subseteq dr
  BY <1>1, <1>2, KnownAsked
<1>4. ThreadsWith(p, e) = table[p].threads \cup {e.thread}
  BY <1>1 DEF ThreadsWith
<1>5. [table[p] EXCEPT !.threads = @ \cup {e.thread}]
        = [known |-> TRUE, armed |-> table[p].armed, threads |-> ThreadsWith(p, e)]
  <2>1. PICK k \in BOOLEAN, a \in BOOLEAN, T \in SUBSET Thread :
          table[p] = [known |-> k, armed |-> a, threads |-> T]
    BY <1>3 DEF Entry
  <2>2. k = TRUE
    BY <1>3, <2>1
  <2>3. [table[p] EXCEPT !.threads = @ \cup {e.thread}]
          = [known |-> k, armed |-> a, threads |-> T \cup {e.thread}]
    BY <2>1
  <2>4. table[p].armed = a /\ table[p].threads = T
    BY <2>1
  <2> QED
    BY <1>4, <2>2, <2>3, <2>4
<1>6. table' = [table EXCEPT ![p] = [known |-> TRUE, armed |-> table[p].armed,
                                     threads |-> ThreadsWith(p, e)]]
  BY <1>1, <1>3, <1>5
<1>7. dr \subseteq dr' /\ dr' \subseteq dr \cup ThreadsWith(p, e)
      /\ (table[p].armed => ThreadsWith(p, e) \subseteq dr')
  BY <1>1, <1>3, <1>4
<1>8. table[p].armed \in BOOLEAN
  BY <1>3 DEF Entry
<1> QED
  BY <1>1, <1>2, <1>6, <1>7, <1>8, LearnStep

LEMMA TryArmStep ==
  ASSUME CaptureInv, NEW p \in Proc, NEW e, Asked(p, e), e.type \in {"process", "dll"},
         table[p].armed \in BOOLEAN, TryArm(p, ThreadsWith(p, e)), pc' = "check",
         UNCHANGED <<mode, status, live, dll, loads, debugged, done, why>>,
         table[p].armed => ThreadsWith(p, e) \subseteq dr
  PROVE  CaptureInv'
<1> DEFINE T == ThreadsWith(p, e)
<1>1. CASE dll[p] = "listed" /\ ~table[p].armed
  <2>1. /\ table' = [table EXCEPT ![p] = [known |-> TRUE, armed |-> TRUE, threads |-> T]]
        /\ dr' = dr \cup T
    BY <1>1 DEF TryArm, Arm
  <2> QED
    BY <2>1, LearnStep
<1>2. CASE ~(dll[p] = "listed" /\ ~table[p].armed)
  <2>1. /\ table' = [table EXCEPT ![p] = [known |-> TRUE, armed |-> table[p].armed,
                                          threads |-> T]]
        /\ dr' = dr
    BY <1>2 DEF TryArm
  <2> QED
    BY <2>1, LearnStep
<1> QED
  BY <1>1, <1>2

LEMMA OnDllStep ==
  ASSUME CaptureInv, NEW p \in Proc, OnDll(p)
  PROVE  CaptureInv'
<1> DEFINE e == Head(queue[p])
<1>1. /\ e.type = "dll" /\ pc' = "check"
      /\ table[p].known => TryArm(p, table[p].threads)
      /\ UNCHANGED <<mode, status, live, dll, loads, debugged, done, why>>
  BY DEF OnDll, Reported, To
<1>2. Asked(p, e)
  BY Asking DEF OnDll
<1> HIDE DEF e
<1>3. /\ table[p] \in Entry /\ table[p].known
      /\ table[p].armed => table[p].threads \subseteq dr
  BY <1>1, <1>2, KnownAsked
<1>4. ThreadsWith(p, e) = table[p].threads
  BY <1>1 DEF ThreadsWith
<1>5. table[p].armed \in BOOLEAN
  BY <1>3 DEF Entry
<1> QED
  BY <1>1, <1>2, <1>3, <1>4, <1>5, TryArmStep

LEMMA OnProcessStep ==
  ASSUME CaptureInv, NEW p \in Proc, OnProcess(p)
  PROVE  CaptureInv'
<1> DEFINE e == Head(queue[p])
<1>1. /\ e.type = "process" /\ pc' = "check"
      /\ TryArm(p, table[p].threads \cup {e.thread})
      /\ UNCHANGED <<mode, status, live, dll, loads, debugged, done, why>>
  BY DEF OnProcess, Reported, To
<1>2. Asked(p, e)
  BY Asking DEF OnProcess
<1> HIDE DEF e
<1>3. table[p] = Unknown
  BY <1>1, <1>2 DEF Asked, ProcInv, QueueInv, TableInv
<1>4. ThreadsWith(p, e) = table[p].threads \cup {e.thread}
  BY <1>1 DEF ThreadsWith
<1>5. table[p].armed \in BOOLEAN /\ ~table[p].armed
  BY <1>3, Constants DEF Unknown
<1> QED
  BY <1>1, <1>2, <1>4, <1>5, TryArmStep

-----------------------------------------------------------------------------
(* The end of the capture *)

LEMMA DisarmStep ==
  ASSUME CaptureInv, NEW p \in Proc, Disarm(p)
  PROVE  CaptureInv'
<1>1. /\ pc = "detach" /\ p \in debugged /\ dr' = dr \ table[p].threads
      /\ UNCHANGED <<mode, status, live, dll, loads, debugged, queue, capture>>
  BY DEF Disarm
<1>2. TypeOK /\ \A q \in Proc : ProcInv(q)
  BY DEF CaptureInv
<1>3. TypeOK' /\ StartInv'
  BY <1>1, <1>2 DEF TypeOK, StartInv, capture
<1>4. ASSUME NEW q \in Proc PROVE ProcInv(q)'
  <2>1. StatusInv(q)' /\ QueueInv(q)' /\ TableInv(q)' /\ ThreadsInv(q)'
    BY <1>1, <1>2 DEF ProcInv, StatusInv, QueueInv, TableInv, ThreadsInv, Of, Told, Untold,
                      Exiting, capture
  <2>2. ArmedInv(q)'
    BY <1>1, <1>2 DEF ProcInv, ArmedInv, Of, capture
  <2> QED
    BY <2>1, <2>2 DEF ProcInv
<1> QED
  BY <1>3, <1>4 DEF CaptureInv

\* What a process is left with when its debugger goes.
LEMMA Released ==
  ASSUME TypeOK, NEW P \in SUBSET Proc, Release(P), table' = table, dr' = dr,
         pc' \notin {"loop", "check", "start"}
  PROVE  /\ status' \in [Proc -> {"none", "born", "run", "dead", "crashed"}]
         /\ live' \subseteq Thread /\ debugged' \subseteq Proc
         /\ queue' \in [Proc -> Seq(Event)] /\ debugged' = debugged \ P
         /\ \A q \in P : ProcInv(q) =>
              StatusInv(q)' /\ QueueInv(q)' /\ TableInv(q)' /\ ThreadsInv(q)'
              /\ (pc' = "killed" \/ dr \cap Of(q) = {} => ArmedInv(q)')
<1> DEFINE lost == {p \in P : Pending(p)}
<1>1. /\ status' = [p \in Proc |-> IF p \in lost THEN "crashed" ELSE status[p]]
      /\ live' = {t \in live : Owner[t] \notin lost}
      /\ queue' = [p \in Proc |-> IF p \in P THEN <<>> ELSE queue[p]]
      /\ debugged' = debugged \ P
  BY DEF Release
<1> HIDE DEF lost
<1>2. /\ status' \in [Proc -> {"none", "born", "run", "dead", "crashed"}]
      /\ live' \subseteq Thread /\ debugged' \subseteq Proc
      /\ queue' \in [Proc -> Seq(Event)] /\ debugged' = debugged \ P
  BY <1>1 DEF TypeOK
<1>3. ASSUME NEW q \in P, ProcInv(q)
      PROVE  StatusInv(q)' /\ QueueInv(q)' /\ TableInv(q)' /\ ThreadsInv(q)'
             /\ (pc' = "killed" \/ dr \cap Of(q) = {} => ArmedInv(q)')
  <2>1. q \in Proc /\ queue'[q] = <<>> /\ q \notin debugged'
    BY <1>1
  <2>2. \/ q \in lost /\ status'[q] = "crashed" /\ Of(q)' = {}
        \/ q \notin lost /\ status'[q] = status[q] /\ Of(q)' = Of(q)
    BY <1>1, <2>1 DEF Of
  <2>3. StatusInv(q)'
    BY <2>2, <1>3 DEF ProcInv, StatusInv
  <2>4. QueueInv(q)'
    BY <2>1 DEF QueueInv
  <2>5. TableInv(q)' /\ ThreadsInv(q)'
    BY <2>1, <2>2, <1>3 DEF ProcInv, TableInv, ThreadsInv
  <2>6. pc' = "killed" \/ dr \cap Of(q) = {} => ArmedInv(q)'
    BY <2>1, <2>2, <1>3 DEF ProcInv, ArmedInv
  <2> QED
    BY <2>3, <2>4, <2>5, <2>6
<1> QED
  BY <1>2, <1>3

\* Windows lets the whole process go: the others do not notice.
LEMMA ReleasedApart ==
  ASSUME TypeOK, NEW p \in Proc, Release({p}), table' = table, dr' = dr,
         pc' = pc
  PROVE  Apart(p)
<1> DEFINE lost == {q \in {p} : Pending(q)}
<1>1. /\ status' = [q \in Proc |-> IF q \in lost THEN "crashed" ELSE status[q]]
      /\ live' = {t \in live : Owner[t] \notin lost}
      /\ queue' = [q \in Proc |-> IF q \in {p} THEN <<>> ELSE queue[q]]
      /\ debugged' = debugged \ {p}
  BY DEF Release
<1>2. lost \subseteq {p}
  OBVIOUS
<1> HIDE DEF lost
<1> QED
  BY <1>1, <1>2 DEF Apart, TypeOK

LEMMA StopStep ==
  ASSUME CaptureInv, NEW p \in Proc, Stop(p)
  PROVE  CaptureInv'
<1>1. /\ pc = "detach" /\ p \in debugged /\ dr \cap table[p].threads = {}
      /\ Release({p}) /\ UNCHANGED <<mode, dll, loads, dr, capture>>
  BY DEF Stop
<1>2. TypeOK /\ ProcInv(p)
  BY DEF CaptureInv
<1>3. dr \cap Of(p) = {}
  BY <1>1, <1>2 DEF ProcInv, ArmedInv
<1>4. /\ status' \in [Proc -> {"none", "born", "run", "dead", "crashed"}]
      /\ live' \subseteq Thread /\ debugged' \subseteq Proc
      /\ queue' \in [Proc -> Seq(Event)]
      /\ StatusInv(p)' /\ QueueInv(p)' /\ TableInv(p)' /\ ThreadsInv(p)' /\ ArmedInv(p)'
  BY <1>1, <1>2, <1>3, Released DEF capture
<1>5. TypeOK' /\ StartInv'
  BY <1>1, <1>2, <1>4 DEF TypeOK, StartInv, capture
<1>6. Apart(p)
  BY <1>1, <1>2, ReleasedApart DEF capture
<1>7. ProcInv(p)'
  BY <1>4 DEF ProcInv
<1> QED
  BY <1>4, <1>5, <1>6, <1>7, StepOf

\* What is not debugged has no events queued, and stays as it is.
LEMMA NotReleased ==
  ASSUME CaptureInv, Release(debugged), table' = table, dr' = dr,
         pc' \in {"ended", "killed"}, pc # "killed", NEW q \in Proc \ debugged
  PROVE  ProcInv(q)'
<1> DEFINE lost == {p \in debugged : Pending(p)}
<1>1. /\ status' = [p \in Proc |-> IF p \in lost THEN "crashed" ELSE status[p]]
      /\ live' = {t \in live : Owner[t] \notin lost}
      /\ queue' = [p \in Proc |-> IF p \in debugged THEN <<>> ELSE queue[p]]
      /\ debugged' = debugged \ debugged
  BY DEF Release
<1>2. TypeOK /\ ProcInv(q) /\ q \notin lost
  BY DEF CaptureInv
<1> HIDE DEF lost
<1>3. /\ status'[q] = status[q] /\ queue'[q] = queue[q] /\ Of(q)' = Of(q)
      /\ q \notin debugged' /\ queue[q] = <<>>
  BY <1>1, <1>2 DEF Of, ProcInv, QueueInv
<1>4. StatusInv(q)' /\ TableInv(q)'
  BY <1>2, <1>3 DEF ProcInv, StatusInv, TableInv
<1>5. QueueInv(q)'
  BY <1>3 DEF QueueInv
<1>6. ThreadsInv(q)' /\ ArmedInv(q)'
  BY <1>2, <1>3 DEF ProcInv, ThreadsInv, ArmedInv
<1> QED
  BY <1>4, <1>5, <1>6 DEF ProcInv

\* An end lets go only of processes whose first event was never answered:
\* nothing of them is in the table, so nothing of them has a breakpoint.
LEMMA LeaveStep ==
  ASSUME CaptureInv, End \/ Kill
  PROVE  CaptureInv'
<1>1. /\ Release(debugged) /\ pc' \in {"ended", "killed"} /\ pc # "killed"
      /\ UNCHANGED <<mode, dll, loads, dr, table, done, why>>
      /\ pc' = "ended" => \A p \in debugged : ~table[p].known
  <2>1. CASE End
    BY <2>1 DEF End, To
  <2>2. CASE Kill
    BY <2>2 DEF Kill, To
  <2> QED
    BY <2>1, <2>2
<1>2. TypeOK /\ debugged \subseteq Proc /\ \A q \in Proc : ProcInv(q)
  BY DEF CaptureInv, TypeOK
<1>3. /\ status' \in [Proc -> {"none", "born", "run", "dead", "crashed"}]
      /\ live' \subseteq Thread /\ debugged' \subseteq Proc
      /\ queue' \in [Proc -> Seq(Event)] /\ debugged' = {}
      /\ \A q \in debugged : ProcInv(q) =>
           StatusInv(q)' /\ QueueInv(q)' /\ TableInv(q)' /\ ThreadsInv(q)'
           /\ (pc' = "killed" \/ dr \cap Of(q) = {} => ArmedInv(q)')
  BY <1>1, <1>2, Released
<1>4. TypeOK' /\ StartInv'
  BY <1>1, <1>2, <1>3 DEF TypeOK, StartInv
<1>5. ASSUME NEW q \in debugged PROVE ProcInv(q)'
  <2>1. q \in Proc /\ ProcInv(q)
    BY <1>2
  <2>2. pc' = "killed" \/ dr \cap Of(q) = {}
    <3>1. ~table[q].known => table[q].threads = {}
      BY <2>1, Constants DEF ProcInv, TableInv
    <3> QED
      BY <1>1, <1>5, <2>1, <3>1 DEF ProcInv, ArmedInv
  <2> QED
    BY <1>3, <2>1, <2>2 DEF ProcInv
<1>6. ASSUME NEW q \in Proc \ debugged PROVE ProcInv(q)'
  BY <1>1, NotReleased
<1> QED
  BY <1>3, <1>4, <1>5, <1>6 DEF CaptureInv

\* Steps that only say where run_capture goes on.
LEMMA GoesOnStep ==
  ASSUME CaptureInv, Check \/ TimedOut
  PROVE  CaptureInv'
<1>1. /\ pc \in {"loop", "check"} /\ pc' \in {"loop", "detach"}
      /\ why' \in {"all", why} /\ UNCHANGED <<windows, table, done>>
  <2>1. CASE Check
    BY <2>1 DEF Check, To
  <2>2. CASE TimedOut
    BY <2>2 DEF TimedOut, To
  <2> QED
    BY <2>1, <2>2
<1>2. TypeOK /\ \A q \in Proc : ProcInv(q)
  BY DEF CaptureInv
<1>3. TypeOK' /\ StartInv'
  BY <1>1, <1>2 DEF TypeOK, StartInv, windows
<1>4. ASSUME NEW q \in Proc PROVE ProcInv(q)'
  BY <1>1, <1>2 DEF ProcInv, StatusInv, QueueInv, TableInv, ThreadsInv, ArmedInv, Of, Told,
                    Untold, Exiting, windows
<1> QED
  BY <1>3, <1>4 DEF CaptureInv

-----------------------------------------------------------------------------
LEMMA CaptureInit ==
  ASSUME Init
  PROVE  CaptureInv
<1>1. /\ mode \in {"attach", "relaunch"}
      /\ status = [p \in Proc |-> IF mode = "attach" /\ p = Main THEN "run" ELSE "none"]
      /\ live = {t \in Thread : status[Owner[t]] = "run"}
      /\ dr = {} /\ debugged = {} /\ queue = [p \in Proc |-> <<>>]
      /\ pc = "start" /\ table = [p \in Proc |-> Unknown]
  BY DEF Init
<1>2. TypeOK
  <2>1. table \in [Proc -> [known : BOOLEAN, armed : BOOLEAN, threads : SUBSET Thread]]
    BY <1>1, Constants DEF Entry
  <2>2. queue \in [Proc -> Seq(Event)]
    BY <1>1
  <2>3. /\ dll \in [Proc -> {"no", "mapped", "listed"}] /\ loads \in [Proc -> 0..MaxLoads]
        /\ done \subseteq Db /\ why \in {"none", "all", "gone"}
    BY DebugCaptureAssumption DEF Init
  <2>4. status \in [Proc -> {"none", "born", "run", "dead", "crashed"}]
    BY <1>1
  <2> QED
    BY <1>1, <2>1, <2>2, <2>3, <2>4 DEF TypeOK
<1>3. StartInv
  BY <1>1 DEF StartInv
<1>4. ASSUME NEW p \in Proc PROVE ProcInv(p)
  <2>1. /\ queue[p] = <<>> /\ table[p] = Unknown /\ status[p] \in {"none", "run"}
        /\ First[p] \in Thread /\ Owner[First[p]] = p
    BY <1>1, Constants
  <2>2. StatusInv(p)
    BY <1>1, <2>1 DEF StatusInv, Of
  <2>3. QueueInv(p) /\ TableInv(p) /\ ThreadsInv(p)
    BY <1>1, <2>1, Constants DEF QueueInv, TableInv, ThreadsInv
  <2>4. ArmedInv(p)
    BY <1>1, <2>1, Constants DEF ArmedInv
  <2> QED
    BY <2>2, <2>3, <2>4 DEF ProcInv
<1> QED
  BY <1>2, <1>3, <1>4 DEF CaptureInv

LEMMA DebuggerStep ==
  ASSUME CaptureInv, Debugger
  PROVE  CaptureInv'
<1>1. CASE Attach
  BY <1>1, AttachStep
<1>2. CASE Launch
  BY <1>2, LaunchStep
<1>3. CASE Check \/ TimedOut
  BY <1>3, GoesOnStep
<1>4. CASE End
  BY <1>4, LeaveStep
<1>5. CASE \E p \in Proc : OnProcess(p) \/ OnThread(p) \/ OnDll(p)
  BY <1>5, OnProcessStep, OnThreadStep, OnDllStep
<1>6. CASE \E p \in Proc : OnHit(p) \/ OnThreadExit(p) \/ OnProcessExit(p)
  BY <1>6, OnHitStep, OnThreadExitStep, OnProcessExitStep
<1>7. CASE \E p \in Proc : Disarm(p) \/ Stop(p)
  BY <1>7, DisarmStep, StopStep
<1> QED
  BY <1>1, <1>2, <1>3, <1>4, <1>5, <1>6, <1>7 DEF Debugger

\* The state of Windows and of run_capture keeps its types, a process stands
\* still while an event of it is queued, and the table says which threads it has.
THEOREM CaptureCorrect == Spec => []CaptureInv
<1>1. Init => CaptureInv
  BY CaptureInit
<1>2. CaptureInv /\ [Next]_vars => CaptureInv'
  <2> SUFFICES ASSUME CaptureInv, [Next]_vars PROVE CaptureInv'
    OBVIOUS
  <2>1. CASE WeChat
    BY <2>1, WeChatStep
  <2>2. CASE Debugger
    BY <2>2, DebuggerStep
  <2>3. CASE Kill
    BY <2>3, LeaveStep
  <2>4. CASE UNCHANGED vars
    <3>1. TypeOK'
      BY <2>4 DEF CaptureInv, TypeOK, vars, windows, capture
    <3> QED
      BY <2>4, <3>1, CaptureKept DEF vars, windows, capture
  <2> QED
    BY <2>1, <2>2, <2>3, <2>4 DEF Next
<1> QED
  BY <1>1, <1>2, PTL DEF Spec

\* While wxeasy waits for the next event, every thread of a process in which the
\* breakpoints are set has its own or is about to be reported, so no database is
\* opened unseen, whenever the thread was made (hwbp.rs:4-6, debugger.rs:14).
THEOREM ThreadsSeen == Spec => []NoThreadUnseen
<1>1. CaptureInv => NoThreadUnseen
  <2> SUFFICES ASSUME CaptureInv, pc = "loop", NEW p \in Proc, table[p].armed, NEW t \in Of(p)
               PROVE  t \in dr \/ Untold(p, t)
    BY DEF NoThreadUnseen
  <2>1. ProcInv(p)
    BY DEF CaptureInv
  <2>2. table[p].known
    BY <2>1, Constants DEF ProcInv, TableInv
  <2>3. p \in debugged
    BY <2>1, <2>2 DEF ProcInv, TableInv
  <2> QED
    BY <2>1, <2>3 DEF ProcInv, ThreadsInv, ArmedInv
<1> QED
  BY <1>1, CaptureCorrect, PTL

\* Once run_capture has returned no live thread has a breakpoint: one that is left
\* would end WeChat at its next hit, with no debugger to answer it (hwbp.rs:74).
THEOREM NothingLeft == Spec => []NoResidue
<1>1. CaptureInv => NoResidue
  <2> SUFFICES ASSUME CaptureInv, pc = "ended" PROVE dr \cap live = {}
    BY DEF NoResidue
  <2>1. ASSUME NEW t \in dr \cap live PROVE FALSE
    <3>1. Owner[t] \in Proc /\ t \in Of(Owner[t])
      BY Constants DEF CaptureInv, TypeOK, Of
    <3>2. ProcInv(Owner[t])
      BY <3>1 DEF CaptureInv
    <3>3. debugged = {}
      BY DEF CaptureInv, StartInv
    <3> QED
      BY <3>1, <3>2, <3>3 DEF ProcInv, ArmedInv
  <2> QED
    BY <2>1
<1> QED
  BY <1>1, CaptureCorrect, PTL

-----------------------------------------------------------------------------
\* The key file.

KeyInitType ==
  /\ key \in [Database -> Nat]
  /\ saved \in [Dir -> [Database -> Nat]]
  /\ present \subseteq Dir
  /\ entries \in [Database -> Nat]

\* What the run at hand could take from the files it has taken: when it replaces its
\* own file, with every key that is still good.
CommandInv ==
  /\ step = "idle" => entries = NoKeys
  /\ step # "idle" => cmd.dir \in {"here", "home"} /\ expected = Cardinality(Encrypted)
  /\ \A d \in Database : entries[d] \in {0, key[d]}
  /\ step = "save" =>
       \A d \in Database : (\E f \in Candidates(cmd) : Verifies(saved[f][d], d)) => entries[d] = key[d]

KeyInv == KeyInitType /\ CommandInv

\* Entries that are as many as the encrypted databases are those of all of them.
LEMMA AllCounted ==
  ASSUME KeyInv, NEW e \in [Database -> Nat], \A d \in Database : e[d] \in {0, key[d]},
         Count(e) >= Cardinality(Encrypted), NEW d \in Database, key[d] # 0
  PROVE  e[d] = key[d]
<1> DEFINE S == {x \in Database : e[x] # 0}
<1>1. S \subseteq Encrypted /\ IsFiniteSet(Encrypted)
  <2>1. S \subseteq Encrypted
    BY DEF Encrypted
  <2>2. Encrypted \subseteq Database
    BY DEF Encrypted
  <2> QED
    BY <2>1, <2>2, FS_Subset, KeyInitAssumption
<1>2. Cardinality(S) >= Cardinality(Encrypted)
  BY DEF Count
<1>3. S = Encrypted
  <2>1. Cardinality(S) <= Cardinality(Encrypted) /\ (Cardinality(S) = Cardinality(Encrypted) => S = Encrypted)
    BY <1>1, FS_Subset
  <2>2. Cardinality(S) \in Nat /\ Cardinality(Encrypted) \in Nat
    BY <1>1, FS_Subset, FS_CardinalityType
  <2> QED
    BY <2>1, <2>2, <1>2
<1>4. d \in S
  BY <1>3 DEF Encrypted
<1> QED
  BY <1>4

\* What was scanned is kept, and what is missing comes from the files if it can.
LEMMA Reused ==
  ASSUME KeyInv, NEW c, NEW e \in [Database -> Nat], \A d \in Database : e[d] \in {0, key[d]}
  PROVE  /\ Reuse(c, e) \in [Database -> Nat]
         /\ \A d \in Database : Reuse(c, e)[d] \in {0, key[d]}
         /\ \A d \in Database : (\E f \in Candidates(c) : Verifies(saved[f][d], d)) => Reuse(c, e)[d] = key[d]
  BY DEF Reuse, KeyInv, KeyInitType, Verifies

LEMMA NoKeysType == NoKeys \in [Database -> Nat] /\ \A d \in Database : NoKeys[d] = 0
  BY DEF NoKeys

LEMMA Halted ==
  ASSUME KeyInv, KeyInitType', UNCHANGED key, step' = "idle", entries' = NoKeys
  PROVE  KeyInv'
  BY NoKeysType DEF KeyInv, CommandInv

\* The file of the run's directory is replaced by e: no good key goes with it.
LEMMA Replaced ==
  ASSUME KeyInv, cmd.dir \in {"here", "home"}, NEW e \in [Database -> Nat],
         UNCHANGED key, saved' = [saved EXCEPT ![cmd.dir] = e], present' = present \cup {cmd.dir},
         \A d \in Database : (\E f \in Candidates(cmd) : Verifies(saved[f][d], d)) => e[d] = key[d],
         NEW dir \in {"here", "home"}, NEW d \in Database, Known(dir, d)
  PROVE  Known(dir, d)'
<1>1. saved \in [Dir -> [Database -> Nat]] /\ cmd.dir \in Dir
  BY DEF KeyInv, KeyInitType, Dir
<1>2. key[d] # 0
  BY DEF Known
<1>3. PICK f \in present \cap {dir, "home"} : saved[f][d] = key[d]
  BY DEF Known
<1>4. CASE f # cmd.dir
  <2>1. saved'[f] = saved[f] /\ f \in present'
    BY <1>1, <1>4
  <2> QED
    BY <2>1, <1>2, <1>3 DEF Known
<1>5. CASE f = cmd.dir
  <2>1. f \in Candidates(cmd) /\ Verifies(saved[f][d], d)
    BY <1>2, <1>3, <1>5 DEF Candidates, Verifies
  <2>2. saved'[f][d] = key[d] /\ f \in present'
    BY <2>1, <1>1, <1>5
  <2> QED
    BY <2>2, <1>2, <1>3 DEF Known
<1> QED
  BY <1>4, <1>5

LEMMA InitKeysInv == InitKeys => KeyInv
<1> SUFFICES ASSUME InitKeys PROVE KeyInv
  OBVIOUS
<1>1. key \in [Database -> Nat] /\ step = "idle" /\ entries = NoKeys
  BY DEF InitKeys
<1>2. saved \in [Dir -> [Database -> Nat]] /\ present \subseteq Dir
  BY NoKeysType DEF InitKeys, Dir
<1> QED
  BY <1>1, <1>2, NoKeysType DEF KeyInv, KeyInitType, CommandInv

Kept == \A dir \in {"here", "home"}, d \in Database :
          Known(dir, d) /\ key'[d] = key[d] => Known(dir, d)'

LEMMA FilesStay ==
  ASSUME UNCHANGED <<saved, present>>
  PROVE  Kept
  BY DEF Kept, Known

LEMMA KeyStep ==
  ASSUME KeyInv, [KeyNext]_keyVars
  PROVE  KeyInv' /\ Kept
<1>1. /\ key \in [Database -> Nat] /\ saved \in [Dir -> [Database -> Nat]]
      /\ present \subseteq Dir /\ entries \in [Database -> Nat]
      /\ \A d \in Database : entries[d] \in {0, key[d]}
      /\ step # "idle" => cmd.dir \in {"here", "home"} /\ expected = Cardinality(Encrypted)
  BY DEF KeyInv, KeyInitType, CommandInv
<1>2. ASSUME NEW c \in Commands, Start(c) PROVE KeyInv' /\ Kept
  <2>1. /\ step' # "idle" /\ step' # "save" /\ cmd' = c /\ expected' = Cardinality(Encrypted)
        /\ entries' = NoKeys /\ UNCHANGED <<key, saved, present>>
    BY <1>2 DEF Start
  <2>2. c.dir \in {"here", "home"} /\ Encrypted' = Encrypted
    BY <2>1 DEF Commands, ConfigDirs, Encrypted
  <2> QED
    BY <2>1, <2>2, <1>1, NoKeysType, FilesStay DEF KeyInv, KeyInitType, CommandInv
<1>3. ASSUME NEW w, w \subseteq Database, NEW got \in Found(w)
      PROVE  got \in [Database -> Nat] /\ \A d \in Database : got[d] \in {0, key[d]}
  BY <1>1, <1>3 DEF Found
<1>4. CASE Scan
  <2>1. PICK got \in Found(IF cmd.scans THEN Encrypted ELSE {}) : entries' = got
    BY <1>4 DEF Scan
  <2>2. got \in [Database -> Nat] /\ \A d \in Database : got[d] \in {0, key[d]}
    BY <1>3 DEF Encrypted
  <2>3. /\ step # "idle" /\ step' = "fill" /\ UNCHANGED <<key, saved, present, cmd, expected>>
        /\ Encrypted' = Encrypted
    BY <1>4 DEF Scan, Encrypted
  <2> QED
    BY <2>1, <2>2, <2>3, <1>1, FilesStay DEF KeyInv, KeyInitType, CommandInv
<1>5. CASE Underlay
  <2> DEFINE e == Reuse(cmd, NoKeys)
  <2>1. /\ e \in [Database -> Nat] /\ \A d \in Database : e[d] \in {0, key[d]}
        /\ \A d \in Database : (\E f \in Candidates(cmd) : Verifies(saved[f][d], d)) => e[d] = key[d]
    BY NoKeysType, Reused
  <2>2. /\ step = "underlay" /\ entries' = e /\ UNCHANGED <<key, cmd, expected>>
        /\ step' \in {"save", "capture"}
        /\ \/ UNCHANGED <<saved, present>>
           \/ /\ step' = "capture"
              /\ saved' = [saved EXCEPT ![cmd.dir] = e] /\ present' = present \cup {cmd.dir}
    <3>1. step = "underlay" /\ entries' = e /\ UNCHANGED <<key, cmd, expected>>
      BY <1>5 DEF Underlay
    <3>2. CASE Count(entries') >= expected
      BY <3>1, <3>2, <1>5 DEF Underlay
    <3>3. CASE ~(Count(entries') >= expected)
      BY <3>1, <3>3, <1>5 DEF Underlay, Persist
    <3> QED
      BY <3>1, <3>2, <3>3
  <2> HIDE DEF e
  <2>3. CommandInv'
    <3>1. Encrypted' = Encrypted
      BY <2>2 DEF Encrypted
    <3>2. step' = "save" => Candidates(cmd)' = Candidates(cmd) /\ saved' = saved
      BY <2>2 DEF Candidates
    <3> QED
      BY <2>1, <2>2, <3>1, <3>2, <1>1 DEF CommandInv, Verifies
  <2>4. CASE UNCHANGED <<saved, present>>
    BY <2>1, <2>2, <2>3, <2>4, <1>1, FilesStay DEF KeyInv, KeyInitType
  <2>5. CASE saved' = [saved EXCEPT ![cmd.dir] = e] /\ present' = present \cup {cmd.dir}
    <3>1. KeyInitType'
      BY <2>5, <2>1, <2>2, <1>1 DEF KeyInitType, Dir
    <3>2. Kept
      BY <2>5, <2>1, <2>2, <1>1, Replaced DEF Kept
    <3> QED
      BY <3>1, <3>2, <2>3 DEF KeyInv
  <2> QED
    BY <2>2, <2>4, <2>5
<1>6. CASE CaptureSome
  <2>1. PICK got \in Found(Missing) : Capture(got)
    BY <1>6 DEF CaptureSome
  <2>2. got \in [Database -> Nat] /\ \A d \in Database : got[d] \in {0, key[d]}
    BY <1>3 DEF Missing, Encrypted
  <2>3. Merge(entries, got) \in [Database -> Nat]
        /\ \A d \in Database : Merge(entries, got)[d] \in {0, key[d]}
    BY <2>2, <1>1 DEF Merge
  <2>4. /\ step # "idle" /\ step' = "fill" /\ UNCHANGED <<key, saved, present, cmd, expected>>
        /\ entries' = Merge(entries, got) /\ Encrypted' = Encrypted
    BY <2>1 DEF Capture, Encrypted
  <2> QED
    BY <2>3, <2>4, <1>1, FilesStay DEF KeyInv, KeyInitType, CommandInv
<1>7. CASE FillIn
  <2> DEFINE e == IF Count(entries) < expected THEN Reuse(cmd, entries) ELSE entries
  <2>1. /\ step = "fill" /\ UNCHANGED <<key, saved, present>>
        /\ \/ step' = "idle" /\ entries' = NoKeys
           \/ step' = "save" /\ entries' = e /\ UNCHANGED <<cmd, expected>>
    <3>1. step = "fill" /\ UNCHANGED <<key, saved, present>>
      BY <1>7 DEF FillIn
    <3>2. \/ step' = "idle" /\ entries' = NoKeys
          \/ step' = "save" /\ entries' = e /\ UNCHANGED <<cmd, expected>>
      BY <1>7 DEF FillIn
    <3> QED
      BY <3>1, <3>2
  <2>2. /\ e \in [Database -> Nat] /\ \A d \in Database : e[d] \in {0, key[d]}
        /\ \A d \in Database : (\E f \in Candidates(cmd) : Verifies(saved[f][d], d)) => e[d] = key[d]
    <3>1. CASE Count(entries) < expected
      BY <3>1, <1>1, Reused
    <3>2. CASE ~(Count(entries) < expected)
      <4>1. Count(entries) \in Nat /\ Cardinality(Encrypted) \in Nat
        BY FS_Subset, FS_CardinalityType, KeyInitAssumption DEF Count, Encrypted
      <4>2. Count(entries) >= Cardinality(Encrypted)
        BY <4>1, <3>2, <2>1, <1>1
      <4> QED
        BY <4>2, <3>2, <1>1, AllCounted DEF Verifies
    <3> QED
      BY <3>1, <3>2
  <2> HIDE DEF e
  <2>3. CASE step' = "idle" /\ entries' = NoKeys
    BY <2>1, <2>3, <1>1, NoKeysType, Halted, FilesStay DEF KeyInitType
  <2>4. CASE step' = "save" /\ entries' = e /\ UNCHANGED <<cmd, expected>>
    <3>1. Encrypted' = Encrypted /\ Candidates(cmd)' = Candidates(cmd)
      BY <2>1, <2>4 DEF Encrypted, Candidates
    <3> QED
      BY <3>1, <2>1, <2>2, <2>4, <1>1, FilesStay DEF KeyInv, KeyInitType, CommandInv, Verifies
  <2> QED
    BY <2>1, <2>3, <2>4
<1>8. CASE Save
  <2>1. CASE UNCHANGED <<saved, present>> /\ step' = "idle" /\ entries' = NoKeys
    BY <2>1, <1>1, <1>8, NoKeysType, Halted, FilesStay DEF KeyInitType, Save
  <2>2. CASE saved' = [saved EXCEPT ![cmd.dir] = entries] /\ present' = present \cup {cmd.dir}
             /\ step' = "config" /\ UNCHANGED <<cmd, expected, entries>>
    <3>1. step = "save" /\ UNCHANGED key /\ Encrypted' = Encrypted
      BY <1>8 DEF Save, Encrypted
    <3>2. KeyInv'
      BY <3>1, <2>2, <1>1 DEF KeyInv, KeyInitType, CommandInv, Dir
    <3>3. \A d \in Database : (\E f \in Candidates(cmd) : Verifies(saved[f][d], d)) => entries[d] = key[d]
      BY <3>1 DEF KeyInv, CommandInv
    <3>4. Kept
      BY <3>1, <3>3, <2>2, <1>1, Replaced DEF Kept
    <3> QED
      BY <3>2, <3>4
  <2> QED
    BY <2>1, <2>2, <1>8 DEF Save
<1>9. CASE CaptureFails \/ SaveConfig \/ Interrupt
  <2>1. UNCHANGED <<key, saved, present>> /\ step' = "idle" /\ entries' = NoKeys
    BY <1>9 DEF CaptureFails, SaveConfig, Interrupt
  <2> QED
    BY <2>1, <1>1, NoKeysType, Halted, FilesStay DEF KeyInitType
<1>10. CASE \E d \in Database : Rekey(d)
  <2>1. PICK d \in Database : Rekey(d)
    BY <1>10
  <2>2. /\ step = "idle" /\ UNCHANGED <<step, saved, present, entries>>
        /\ key' = [key EXCEPT ![d] = @ + 1]
    BY <2>1 DEF Rekey
  <2>3. key' \in [Database -> Nat] /\ entries = NoKeys
    BY <2>2, <1>1 DEF KeyInv, CommandInv
  <2> QED
    BY <2>2, <2>3, <1>1, NoKeysType, FilesStay DEF KeyInv, KeyInitType, CommandInv
<1>11. CASE EditConfig \/ UNCHANGED keyVars
  <2>1. UNCHANGED <<key, saved, present, step, cmd, expected, entries>>
    BY <1>11 DEF EditConfig, keyVars
  <2>2. Encrypted' = Encrypted /\ Candidates(cmd)' = Candidates(cmd)
    BY <2>1 DEF Encrypted, Candidates
  <2> QED
    BY <2>1, <2>2, FilesStay DEF KeyInv, KeyInitType, CommandInv, Verifies
<1> QED
  BY <1>2, <1>4, <1>5, <1>6, <1>7, <1>8, <1>9, <1>10, <1>11 DEF KeyNext, Running

\* KeysKept: no run of init loses a key that is still good, for any number of databases,
\* of keys they are made anew with, of runs and of interruptions, with sudo or without.
THEOREM NoKeyLost == KeySpec => KeysKept
<1>1. KeyInv /\ [KeyNext]_keyVars => KeyInv'
  BY KeyStep
<1>2. KeyInv /\ [KeyNext]_keyVars => [Kept]_keyVars
  BY KeyStep
<1> QED
  BY <1>1, <1>2, InitKeysInv, PTL DEF KeySpec, KeysKept, Kept

-----------------------------------------------------------------------------
\* The search of memory.

\* f is what a loop over 1..N leaves: at i it takes A[i] and goes on at nx[i], up to L.
Loop(f, N, L, A, nx) == f = [i \in 1..N |-> IF i > L THEN {} ELSE A[i] \cup f[nx[i]]]

\* A set that the loop, once in it, does not leave.
Closed(C, L, nx) == \A j \in C : j <= L => nx[j] \in C
Reached(i, N, L, nx) == {k \in 1..N : \A C \in SUBSET (1..N) : i \in C /\ Closed(C, L, nx) => k \in C}

\* Every loop that stays in 1..N has a result: what stands at the places it reaches.
LEMMA LoopExists ==
  ASSUME NEW N \in Nat, NEW L \in Int, NEW A, NEW nx,
         \A i \in 1..N : i <= L => nx[i] \in 1..N
  PROVE  \E f : Loop(f, N, L, A, nx)
<1> DEFINE R(i) == Reached(i, N, L, nx)
           f == [i \in 1..N |-> UNION {A[k] : k \in {x \in R(i) : x <= L}}]
<1>1. ASSUME NEW i \in 1..N
      PROVE  /\ i \in R(i) /\ R(i) \subseteq 1..N /\ Closed(R(i), L, nx)
             /\ \A C \in SUBSET (1..N) : i \in C /\ Closed(C, L, nx) => R(i) \subseteq C
  BY DEF Reached, Closed
<1>2. ASSUME NEW i \in 1..N, i > L
      PROVE  f[i] = {}
  <2>1. {i} \in SUBSET (1..N) /\ Closed({i}, L, nx)
    BY <1>2 DEF Closed
  <2>2. R(i) \subseteq {i}
    BY <1>1, <2>1
  <2>3. {x \in R(i) : x <= L} = {}
    BY <2>2, <1>2
  <2>4. f[i] = UNION {A[k] : k \in {x \in R(i) : x <= L}}
    OBVIOUS
  <2> QED
    BY <2>3, <2>4
<1>3. ASSUME NEW i \in 1..N, i <= L
      PROVE  f[i] = A[i] \cup f[nx[i]]
  <2> DEFINE n == nx[i]
  <2>1. n \in 1..N
    BY <1>3
  <2>2. R(i) \subseteq {i} \cup R(n)
    <3>1. {i} \cup R(n) \in SUBSET (1..N)
      BY <1>1, <2>1
    <3>2. Closed({i} \cup R(n), L, nx)
      BY <1>1, <2>1 DEF Closed
    <3> QED
      BY <3>1, <3>2, <1>1
  <2>3. R(n) \subseteq R(i) /\ i \in R(i)
    <3>1. n \in R(i)
      BY <1>1, <1>3, <2>1 DEF Closed
    <3>2. R(i) \in SUBSET (1..N) /\ Closed(R(i), L, nx) /\ i \in R(i)
      BY <1>1
    <3> QED
      BY <3>1, <3>2, <1>1, <2>1
  <2>4. {x \in R(i) : x <= L} = {i} \cup {x \in R(n) : x <= L}
    BY <2>2, <2>3, <1>3
  <2>5. /\ f[i] = UNION {A[k] : k \in {x \in R(i) : x <= L}}
        /\ f[n] = UNION {A[k] : k \in {x \in R(n) : x <= L}}
    BY <2>1
  <2> HIDE DEF f, R
  <2>6. UNION {A[k] : k \in {x \in R(i) : x <= L}} = A[i] \cup UNION {A[k] : k \in {x \in R(n) : x <= L}}
    BY <2>4
  <2> QED
    BY <2>5, <2>6
<1>4. f = [i \in 1..N |-> f[i]]
  OBVIOUS
<1> HIDE DEF f
<1>5. [i \in 1..N |-> f[i]] = [i \in 1..N |-> IF i > L THEN {} ELSE A[i] \cup f[nx[i]]]
  <2>1. ASSUME NEW i \in 1..N
        PROVE  f[i] = IF i > L THEN {} ELSE A[i] \cup f[nx[i]]
    <3>1. CASE i > L
      BY <3>1, <1>2
    <3>2. CASE ~(i > L)
      <4>1. i <= L
        BY <3>2
      <4> QED
        BY <4>1, <3>2, <1>3
    <3> QED
      BY <3>1, <3>2
  <2> QED
    BY <2>1, Zenon
<1> QED
  BY <1>4, <1>5 DEF Loop

LEMMA Greatest ==
  ASSUME NEW S, NEW p \in Nat, S \subseteq 0..p, S # {}
  PROVE  \E g \in S : \A y \in S : y <= g
<1> DEFINE T == {p - x : x \in S}
           Less == {ss \in Nat \X Nat : ss[1] < ss[2]}
<1>1. IsWellFoundedOn(Less, Nat)
  <2>1. OpToRel(<, Nat) = Less
    BY Zenon DEF OpToRel
  <2> QED
    BY <2>1, NatLessThanWellFounded, Zenon
<1>2. T \subseteq Nat /\ T # {}
  <2>1. \A x \in S : x \in 0..p /\ p - x \in Nat
    OBVIOUS
  <2>2. PICK x \in S : TRUE
    OBVIOUS
  <2>3. p - x \in T
    OBVIOUS
  <2> QED
    BY <2>1, <2>3
<1>3. PICK t \in T : \A u \in T : ~(<<u, t>> \in Less)
  <2> HIDE DEF Less, T
  <2> QED BY <1>1, <1>2, WFMin
<1>4. PICK g \in S : t = p - g
  OBVIOUS
<1>5. ASSUME NEW y \in S
      PROVE  y <= g
  <2>1. p - y \in T /\ p - y \in Nat /\ t \in Nat
    BY <1>2
  <2>2. ~(p - y < t)
    BY <2>1, <1>3
  <2> QED
    BY <2>2, <1>4
<1> QED
  BY <1>5

LEMMA Least ==
  ASSUME NEW S, S \subseteq Nat, S # {}
  PROVE  \E g \in S : \A y \in S : g <= y
<1> DEFINE Less == {ss \in Nat \X Nat : ss[1] < ss[2]}
<1>1. IsWellFoundedOn(Less, Nat)
  <2>1. OpToRel(<, Nat) = Less
    BY Zenon DEF OpToRel
  <2> QED
    BY <2>1, NatLessThanWellFounded, Zenon
<1>3. PICK t \in S : \A u \in S : ~(<<u, t>> \in Less)
  <2> HIDE DEF Less
  <2> QED BY <1>1, WFMin
<1>5. ASSUME NEW y \in S
      PROVE  t <= y
  <2>1. y \in Nat /\ t \in Nat /\ <<y, t>> \notin Less
    BY <1>3
  <2>2. ~(y < t)
    BY <2>1
  <2> QED
    BY <2>1, <2>2
<1> QED
  BY <1>5

\* A loop that never jumps over p, takes what stands there.
LEMMA LoopFinds ==
  ASSUME NEW N \in Nat, NEW L \in Int, NEW A, NEW nx, NEW f, Loop(f, N, L, A, nx),
         NEW p \in 1..N, p <= L,
         \A j \in 1..p - 1 : nx[j] \in j + 1..p
  PROVE  A[p] \subseteq f[1]
<1> DEFINE D == {i \in 1..p : f[i] \subseteq f[1]}
<1>0. ASSUME NEW i \in 1..p
      PROVE  f[i] = A[i] \cup f[nx[i]]
  <2>1. i \in 1..N /\ ~(i > L)
    OBVIOUS
  <2>2. f = [k \in 1..N |-> IF k > L THEN {} ELSE A[k] \cup f[nx[k]]]
    BY DEF Loop
  <2>3. f[i] = IF i > L THEN {} ELSE A[i] \cup f[nx[i]]
    BY <2>1, <2>2, Zenon
  <2> QED
    BY <2>1, <2>3, Zenon
<1>1. 1 \in D /\ D \subseteq 0..p
  OBVIOUS
<1>2. PICK g \in D : \A y \in D : y <= g
  <2>1. D # {} /\ p \in Nat
    BY <1>1
  <2> HIDE DEF D
  <2> QED
    BY <1>1, <2>1, Greatest
<1>3. g = p
  <2>1. SUFFICES ASSUME g < p PROVE FALSE
    OBVIOUS
  <2>2. nx[g] \in g + 1..p
    BY <2>1
  <2>3. f[nx[g]] \subseteq f[1]
    BY <1>0
  <2> QED
    BY <2>2, <2>3, <1>2
<1> QED
  BY <1>3, <1>0

-----------------------------------------------------------------------------
\* The loops of search_pattern and of the search for bare runs, as loops of that kind.
QuotedNext(buf) == [i \in 1..Len(buf) + Total |-> IF QuotedAt(buf, i) THEN i + Total ELSE i + 1]
QuotedTaken(buf) == [i \in 1..Len(buf) + Total |-> IF QuotedAt(buf, i) THEN {i} ELSE {}]

QuotedLoop(g, buf) ==
  g = [i \in 1..Len(buf) + Total |->
        IF i + Total - 1 > Len(buf) THEN {}
        ELSE IF QuotedAt(buf, i) THEN {i} \cup g[i + Total] ELSE g[i + 1]]

LEMMA QuotedLoops ==
  ASSUME NEW buf, Len(buf) \in Nat, NEW g
  PROVE  QuotedLoop(g, buf)
           <=> Loop(g, Len(buf) + Total, Len(buf) - Total + 1, QuotedTaken(buf), QuotedNext(buf))
<1> DEFINE N == Len(buf) + Total
           L == Len(buf) - Total + 1
           Here(i) == IF i + Total - 1 > Len(buf) THEN {}
                      ELSE IF QuotedAt(buf, i) THEN {i} \cup g[i + Total] ELSE g[i + 1]
           There(i) == IF i > L THEN {} ELSE QuotedTaken(buf)[i] \cup g[QuotedNext(buf)[i]]
<1>1. ASSUME NEW i \in 1..N
      PROVE  Here(i) = There(i)
  <2>1. Total \in Nat
    BY MemoryScanAssumption DEF Total
  <2>2. i + Total - 1 > Len(buf) <=> i > L
    BY <2>1
  <2>3. /\ QuotedTaken(buf)[i] = IF QuotedAt(buf, i) THEN {i} ELSE {}
        /\ QuotedNext(buf)[i] = IF QuotedAt(buf, i) THEN i + Total ELSE i + 1
    BY DEF QuotedTaken, QuotedNext
  <2> QED
    BY <2>2, <2>3
<1>2. [i \in 1..N |-> Here(i)] = [i \in 1..N |-> There(i)]
  <2> HIDE DEF Here, There
  <2> QED
    BY <1>1
<1> QED
  BY <1>2, Zenon DEF QuotedLoop, Loop

LEMMA QuotedIs ==
  ASSUME NEW buf, NEW f, QuotedLoop(f, buf)
  PROVE  \E g : QuotedLoop(g, buf) /\ Quoted(buf) = g[1]
<1> DEFINE from == CHOOSE g : QuotedLoop(g, buf)
<1>1. QuotedLoop(from, buf)
  BY Zenon
<1>2. Quoted(buf) = from[1]
  BY Zenon DEF Quoted, QuotedLoop
<1> QED
  BY <1>1, <1>2, Zenon

\* Two patterns do not overlap: only the first byte of one is an x.
LEMMA QuotedApart ==
  ASSUME NEW buf, NEW i \in Nat, NEW p \in Nat, QuotedAt(buf, i), QuotedAt(buf, p), i < p
  PROVE  i + Total <= p
<1>0. HexLen \in Nat /\ Total = HexLen + 3
  BY MemoryScanAssumption DEF Total
<1>1. SUFFICES ASSUME p < i + Total PROVE FALSE
  BY <1>0
<1>2. PICK k \in 1..HexLen + 2 : p = i + k
  <2>1. p - i \in 1..HexLen + 2 /\ p = i + (p - i)
    BY <1>0, <1>1
  <2> QED
    BY <2>1
<1>3. buf[p] = "x"
  BY DEF QuotedAt
<1>4. CASE k = 1
  BY <1>2, <1>3, <1>4 DEF QuotedAt
<1>5. CASE k = HexLen + 2
  <2>1. p = i + 2 + HexLen
    BY <1>0, <1>2, <1>5
  <2> QED
    BY <2>1, <1>3 DEF QuotedAt
<1>6. CASE k \in 2..HexLen + 1
  BY <1>2, <1>3, <1>6 DEF QuotedAt
<1> QED
  BY <1>0, <1>2, <1>4, <1>5, <1>6

LEMMA QuotedFinds ==
  ASSUME NEW buf, Len(buf) \in Nat, NEW p \in 1..Len(buf) - Total + 1, QuotedAt(buf, p)
  PROVE  p \in Quoted(buf)
<1> DEFINE N == Len(buf) + Total
           L == Len(buf) - Total + 1
           nx == QuotedNext(buf)
           A == QuotedTaken(buf)
<1>0. HexLen \in Nat /\ Total = HexLen + 3 /\ Total \in Nat
  BY MemoryScanAssumption DEF Total
<1>1. N \in Nat /\ L \in Int /\ p \in 1..N /\ p <= L
  BY <1>0
<1>2. \A i \in 1..N : nx[i] = IF QuotedAt(buf, i) THEN i + Total ELSE i + 1
  BY DEF QuotedNext
<1>3. \A i \in 1..N : i <= L => nx[i] \in 1..N
  BY <1>0, <1>2
<1>4. \A j \in 1..p - 1 : nx[j] \in j + 1..p
  <2> SUFFICES ASSUME NEW j \in 1..p - 1 PROVE nx[j] \in j + 1..p
    OBVIOUS
  <2>1. nx[j] = IF QuotedAt(buf, j) THEN j + Total ELSE j + 1
    BY <1>1, <1>2
  <2>2. QuotedAt(buf, j) => j + Total <= p
    BY QuotedApart
  <2> QED
    BY <2>1, <2>2, <1>0
<1>5. A[p] = {p}
  BY <1>1 DEF QuotedTaken
<1> HIDE DEF nx, A, N, L
<1>6. PICK f : Loop(f, N, L, A, nx)
  BY <1>1, <1>3, LoopExists
<1>7. QuotedLoop(f, buf)
  BY <1>6, QuotedLoops DEF N, L, A, nx
<1>8. PICK g : QuotedLoop(g, buf) /\ Quoted(buf) = g[1]
  BY <1>7, QuotedIs
<1>9. Loop(g, N, L, A, nx)
  BY <1>8, QuotedLoops DEF N, L, A, nx
<1>10. A[p] \subseteq g[1]
  BY <1>1, <1>4, <1>9, LoopFinds
<1> QED
  BY <1>5, <1>8, <1>10

Broken(buf, n, i) == {j \in 0..n - 1 : buf[i + j] # "h"}
Standing(buf, n, i) ==
  /\ i = 1 \/ buf[i - 1] # "h"
  /\ i + n > Len(buf) \/ buf[i + n] # "h"

BareNext(buf, n) ==
  [i \in 1..Len(buf) + n + 1 |->
     IF Broken(buf, n, i) # {}
     THEN i + 1 + CHOOSE j \in Broken(buf, n, i) : \A k \in Broken(buf, n, i) : j <= k
     ELSE i + 1]
BareTaken(buf, n) ==
  [i \in 1..Len(buf) + n + 1 |->
     IF Broken(buf, n, i) = {} /\ Standing(buf, n, i) THEN {i} ELSE {}]

BareLoop(g, buf, n) ==
  g = [i \in 1..Len(buf) + n + 1 |->
        IF i + n - 1 > Len(buf) THEN {}
        ELSE LET broken == {j \in 0..n - 1 : buf[i + j] # "h"}
             IN IF broken # {}
                THEN g[i + 1 + CHOOSE j \in broken : \A k \in broken : j <= k]
                ELSE g[i + 1] \cup
                     IF /\ i = 1 \/ buf[i - 1] # "h"
                        /\ i + n > Len(buf) \/ buf[i + n] # "h"
                     THEN {i} ELSE {}]

LEMMA BareLoops ==
  ASSUME NEW buf, Len(buf) \in Nat, NEW n \in Nat, NEW g
  PROVE  BareLoop(g, buf, n)
           <=> Loop(g, Len(buf) + n + 1, Len(buf) - n + 1, BareTaken(buf, n), BareNext(buf, n))
<1> DEFINE N == Len(buf) + n + 1
           L == Len(buf) - n + 1
           least(i) == CHOOSE j \in Broken(buf, n, i) : \A k \in Broken(buf, n, i) : j <= k
           Here(i) == IF i + n - 1 > Len(buf) THEN {}
                      ELSE IF Broken(buf, n, i) # {} THEN g[i + 1 + least(i)]
                      ELSE g[i + 1] \cup IF Standing(buf, n, i) THEN {i} ELSE {}
           There(i) == IF i > L THEN {} ELSE BareTaken(buf, n)[i] \cup g[BareNext(buf, n)[i]]
<1>1. ASSUME NEW i \in 1..N
      PROVE  Here(i) = There(i)
  <2>1. i + n - 1 > Len(buf) <=> i > L
    OBVIOUS
  <2>2. /\ BareTaken(buf, n)[i] = IF Broken(buf, n, i) = {} /\ Standing(buf, n, i) THEN {i} ELSE {}
        /\ BareNext(buf, n)[i] = IF Broken(buf, n, i) # {} THEN i + 1 + least(i) ELSE i + 1
    BY Zenon DEF BareTaken, BareNext
  <2> HIDE DEF least
  <2> QED
    BY <2>1, <2>2
<1>2. [i \in 1..N |-> Here(i)] = [i \in 1..N |-> There(i)]
  <2> HIDE DEF Here, There
  <2> QED
    BY <1>1
<1>3. BareLoop(g, buf, n) <=> g = [i \in 1..N |-> Here(i)]
  BY Zenon DEF BareLoop, Broken, Standing
<1>4. Loop(g, N, L, BareTaken(buf, n), BareNext(buf, n)) <=> g = [i \in 1..N |-> There(i)]
  BY Zenon DEF Loop
<1> QED
  BY <1>2, <1>3, <1>4, Zenon

LEMMA BareIs ==
  ASSUME NEW buf, NEW n, NEW f, BareLoop(f, buf, n)
  PROVE  \E g : BareLoop(g, buf, n) /\ Bare(buf, n) = g[1]
<1> DEFINE from == CHOOSE g : BareLoop(g, buf, n)
<1>1. BareLoop(from, buf, n)
  BY Zenon
<1>2. Bare(buf, n) = from[1]
  BY Zenon DEF Bare, BareLoop
<1> QED
  BY <1>1, <1>2, Zenon

\* A broken run is left behind its first break, which no run that stands by itself spans.
LEMMA BareFinds ==
  ASSUME NEW buf, Len(buf) \in Nat, NEW n \in Nat \ {0}, NEW p \in 1..Len(buf) - n + 1,
         Broken(buf, n, p) = {}, Standing(buf, n, p)
  PROVE  p \in Bare(buf, n)
<1> DEFINE N == Len(buf) + n + 1
           L == Len(buf) - n + 1
           nx == BareNext(buf, n)
           A == BareTaken(buf, n)
           least(i) == CHOOSE j \in Broken(buf, n, i) : \A k \in Broken(buf, n, i) : j <= k
<1>1. N \in Nat /\ L \in Int /\ p \in 1..N /\ p <= L
  OBVIOUS
<1>2. \A i \in 1..N : nx[i] = IF Broken(buf, n, i) # {} THEN i + 1 + least(i) ELSE i + 1
  BY Zenon DEF BareNext
<1>3. ASSUME NEW i \in 1..N, Broken(buf, n, i) # {}
      PROVE  /\ least(i) \in 0..n - 1 /\ buf[i + least(i)] # "h"
             /\ \A k \in Broken(buf, n, i) : least(i) <= k
  <2>1. Broken(buf, n, i) \subseteq Nat
    BY DEF Broken
  <2>2. \E j \in Broken(buf, n, i) : \A k \in Broken(buf, n, i) : j <= k
    BY <2>1, <1>3, Least
  <2>3. least(i) \in Broken(buf, n, i) /\ \A k \in Broken(buf, n, i) : least(i) <= k
    BY <2>2, Zenon
  <2> HIDE DEF least
  <2> QED
    BY <2>3 DEF Broken
<1> HIDE DEF least, nx
<1>4. ASSUME NEW i \in 1..N, i <= L
      PROVE  nx[i] \in 1..N
  <2>1. CASE Broken(buf, n, i) # {}
    BY <2>1, <1>2, <1>3, <1>4
  <2>2. CASE Broken(buf, n, i) = {}
    BY <2>2, <1>2, <1>4
  <2> QED
    BY <2>1, <2>2
<1>5. ASSUME NEW j \in 1..p - 1
      PROVE  nx[j] \in j + 1..p
  <2>0. j \in 1..N
    BY <1>1
  <2>1. CASE Broken(buf, n, j) = {}
    BY <2>0, <2>1, <1>2
  <2>2. CASE Broken(buf, n, j) # {}
    <3>1. least(j) \in 0..n - 1 /\ \A k \in Broken(buf, n, j) : least(j) <= k
      BY <2>0, <2>2, <1>3
    <3>2. buf[j + least(j)] # "h"
      BY <2>0, <2>2, <1>3
    <3>3. j + least(j) < p
      <4>1. SUFFICES ASSUME p <= j + least(j) PROVE FALSE
        BY <3>1
      <4>2. buf[p - 1] # "h"
        BY DEF Standing
      <4>3. p - 1 - j \in 0..n - 1 /\ j + (p - 1 - j) = p - 1 /\ p - 1 - j < least(j)
        BY <3>1, <4>1
      <4>4. p - 1 - j \in Broken(buf, n, j)
        BY <4>2, <4>3 DEF Broken
      <4> QED
        BY <3>1, <4>3, <4>4
    <3> QED
      BY <2>0, <2>2, <3>1, <3>3, <1>2
  <2> QED
    BY <2>1, <2>2
<1>6. A[p] = {p}
  BY <1>1 DEF BareTaken
<1> HIDE DEF A, N, L
<1>7. PICK f : Loop(f, N, L, A, nx)
  BY <1>1, <1>4, LoopExists
<1>8. BareLoop(f, buf, n)
  BY <1>7, BareLoops DEF N, L, A, nx
<1>9. PICK g : BareLoop(g, buf, n) /\ Bare(buf, n) = g[1]
  BY <1>8, BareIs
<1>10. Loop(g, N, L, A, nx)
  BY <1>9, BareLoops DEF N, L, A, nx
<1>11. A[p] \subseteq g[1]
  BY <1>1, <1>5, <1>10, LoopFinds
<1> QED
  BY <1>6, <1>9, <1>11

-----------------------------------------------------------------------------
RegionType == offset \in 0..Size /\ memory \in [1..Size -> Byte] /\ gap \in BOOLEAN

\* Unless a part could not be read, what begins before the next chunk has been found.
FoundSoFar ==
  ~gap =>
    /\ \A i \in 1..Size - Total + 1 : i <= offset /\ QuotedAt(memory, i) => <<i, "quoted">> \in found
    /\ platform = "windows" =>
         /\ \A i \in 1..Size - HexLen + 1 : i <= offset /\ Run(i, HexLen) => <<i, "both">> \in found
         /\ \A i \in 1..Size - KeyLen + 1 : i <= offset /\ Run(i, KeyLen) => <<i, "key">> \in found

RegionInv == RegionType /\ FoundSoFar

LEMMA RegionInitInv == RegionInit => RegionInv
<1> SUFFICES ASSUME RegionInit PROVE RegionInv
  OBVIOUS
<1>1. offset = 0 /\ gap = FALSE /\ memory \in [1..Size -> Byte]
  BY DEF RegionInit
<1>2. \A n \in Int : \A i \in 1..n : ~(i <= offset)
  BY <1>1
<1>3. Size \in Nat /\ HexLen \in Nat /\ KeyLen \in Nat /\ Total = HexLen + 3
  BY MemoryScanAssumption DEF Total
<1>4. Size - Total + 1 \in Int /\ Size - HexLen + 1 \in Int /\ Size - KeyLen + 1 \in Int
  BY <1>3
<1>5. RegionType
  <2>1. offset \in 0..Size
    BY <1>1, <1>3
  <2>2. gap \in BOOLEAN
    BY <1>1, Zenon
  <2> QED
    BY <2>1, <2>2, <1>1 DEF RegionType
<1>6. FoundSoFar
  BY <1>2, <1>4 DEF FoundSoFar
<1> QED
  BY <1>5, <1>6 DEF RegionInv

\* A chunk holds whole whatever of at most the overlap's length begins before the next.
LEMMA ChunkHolds ==
  ASSUME RegionType, offset < Size, Advance, NEW len \in 1..Total,
         NEW i \in 1..Size - len + 1, offset < i, i <= offset'
  PROVE  i - offset \in 1..Chunk - len + 1
<1>1. /\ HexLen \in Nat /\ ChunkSize \in Nat /\ Size \in Nat /\ Total = HexLen + 3 /\ Overlap = HexLen + 3
      /\ HexLen + 3 < ChunkSize
  BY MemoryScanAssumption DEF Total, Overlap
<1>2. offset \in 0..Size
  BY DEF RegionType
<1>3. CASE ChunkSize < Size - offset
  <2>1. Chunk = ChunkSize /\ offset' = offset + ChunkSize - Overlap
    BY <1>1, <1>2, <1>3 DEF Chunk, Advance
  <2> QED
    BY <1>1, <1>2, <2>1
<1>4. CASE ~(ChunkSize < Size - offset)
  <2>1. Chunk = Size - offset
    BY <1>4 DEF Chunk
  <2> QED
    BY <1>1, <1>2, <2>1
<1> QED
  BY <1>3, <1>4

LEMMA AdvanceType ==
  ASSUME RegionType, offset < Size, Advance
  PROVE  Chunk \in 1..Size - offset /\ offset' \in offset..Size
BY MemoryScanAssumption DEF RegionType, Advance, Chunk, Overlap

LEMMA BufferIs ==
  ASSUME RegionType, offset < Size, NEW n \in 1..Size - offset
  PROVE  Len(Buffer(n)) = n /\ \A k \in 1..n : Buffer(n)[k] = memory[offset + k]
<1>1. Size \in Nat /\ offset \in 0..Size /\ offset + 1 \in Int /\ offset + n \in Int
  BY MemoryScanAssumption DEF RegionType
<1>2. \A k \in offset + 1..offset + n : memory[k] \in Byte
  BY <1>1 DEF RegionType
<1>3. /\ Len(Buffer(n)) = IF offset + 1 <= offset + n THEN (offset + n) - (offset + 1) + 1 ELSE 0
      /\ \A k \in 1..(offset + n) - (offset + 1) + 1 : Buffer(n)[k] = memory[(offset + 1) + k - 1]
  BY <1>1, <1>2, SubSeqProperties DEF Buffer
<1>4. /\ offset + 1 <= offset + n /\ (offset + n) - (offset + 1) + 1 = n
      /\ \A k \in 1..n : (offset + 1) + k - 1 = offset + k
  BY <1>1
<1> QED
  BY <1>3, <1>4

LEMMA QuotedInChunk ==
  ASSUME RegionType, offset < Size, Advance,
         NEW i \in 1..Size - Total + 1, offset < i, i <= offset', QuotedAt(memory, i)
  PROVE  i - offset \in Quoted(Buffer(Chunk))
<1> DEFINE buf == Buffer(Chunk)
           p == i - offset
<1>0. HexLen \in Nat /\ Total = HexLen + 3 /\ offset \in Nat /\ Size \in Nat
  BY MemoryScanAssumption DEF Total, RegionType
<1>1. Chunk \in 1..Size - offset
  BY AdvanceType
<1>2. p \in 1..Chunk - Total + 1
  BY <1>0, ChunkHolds
<1>3. Len(buf) = Chunk /\ \A k \in 1..Chunk : buf[k] = memory[offset + k]
  BY <1>1, BufferIs
<1> HIDE DEF buf
<1>4. \A j \in 0..Total - 1 : buf[p + j] = memory[i + j]
  <2> SUFFICES ASSUME NEW j \in 0..Total - 1 PROVE buf[p + j] = memory[i + j]
    OBVIOUS
  <2>1. p + j \in 1..Chunk /\ offset + (p + j) = i + j
    BY <1>0, <1>1, <1>2
  <2> QED
    BY <1>3, <2>1
<1>5. QuotedAt(buf, p)
  <2>1. buf[p] = "x"
    BY <1>0, <1>2, <1>3, <1>1 DEF QuotedAt
  <2>2. buf[p + 1] = "q"
    BY <1>0, <1>4 DEF QuotedAt
  <2>3. buf[p + 2 + HexLen] = "q"
    <3>1. 2 + HexLen \in 0..Total - 1 /\ p + (2 + HexLen) = p + 2 + HexLen /\ i + (2 + HexLen) = i + 2 + HexLen
      BY <1>0, <1>2
    <3> QED
      BY <1>4, <3>1 DEF QuotedAt
  <2>4. \A j \in 2..HexLen + 1 : buf[p + j] = "h"
    BY <1>0, <1>4 DEF QuotedAt
  <2> QED
    BY <2>1, <2>2, <2>3, <2>4 DEF QuotedAt
<1>6. p \in Quoted(buf)
  BY <1>1, <1>2, <1>3, <1>5, QuotedFinds
<1> QED
  BY <1>6 DEF buf

LEMMA RunInChunk ==
  ASSUME RegionType, offset < Size, Advance, NEW n \in 1..HexLen,
         NEW i \in 1..Size - n + 1, offset < i, i <= offset', Run(i, n)
  PROVE  i - offset \in Bare(Buffer(Chunk), n)
<1> DEFINE buf == Buffer(Chunk)
           p == i - offset
<1>0. HexLen \in Nat /\ Total = HexLen + 3 /\ offset \in Nat /\ Size \in Nat
  BY MemoryScanAssumption DEF Total, RegionType
<1>1. Chunk \in 1..Size - offset
  BY AdvanceType
<1>2. p \in 1..Chunk - n + 1
  BY <1>0, ChunkHolds
<1>3. Len(buf) = Chunk /\ \A k \in 1..Chunk : buf[k] = memory[offset + k]
  BY <1>1, BufferIs
<1> HIDE DEF buf
<1>4. Broken(buf, n, p) = {}
  <2> SUFFICES ASSUME NEW j \in 0..n - 1 PROVE buf[p + j] = "h"
    BY DEF Broken
  <2>1. p + j \in 1..Chunk /\ offset + (p + j) = i + j
    BY <1>0, <1>1, <1>2
  <2> QED
    BY <1>3, <2>1 DEF Run
<1>5. p = 1 \/ buf[p - 1] # "h"
  <2> SUFFICES ASSUME p # 1 PROVE buf[p - 1] # "h"
    OBVIOUS
  <2>1. p - 1 \in 1..Chunk /\ offset + (p - 1) = i - 1 /\ i # 1
    BY <1>0, <1>1, <1>2
  <2> QED
    BY <1>3, <2>1 DEF Run
<1>6. p + n > Len(buf) \/ buf[p + n] # "h"
  <2> SUFFICES ASSUME ~(p + n > Len(buf)) PROVE buf[p + n] # "h"
    OBVIOUS
  <2>1. p + n \in 1..Chunk /\ offset + (p + n) = i + n /\ ~(i + n > Size)
    BY <1>0, <1>1, <1>2, <1>3
  <2> QED
    BY <1>3, <2>1 DEF Run
<1>7. p \in Bare(buf, n)
  <2>1. /\ Len(buf) \in Nat /\ n \in Nat \ {0} /\ p \in 1..Len(buf) - n + 1
        /\ Standing(buf, n, p)
    BY <1>0, <1>1, <1>2, <1>3, <1>5, <1>6 DEF Standing
  <2> HIDE DEF p
  <2> QED
    BY <2>1, <1>4, BareFinds
<1> QED
  BY <1>7 DEF buf

\* What a chunk adds keeps everything found so far and completes it up to the next chunk.
LEMMA ChunkStep ==
  ASSUME RegionInv, offset < Size, Advance, UNCHANGED <<platform, memory>>,
         NEW finds, Add(finds), SearchQuoted(Buffer(Chunk)) \subseteq finds,
         platform = "windows" => SearchWindows(Buffer(Chunk)) \subseteq finds,
         gap' = gap
  PROVE  FoundSoFar'
<1> SUFFICES ASSUME ~gap PROVE FoundSoFar'
  BY DEF FoundSoFar
<1>0. /\ HexLen \in Nat /\ KeyLen \in 1..HexLen /\ HexLen \in 1..HexLen /\ Total = HexLen + 3
      /\ offset \in Nat /\ offset' \in Nat /\ RegionType /\ Size \in Nat
  <2>1. offset' \in offset..Size
    BY AdvanceType DEF RegionInv
  <2> QED
    BY <2>1, MemoryScanAssumption DEF Total, RegionInv, RegionType
<1>1. found \subseteq found'
  BY DEF Add
<1>2. ASSUME NEW i \in Int, NEW kind, <<i - offset, kind>> \in finds
      PROVE  <<i, kind>> \in found'
  <2>1. <<offset + (i - offset), kind>> \in found'
    BY <1>2 DEF Add
  <2>2. offset + (i - offset) = i
    BY <1>0
  <2> QED
    BY <2>1, <2>2
<1>3. ASSUME NEW i \in 1..Size - Total + 1, i <= offset', QuotedAt(memory, i)
      PROVE  <<i, "quoted">> \in found'
  <2>1. CASE i <= offset
    BY <2>1, <1>1, <1>3 DEF RegionInv, FoundSoFar
  <2>2. CASE offset < i
    <3>1. i - offset \in Quoted(Buffer(Chunk))
      BY <2>2, <1>0, <1>3, QuotedInChunk
    <3>2. <<i - offset, "quoted">> \in finds
      BY <3>1 DEF SearchQuoted
    <3> QED
      BY <3>2, <1>2
  <2> QED
    BY <2>1, <2>2, <1>0
<1>4. ASSUME platform = "windows", NEW i \in 1..Size - HexLen + 1, i <= offset', Run(i, HexLen)
      PROVE  <<i, "both">> \in found'
  <2>1. CASE i <= offset
    BY <2>1, <1>1, <1>4 DEF RegionInv, FoundSoFar
  <2>2. CASE offset < i
    <3>1. i - offset \in Bare(Buffer(Chunk), HexLen)
      BY <2>2, <1>0, <1>4, RunInChunk
    <3>2. <<i - offset, "both">> \in finds
      BY <3>1, <1>4 DEF SearchWindows
    <3> QED
      BY <3>2, <1>2
  <2> QED
    BY <2>1, <2>2, <1>0
<1>5. ASSUME platform = "windows", NEW i \in 1..Size - KeyLen + 1, i <= offset', Run(i, KeyLen)
      PROVE  <<i, "key">> \in found'
  <2>1. CASE i <= offset
    BY <2>1, <1>1, <1>5 DEF RegionInv, FoundSoFar
  <2>2. CASE offset < i
    <3>1. i - offset \in Bare(Buffer(Chunk), KeyLen)
      BY <2>2, <1>0, <1>5, RunInChunk
    <3>2. <<i - offset, "key">> \in finds
      BY <3>1, <1>5 DEF SearchWindows
    <3> QED
      BY <3>2, <1>2
  <2> QED
    BY <2>1, <2>2, <1>0
<1>6. /\ QuotedAt(memory, 1)' = QuotedAt(memory, 1)
      /\ memory' = memory /\ platform' = platform
  BY DEF QuotedAt
<1> QED
  BY <1>3, <1>4, <1>5, <1>6 DEF FoundSoFar, QuotedAt, Run

LEMMA RegionStep == RegionInv /\ [RegionNext]_memoryVars => RegionInv'
<1> SUFFICES ASSUME RegionInv, [RegionNext]_memoryVars PROVE RegionInv'
  OBVIOUS
<1>1. CASE UNCHANGED memoryVars
  BY <1>1 DEF memoryVars, RegionInv, RegionType, FoundSoFar, QuotedAt, Run
<1>2. ASSUME offset < Size, Advance, UNCHANGED memory, gap' \in BOOLEAN
      PROVE  RegionType'
  <2>1. offset' \in offset..Size
    BY <1>2, AdvanceType DEF RegionInv
  <2> QED
    BY <2>1, <1>2, MemoryScanAssumption DEF RegionInv, RegionType
<1>3. ASSUME gap' = TRUE
      PROVE  FoundSoFar'
  BY <1>3 DEF FoundSoFar
<1>4. gap \in BOOLEAN
  BY DEF RegionInv, RegionType
<1>5. CASE WindowsRegion
  <2>1. offset < Size /\ Advance /\ UNCHANGED <<platform, memory>> /\ platform = "windows"
    BY <1>5 DEF WindowsRegion
  <2>2. CASE Add(SearchWindows(Buffer(Chunk))) /\ UNCHANGED gap
    <3>1. SearchQuoted(Buffer(Chunk)) \subseteq SearchWindows(Buffer(Chunk))
      BY DEF SearchWindows
    <3>2. FoundSoFar'
      BY <2>1, <2>2, <3>1, ChunkStep
    <3> QED
      BY <1>2, <1>4, <2>1, <2>2, <3>2 DEF RegionInv
  <2>3. CASE gap' = TRUE /\ UNCHANGED found
    BY <1>2, <1>3, <2>1, <2>3 DEF RegionInv
  <2> QED
    BY <1>5, <2>2, <2>3 DEF WindowsRegion
<1>6. CASE MacRegion
  <2>1. offset < Size /\ Advance /\ UNCHANGED <<platform, memory>> /\ platform # "windows"
    BY <1>6 DEF MacRegion
  <2>2. CASE Add(SearchQuoted(Buffer(Chunk))) /\ UNCHANGED gap
    <3>2. FoundSoFar'
      BY <2>1, <2>2, ChunkStep
    <3> QED
      BY <1>2, <1>4, <2>1, <2>2, <3>2 DEF RegionInv
  <2>3. CASE gap' = TRUE /\ UNCHANGED found
    BY <1>2, <1>3, <2>1, <2>3 DEF RegionInv
  <2> QED
    BY <1>6, <2>2, <2>3 DEF MacRegion
<1>7. CASE LinuxRegion
  <2>1. offset < Size /\ UNCHANGED <<platform, memory>> /\ platform # "windows"
    BY <1>7 DEF LinuxRegion
  <2>2. ASSUME NEW n \in {0, Chunk - 1, Chunk}, Add(SearchQuoted(Buffer(n))), gap' = (gap \/ n < Chunk),
               Advance
        PROVE  RegionInv'
    <3>1. gap' \in BOOLEAN
      BY <2>2, <1>4
    <3>2. CASE n < Chunk
      <4>1. gap' = TRUE
        BY <2>2, <3>2
      <4> QED
        BY <4>1, <1>2, <1>3, <2>1, <2>2 DEF RegionInv
    <3>3. CASE ~(n < Chunk)
      <4>1. n = Chunk /\ gap' = gap
        <5>1. Chunk \in Nat
          BY <2>1, <2>2, AdvanceType, MemoryScanAssumption DEF RegionInv, RegionType
        <5>2. n = Chunk
          BY <5>1, <3>3
        <5> QED
          BY <5>2, <2>2, <3>3, <1>4
      <4>2. FoundSoFar'
        BY <4>1, <2>1, <2>2, ChunkStep
      <4> QED
        BY <4>2, <1>2, <2>1, <2>2, <3>1 DEF RegionInv
    <3> QED
      BY <3>2, <3>3
  <2>3. CASE offset' = Size /\ gap' = TRUE /\ UNCHANGED found
    BY <1>3, <2>1, <2>3, MemoryScanAssumption DEF RegionInv, RegionType
  <2> QED
    BY <1>7, <2>2, <2>3 DEF LinuxRegion
<1> QED
  BY <1>1, <1>5, <1>6, <1>7 DEF RegionNext

\* Whatever the region holds, and wherever its chunks end: a region that could be read to
\* its end has given every key that stands in it (scan_region with its overlap,
\* search_pattern and the searches for bare runs with what they skip).
THEOREM EveryKeyFound == RegionSpec => []NothingMissed
<1>1. RegionInv => NothingMissed
  <2> SUFFICES ASSUME RegionInv, offset = Size, ~gap PROVE NothingMissed
    BY DEF NothingMissed
  <2>1. /\ Size \in Nat /\ Total \in Nat /\ HexLen \in Nat /\ KeyLen \in Nat
        /\ Total > 0 /\ HexLen > 0 /\ KeyLen > 0
    BY MemoryScanAssumption DEF Total
  <2>2. \A n \in Nat \ {0} : \A i \in 1..Size - n + 1 : i <= offset
    BY <2>1
  <2> QED
    BY <2>1, <2>2 DEF RegionInv, FoundSoFar, NothingMissed
<1> QED
  BY <1>1, RegionInitInv, RegionStep, PTL DEF RegionSpec
=============================================================================
