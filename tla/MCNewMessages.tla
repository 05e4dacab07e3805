---------------------------- MODULE MCNewMessages ----------------------------
(***************************************************************************)
(* NewMessages for TLC, in two settings:                                   *)
(*   shared  two commands share the file; the limit cuts responses, shards *)
(*           and saves fail, session.db is behind (the constants of the    *)
(*           .cfg)                                                         *)
(*   live    one command at a time over two shards, run again and again    *)
(* The commands of shared are interchangeable.                             *)
(***************************************************************************)
EXTENDS NewMessages, TLC

CONSTANTS Both, One    \* the commands of shared and of live

VARIABLE setting

Live == INSTANCE NewMessages WITH
  Shards <- 2, ShardMayFail <- FALSE, SaveMayFail <- FALSE, SessionFirst <- TRUE

MCInit == setting \in {"shared", "live"} /\ Init

MCNext ==
  /\ UNCHANGED setting
  /\ \/ /\ setting = "shared"
        /\ WeChat \/ \E k \in Both : Command(k) \/ Fails(k)
     \/ /\ setting = "live"
        /\ Live!WeChat \/ \E k \in One : Live!Command(k) \/ Live!Fails(k)

\* NewMessages!Fairness, for live.
MCFairness ==
  /\ \A c \in Chat : /\ WF_vars(setting = "live" /\ Live!Store(c))
                      /\ WF_vars(setting = "live" /\ Live!Note(c))
  /\ \A k \in One : WF_vars(setting = "live" /\ Live!Command(k))
  /\ <>[][setting = "live" => \A k \in One : ~Live!Fails(k)]_vars

MCSpec == MCInit /\ [][MCNext]_<<setting, vars>> /\ MCFairness

\* query.rs:5781-5785: what a limit cut off is fetched by a later call; no
\* message stays behind for ever.
EventuallyPrinted ==
  \A c \in Chat : \A i \in 1..MaxArrivals :
    (setting = "live" /\ i <= stored[c]) ~> (<<c, i>> \in delivered)

Symmetry == Permutations(Both)
=============================================================================
