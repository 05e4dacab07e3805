-------------------------- MODULE MCDaemonLifecycle --------------------------
(***************************************************************************)
(* DaemonLifecycle for TLC with one terminal, in two settings:             *)
(*   sequential  daemons that crash, configurations that change, contacts  *)
(*               that cannot be read                                       *)
(*   recovers    whatever an interrupted command leaves behind             *)
(* MCRequests has the instance with two terminals.                         *)
(***************************************************************************)
EXTENDS DaemonLifecycle

VARIABLE setting

Recovers == INSTANCE DaemonLifecycle WITH
  MaxConfig <- 0,
  Slow <- FALSE, Interrupts <- TRUE, Crashes <- FALSE, LoadMayFail <- FALSE

MCInit == setting \in {"sequential", "recovers"} /\ Init

MCNext ==
  /\ UNCHANGED setting
  /\ \/ setting = "sequential" /\ Next
     \/ setting = "recovers" /\ Recovers!Next

\* The processes' steps are those of either setting; each has its disturbances.
MCSpec ==
  /\ MCInit /\ [][MCNext]_<<setting, vars>>
  /\ Fairness
  /\ <>[][~Recovers!Disturbed]_vars
=============================================================================
