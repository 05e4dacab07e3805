------------------------------ MODULE MCCopies ------------------------------
(***************************************************************************)
(* NamesCache and DecryptCache for TLC: what a daemon keeps of a database  *)
(* on the disk for the next daemon, and trusts by modification times.      *)
(* They share no state; `setting` says which moves, in which bounds:       *)
(*   accounts  the account changes between daemons that overlap            *)
(*   overlap   overlapping daemons of one account, late times              *)
(*   reuse     a log that grows, restarts and is cut; crashes, failures    *)
(*   append    a log that only grows, read meanwhile; the copy is deleted  *)
(* Daemons are interchangeable, and so are accounts.                       *)
(***************************************************************************)
EXTENDS NamesCache, DecryptCache, TLC

CONSTANTS First

VARIABLES setting

(* NamesCache; its own constants are those of accounts. *)
Overlap == INSTANCE NamesCache WITH Account <- {First}, Slack <- 2, Lag <- 1, MaxTime <- 4

(* DecryptCache; its own constants are those of reuse. *)
Grow == INSTANCE DecryptCache WITH
  MaxFrames <- 3, MaxGen <- 1,
  AllowRollback <- FALSE, AllowRestart <- FALSE, AllowTruncate <- FALSE,
  MayCrash <- FALSE, MayFail <- FALSE, MayRemove <- TRUE, WholeRead <- FALSE

-----------------------------------------------------------------------------
MCInit ==
  /\ setting \in {"accounts", "overlap", "reuse", "append"}
  /\ \/ setting = "overlap" /\ Overlap!Init
     \/ setting # "overlap" /\ Init
  /\ CopyInit

MCNext ==
  /\ UNCHANGED setting
  /\ \/ setting = "accounts" /\ Next /\ UNCHANGED copyVars
     \/ setting = "overlap" /\ Overlap!Next /\ UNCHANGED copyVars
     \/ setting = "reuse" /\ CopyNext /\ UNCHANGED vars
     \/ setting = "append" /\ Grow!CopyNext /\ UNCHANGED vars

MCSpec == MCInit /\ [][MCNext]_<<setting, vars, copyVars>>

Symmetry == Permutations(Account) \cup Permutations(Daemon)
=============================================================================
