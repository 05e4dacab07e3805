---------------------------- MODULE MCRouteCache ----------------------------
(***************************************************************************)
(* RouteCache for TLC, in two settings:                                    *)
(*   guard  two requests while the metadata lags, no invalidation inside a *)
(*          judgement (the constants of the .cfg)                          *)
(*   saved  one request at a time with route_cache.json, exact metadata,   *)
(*          restarts and failures                                          *)
(* Requests and slots are interchangeable.                                 *)
(***************************************************************************)
EXTENDS RouteCache, TLC

VARIABLE setting

Saved == INSTANCE RouteCache WITH
  MaxGen <- 1, MaxWriters <- 2,
  AllowLag <- FALSE, MayFail <- TRUE, Persist <- TRUE, MayStraddle <- TRUE

MCInit == setting \in {"guard", "saved"} /\ Init

Alone(r) == \A q \in Rpc \ {r} : pc[q] = "idle"

MCNext ==
  /\ UNCHANGED setting
  /\ \/ setting = "guard" /\ Next
     \/ setting = "saved" /\ Saved!Environment
     \/ setting = "saved" /\ \E r \in Rpc : Alone(r) /\ Saved!Request(r)

MCSpec == MCInit /\ [][MCNext]_<<setting, vars>>

Symmetry == Permutations(Rpc) \cup Permutations(Slot)
=============================================================================
