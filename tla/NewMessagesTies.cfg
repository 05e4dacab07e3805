\* Two messages of one second.
SPECIFICATION Spec
CONSTANTS
  Chat = {c1}
  Known = {c1}
  Shards = 1
  Client = {k1}
  Limit = 1
  PerTable = 1
  MaxClock = 2
  MaxArrivals = 3
  AllowTies = TRUE
  ShardMayFail = FALSE
  SaveMayFail = FALSE
  SessionFirst = TRUE
INVARIANTS NoLoss
CHECK_DEADLOCK FALSE
