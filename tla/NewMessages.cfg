SPECIFICATION MCSpec
CONSTANTS
  Chat = {c1, c2}
  Known = {c1, c2}
  Shards = 1
  Client = {k1, k2, k3}
  Both = {k1, k2}
  One = {k3}
  Limit = 1
  PerTable = 1
  MaxClock = 3
  MaxArrivals = 3
  AllowTies = FALSE
  ShardMayFail = TRUE
  SaveMayFail = TRUE
  SessionFirst = FALSE
SYMMETRY Symmetry
INVARIANTS NoLoss
PROPERTIES PrintedOnce EventuallyPrinted
CHECK_DEADLOCK FALSE
