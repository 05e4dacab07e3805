\* A refill per frame over the frames an older generation left behind.
SPECIFICATION Spec
CONSTANTS
  LastPage = 2
  MaxTxn = 4
  MaxFrames = 2
  MaxGen = 2
  AllowRollback = FALSE
  AllowRestart = TRUE
  AllowTruncate = FALSE
  Opener = {o1}
  BufFrames = 1
  MinDelta = 1
  SaveMayFail = FALSE
  MayRestart = FALSE
INVARIANTS CacheCoherent
CHECK_DEADLOCK FALSE
