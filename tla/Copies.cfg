SPECIFICATION MCSpec
CONSTANTS
  Daemon = {d1, d2}
  Account = {a1, a2}
  First = a3
  None = None
  Slack = 1
  Lag = 0
  MaxTime = 2
  MaxVer = 2
  Straddle = FALSE
  Transient = FALSE
  LastPage = 2
  MaxTxn = 3
  MaxFrames = 2
  MaxGen = 2
  AllowRollback = FALSE
  AllowRestart = TRUE
  AllowTruncate = TRUE
  MayCrash = TRUE
  MayFail = TRUE
  MayRemove = FALSE
  WholeRead = TRUE
SYMMETRY Symmetry
INVARIANTS CachedIsShown  
CHECK_DEADLOCK FALSE
