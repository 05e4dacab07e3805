\* Two opens at once in a log that only grows or is cut; saves that fail, restarts.
SPECIFICATION Spec
CONSTANTS
  LastPage = 2
  MaxTxn = 3
  MaxFrames = 2
  MaxGen = 2
  AllowRollback = FALSE
  AllowRestart = FALSE
  AllowTruncate = TRUE
  Opener = {o1, o2}
  BufFrames = 1
  MinDelta = 1
  SaveMayFail = TRUE
  MayRestart = TRUE
SYMMETRY Symmetry
INVARIANTS TypeOK CacheCoherent
CHECK_DEADLOCK FALSE
