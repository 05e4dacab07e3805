SPECIFICATION MCSpec
CONSTANTS
  LastPage = 2
  MaxTxn = 4
  MaxFrames = 2
  MaxGen = 3
  AllowRollback = TRUE
  AllowRestart = TRUE
  AllowTruncate = FALSE
  Opener = {o1}
  BufFrames = 2
  MinDelta = 2
  SaveMayFail = FALSE
  MayRestart = TRUE
  NoSeq = NoSeq
  Absent = Absent
  AppMsg = 49
  Text = 1
  Times = {1, 2, 3}
  SeqOffsets = {0, 1, 3}
  Types = {1, 49}
  Hits = {"raw", "shown", "no"}
  AllowBad = FALSE
  Scale = 2
  Extra = 0
  Growth = 2
  MinRange = 1
  Factor = 1
  MaxInt = 9
  PageSizes = {1, 2}
  Skips = {0, 1}
  MaxRows = 3
INVARIANTS CacheCoherent PersistTailBounded FetchExact PollExact SearchNewest
PROPERTIES ReadsSnapshot
CHECK_DEADLOCK FALSE
