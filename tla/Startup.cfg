SPECIFICATION MCSpec
CONSTANTS
  Launcher = launcher
  Main = main
  Thread = {"launch", "ui", "db", "net"}
  Owner <- OwnerOf
  First <- FirstOf
  Db = {"message", "contact"}
  Existing = {}
  None = None
  MaxLoads = 1
  Database = {"message", "contact"}
  MaxKey = 2
  MaxStops = 1
  SudoHere = FALSE
  KeyLen = 2
  HexLen = 3
  ChunkSize = 8
  Size = 11
  Platforms = {"windows", "macos", "linux"}
INVARIANTS   NothingMissed
PROPERTIES EventuallyEnds KeysKept EventuallyCovered
CHECK_DEADLOCK FALSE
