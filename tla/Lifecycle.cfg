SPECIFICATION MCSpec
CONSTANTS
  Cli = {c1}
  Daemon = {d1, d2, d3}
  Nobody = Nobody
  MaxConfig = 2
  Slow = FALSE
  Interrupts = FALSE
  Crashes = TRUE
  LoadMayFail = TRUE
INVARIANTS SequentialStop
PROPERTIES SequentialConfig QueriesRecover
