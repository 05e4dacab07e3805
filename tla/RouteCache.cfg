SPECIFICATION MCSpec
CONSTANTS
  Rpc = {r1, r2}
  Slot = {s1, s2}
  NoSlot = NoSlot
  MaxVersion = 2
  MaxGen = 2
  MaxWriters = 0
  AllowLag = TRUE
  MayFail = FALSE
  Persist = FALSE
  MayStraddle = FALSE
SYMMETRY Symmetry
INVARIANTS TypeOK LabelNotNewer ReadsOwnInvalidation InvalidatedStaysGone FreshIsCurrent
CHECK_DEADLOCK FALSE
