SPECIFICATION Spec
CONSTANTS
  Clients = {c1}
 c1 = c1
  NoTape = NoTape
  MaxTurns = 2
  MaxLoads = 2
  MaxPieces = 6
  Interleaved = FALSE
  FarRewinds = TRUE
  SlowUsage = FALSE
INVARIANTS
  NoGapNoDup
CHECK_DEADLOCK FALSE
