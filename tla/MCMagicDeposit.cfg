\* Every kind of fault, deposits by others, and two streams one after the other.
SPECIFICATION Spec
CONSTANTS
  U64Max = 6
  I64Max = 6
  Totals = {3}
  Chunks = {1, 2}
  Purse = 6
  Gifts = {1, 2}
  Serial = FALSE
  DestinationCloses = TRUE
  Faults <- FaultKinds
  MaxFaults = 2
INVARIANTS MTypeOK UnauthorizedStays ActionTransfersOnce
CHECK_DEADLOCK FALSE
