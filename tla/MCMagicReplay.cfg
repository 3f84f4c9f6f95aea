\* An action called again after a deposit of exactly its amount.
SPECIFICATION Spec
CONSTANTS
  U64Max = 4
  I64Max = 4
  Totals = {3}
  Chunks = {1, 2}
  Purse = 3
  Gifts = {1, 2}
  Serial = TRUE
  DestinationCloses = FALSE
  Faults <- Repeats
  MaxFaults = 1
INVARIANTS ReplayGuardIsExact
CHECK_DEADLOCK FALSE
