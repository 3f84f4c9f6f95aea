\* Amounts up to the largest u64; every number of iterations fits the i64 of schedule.
SPECIFICATION Spec
CONSTANTS
  U64Max = 7
  I64Max = 7
  Totals = {3, 6, 7}
  Chunks = {1, 2, 3, 4}
  Purse = 7
  Gifts <- NoGift
  Serial = TRUE
  DestinationCloses = FALSE
  Faults <- Repeats
  MaxFaults = 0
INVARIANTS EveryStreamSchedulable
CHECK_DEADLOCK FALSE
