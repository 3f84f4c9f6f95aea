\* One intent at a time, nothing lost, actions called twice, fairness; a purse for two streams at most.
SPECIFICATION FairSpec
CONSTANTS
  U64Max = 13
  I64Max = 13
  Totals = {4, 5, 7, 10}
  Chunks = {1, 2, 3, 4}
  Purse = 10
  Gifts <- NoGift
  Serial = TRUE
  DestinationCloses = FALSE
  Faults <- Repeats
  MaxFaults = 2
INVARIANTS CrankExact DeliveredActionPays NeverStranded
PROPERTIES StreamFinishes
CHECK_DEADLOCK FALSE
