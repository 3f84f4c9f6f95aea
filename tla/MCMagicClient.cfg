\* Two streams one after the other, two processes of init-stream, every kind of fault of the chains and of the client, foreign changes of the recipient's balance; watch is started again and again.
SPECIFICATION FairCSpec
CONSTANTS
  U64Max = 6
  I64Max = 6
  Totals = {3}
  Chunks = {2}
  Purse = 6
  Gifts <- NoGift
  Serial = FALSE
  DestinationCloses = TRUE
  Faults <- FaultKinds
  MaxFaults = 1
  I1 = I1
  I2 = I2
  Inits <- TwoInits
  ClientFails = TRUE
  MaxForeign = 1
INVARIANTS CTypeOK PrintedIsPaid WatchExplains DoneMeansClosed SavedIsCreated MagicWireAgrees
PROPERTIES ImplementsPaymentStream WatchEnds
CHECK_DEADLOCK FALSE
