\* Commands that overlap and a runner; one fault; fairness.
SPECIFICATION FairCSpec
CONSTANTS
  U64Max = 4
  I64Max = 4
  A1 = A1
  A2 = A2
  B1 = B1
  B2 = B2
  S1 = S1
  S2 = S2
  P1 = P1
  P2 = P2
  R = R
  NoStream = NoStream
  Streams <- TwoStreams
  Wallets <- TwoMints
  SenderOf <- Senders
  RecipientOf <- Recipients
  InitialBalance <- Minted
  Payees = {}
  Totals = {3}
  Chunks = {2}
  Starts = {0}
  Intervals = {0}
  MaxTime = 0
  Procs <- Team
  Commands <- TeamWork
  TOTAL = 3
  CHUNK = 2
  MaxFaults = 1
INVARIANTS CTypeOK FileNeverAhead OnlySetupForgets WireAgrees
PROPERTIES RecordedCompletes
