\* An interval, a recipient that may close its account, runners that give up and are started again; fairness.
SPECIFICATION FairKSpec
CONSTANTS
  U64Max = 5
  I64Max = 5
  Alice = Alice
  Bob = Bob
  S1 = S1
  K1 = K1
  K2 = K2
  Streams <- OneStream
  Wallets <- People
  SenderOf <- OneSender
  RecipientOf <- OneRecipient
  InitialBalance <- Poor
  Payees = {}
  Totals = {3}
  Chunks = {1, 2}
  Starts = {0}
  Intervals = {1}
  MaxTime = 2
  Keepers = {K1, K2}
  Target = S1
  Attempts = 2
  MaxFaults = 1
INVARIANTS KTypeOK
PROPERTIES StreamCompletes
CHECK_DEADLOCK FALSE
