\* The schedule that init-stream asks for (interval 0), fewer faults than attempts, and a recipient that cannot close its account.
SPECIFICATION KSpec
CONSTANTS
  U64Max = 5
  I64Max = 5
  Alice = Alice
  Bob = Bob
  S1 = S1
  K1 = K1
  K2 = K2
  Streams <- OneStream
  Wallets <- People
  SenderOf <- OneSender
  RecipientOf <- OneRecipient
  InitialBalance <- Rich
  Payees = {}
  Totals = {3}
  Chunks = {1, 2}
  Starts = {0}
  Intervals = {0}
  MaxTime = 2
  Keepers = {K1, K2}
  Target = S1
  Attempts = 3
  MaxFaults = 2
INVARIANTS IndexPaidOnce NeverGivesUp
PROPERTIES ConfirmedMeansExecuted
CHECK_DEADLOCK FALSE
