\* One stream without intervals; wallets may send tokens straight into its vault.
SPECIFICATION Spec
CONSTANTS
  U64Max = 7
  I64Max = 7
  Alice = Alice
  Bob = Bob
  S1 = S1
  S2 = S2
  Streams <- OneStream
  Wallets <- People
  SenderOf <- OneSender
  RecipientOf <- OneRecipient
  InitialBalance <- Five
  Payees <- AliceBobS1
  Totals = {2, 3}
  Chunks = {1, 2}
  Starts = {0}
  Intervals = {0}
  MaxTime = 1
INVARIANT AnyRunnerCanRelease
CHECK_DEADLOCK FALSE
