\* Two chained streams; wallets may also send tokens straight into a vault.
SPECIFICATION Spec
CONSTANTS
  U64Max = 7
  I64Max = 7
  Alice = Alice
  Bob = Bob
  S1 = S1
  S2 = S2
  Streams <- TwoStreams
  Wallets <- People
  SenderOf <- TwoSenders
  RecipientOf <- ChainedTo
  InitialBalance <- Five
  Payees <- Everyone
  Totals = {2, 3}
  Chunks = {1, 2}
  Starts = {0}
  Intervals = {0, 1}
  MaxTime = 2
INVARIANTS VaultExact
PROPERTIES PaymentExact ImplementsPaymentStream
CHECK_DEADLOCK FALSE
