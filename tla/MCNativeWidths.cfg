\* One stream, every total, chunk, start and interval of three-bit integers.
SPECIFICATION Spec
CONSTANTS
  U64Max = 7
  I64Max = 5
  Alice = Alice
  Bob = Bob
  S1 = S1
  S2 = S2
  Streams <- OneStream
  Wallets <- People
  SenderOf <- OneSender
  RecipientOf <- OneRecipient
  InitialBalance <- Seven
  Payees = {}
  Totals = {0, 1, 3, 5, 7}
  Chunks = {0, 1, 2, 3, 7}
  Starts <- StartInputs
  Intervals <- IntervalInputs
  MaxTime = 5
INVARIANTS TypeOK ScheduleRespected DueReleaseSucceeds FreshInitializeSucceeds UnfitNeverCompletes
CHECK_DEADLOCK FALSE
