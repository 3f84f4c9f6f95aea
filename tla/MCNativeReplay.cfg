\* One stream; the recipient may empty and close its token account.
SPECIFICATION Spec
CONSTANTS
  U64Max = 7
  I64Max = 7
  Alice = Alice
  Bob = Bob
  S1 = S1
  S2 = S2
  Streams <- OneStream
  Wallets <- People
  SenderOf <- OneSender
  RecipientOf <- OneRecipient
  InitialBalance <- Five
  Payees <- People
  Totals = {2, 3}
  Chunks = {1, 2}
  Starts = {0}
  Intervals = {0}
  MaxTime = 1
INVARIANT ReplayNeverFails
CHECK_DEADLOCK FALSE
