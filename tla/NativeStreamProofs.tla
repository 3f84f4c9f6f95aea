-------------------------- MODULE NativeStreamProofs --------------------------
(***************************************************************************)
(* Theorems about NativeStream, for every set of streams and wallets and   *)
(* every width of the integers.  The argument rests on one inductive       *)
(* invariant, IInv: every account is either absent or passes its own       *)
(* validation with the route bound at initialization, and every vault      *)
(* holds what its stream has not released plus its gifts.                  *)
(***************************************************************************)
EXTENDS NativeStream, TLAPS

-----------------------------------------------------------------------------
(* Arithmetic *)

\* What ceil_div returns when it succeeds: m chunks cover the value and m - 1
\* do not.
LEMMA CeilDiv ==
  ASSUME NEW v \in U64, NEW d \in U64, d # 0, ceil_div(v, d) # Err
  PROVE  /\ ceil_div(v, d) \in U64
         /\ v <= ceil_div(v, d) * d
         /\ v # 0 => ceil_div(v, d) > 0 /\ (ceil_div(v, d) - 1) * d < v
<1>1. U64Max \in Nat
  BY WidthAssumption
<1>2. v \in Nat /\ d \in Nat /\ d > 0
  BY <1>1 DEF U64
<1> DEFINE q == v \div d
           r == v % d
           e == IF r = 0 THEN 0 ELSE 1
<1>3. q \in Nat /\ r \in 0..(d - 1) /\ v = d * q + r
  BY <1>2
<1>4. ceil_div(v, d) = q + e /\ q + e <= U64Max
  BY <1>1, <1>2, <1>3 DEF ceil_div, checked_add, Err
<1> HIDE DEF q, r
<1> DEFINE m == q + e
<1>5. m \in U64
  BY <1>1, <1>3, <1>4 DEF U64
<1>6. v <= m * d
  BY <1>2, <1>3
<1>7. ASSUME v # 0 PROVE m > 0 /\ (m - 1) * d < v
  BY <1>2, <1>3, <1>7
<1>8. ceil_div(v, d) = m
  BY <1>4
<1> HIDE DEF m
<1>9. QED
  BY <1>5, <1>6, <1>7, <1>8

\* Fewer chunks come to no larger an amount.
LEMMA ProductMonotone ==
  ASSUME NEW a \in Nat, NEW b \in Nat, NEW c \in Nat, a <= b
  PROVE  a * c <= b * c
OBVIOUS

\* The product of a count and an amount.
LEMMA ProductStep ==
  ASSUME NEW a \in Nat, NEW c \in Nat
  PROVE  /\ a * c \in Nat
         /\ (a + 1) * c = a * c + c
OBVIOUS

\* next_release_timestamp succeeds exactly when the sum fits.
LEMMA NextRelease ==
  ASSUME NEW start \in I64, NEW executed \in U64, NEW interval \in I64
  PROVE  /\ next_release_timestamp(start, executed, interval) # Err =>
              /\ start >= 0 /\ interval >= 0
              /\ next_release_timestamp(start, executed, interval)
                   = start + executed * interval
              /\ next_release_timestamp(start, executed, interval) \in 0..I64Max
         /\ (/\ start >= 0 /\ interval >= 0 /\ executed <= I64Max
             /\ start + executed * interval <= I64Max) =>
              next_release_timestamp(start, executed, interval)
                = start + executed * interval
<1>1. I64Max \in Nat /\ U64Max \in Nat
  BY WidthAssumption
<1>2. start \in Int /\ interval \in Int /\ executed \in Nat
  BY <1>1 DEF I64, U64
<1>3. start >= 0 /\ interval >= 0 => executed * interval >= 0
  BY <1>2, ProductStep
<1>4. executed * interval \in Int
  BY <1>2
<1> DEFINE p == executed * interval
<1> HIDE DEF p
<1>5. p \in Int /\ (start >= 0 /\ interval >= 0 => p >= 0)
  BY <1>3, <1>4 DEF p
<1>6. next_release_timestamp(start, executed, interval)
        = IF \/ start < 0 \/ interval < 0 \/ executed > I64Max \/ start + p > I64Max
            THEN Err ELSE start + p
  BY DEF next_release_timestamp, p
<1>7. QED
  BY <1>1, <1>2, <1>5, <1>6 DEF Err, p

-----------------------------------------------------------------------------
(* One account *)

\* A record with the fields of an account, taken apart.
LEMMA Fields ==
  ASSUME NEW st \in Stream(Accounts)
  PROVE  /\ st.total_amount \in Nat /\ st.chunk_amount \in Nat
         /\ st.sent_amount \in Nat /\ st.executed_chunks \in Nat
         /\ st.max_chunks \in Nat
         /\ st.total_amount <= U64Max /\ st.chunk_amount <= U64Max
         /\ st.sent_amount <= U64Max /\ st.executed_chunks <= U64Max
         /\ st.max_chunks <= U64Max
         /\ st.start_timestamp \in Int /\ st.interval_seconds \in Int
         /\ st.next_release_timestamp \in Int /\ st.created_at \in Int
BY WidthAssumption DEF Stream, U64, I64

\* What the validation says of an account that is still owed chunks.
LEMMA ActiveFacts ==
  ASSUME NEW st \in Stream(Accounts),
         validate_invariants(st), st.status = "Active"
  PROVE  /\ st.chunk_amount > 0
         /\ st.executed_chunks < st.max_chunks
         /\ st.sent_amount < st.total_amount
         /\ st.sent_amount = st.executed_chunks * st.chunk_amount
         /\ remaining(st) = st.total_amount - st.sent_amount
         /\ next_amount(st) \in Nat
         /\ 0 < next_amount(st)
         /\ next_amount(st) <= st.total_amount - st.sent_amount
         /\ next_amount(st) = Lesser(st.total_amount - st.sent_amount, st.chunk_amount)
         /\ st.total_amount <= st.max_chunks * st.chunk_amount
         /\ (st.max_chunks - 1) * st.chunk_amount < st.total_amount
<1>1. /\ st.total_amount # 0 /\ st.chunk_amount # 0
      /\ st.max_chunks = ceil_div(st.total_amount, st.chunk_amount)
      /\ st.sent_amount < st.total_amount
      /\ st.executed_chunks < st.max_chunks
      /\ st.sent_amount = ExpectedSent(st)
  BY DEF validate_invariants, AmountsValid, StatusValid
<1>2. st.sent_amount = st.executed_chunks * st.chunk_amount
  BY <1>1, Fields DEF ExpectedSent
<1>3. remaining(st) = st.total_amount - st.sent_amount
  BY <1>1, Fields DEF remaining, checked_sub
<1>4. /\ next_amount(st) \in Nat
      /\ 0 < next_amount(st)
      /\ next_amount(st) <= st.total_amount - st.sent_amount
      /\ next_amount(st) = Lesser(st.total_amount - st.sent_amount, st.chunk_amount)
  BY <1>1, <1>3, Fields DEF next_amount, Lesser
<1>5. /\ st.total_amount \in U64 /\ st.chunk_amount \in U64
      /\ ceil_div(st.total_amount, st.chunk_amount) # Err
  BY <1>1, Fields DEF Stream, Err
<1>6. /\ st.total_amount <= st.max_chunks * st.chunk_amount
      /\ (st.max_chunks - 1) * st.chunk_amount < st.total_amount
  BY <1>1, <1>5, CeilDiv
<1>7. QED
  BY <1>1, <1>2, <1>3, <1>4, <1>6, Fields

\* A release that goes through leaves a well-typed account, one chunk on.
LEMMA ReleasedFacts ==
  ASSUME NEW st \in Stream(Accounts),
         validate_invariants(st), st.status = "Active", CanAdvance(st)
  PROVE  /\ Released(st) \in Stream(Accounts)
         /\ validate_invariants(Released(st))
         /\ Released(st).route = st.route
         /\ Released(st).total_amount = st.total_amount
         /\ Released(st).chunk_amount = st.chunk_amount
         /\ Released(st).max_chunks = st.max_chunks
         /\ Released(st).start_timestamp = st.start_timestamp
         /\ Released(st).interval_seconds = st.interval_seconds
         /\ Released(st).sent_amount = st.sent_amount + next_amount(st)
         /\ Released(st).executed_chunks = st.executed_chunks + 1
<1> DEFINE sent     == checked_add(st.sent_amount, next_amount(st))
           executed == checked_add(st.executed_chunks, 1)
           next     == next_release_timestamp(st.start_timestamp, executed,
                                              st.interval_seconds)
<1>1. /\ Released(st).sent_amount = sent
      /\ Released(st).executed_chunks = executed
      /\ Released(st).next_release_timestamp = next
      /\ Released(st).status \in StreamStatus
      /\ Released(st).route = st.route
      /\ Released(st).total_amount = st.total_amount
      /\ Released(st).chunk_amount = st.chunk_amount
      /\ Released(st).max_chunks = st.max_chunks
      /\ Released(st).created_at = st.created_at
      /\ Released(st).start_timestamp = st.start_timestamp
      /\ Released(st).interval_seconds = st.interval_seconds
  BY DEF Released, Stream, StreamStatus
<1>2. sent # Err /\ executed # Err /\ next # Err /\ validate_invariants(Released(st))
  BY <1>1 DEF CanAdvance
<1>3. next_amount(st) \in Nat
  BY ActiveFacts
<1>4. sent = st.sent_amount + next_amount(st) /\ sent \in U64
  BY <1>2, <1>3, Fields, WidthAssumption DEF checked_add, U64
<1>5. executed = st.executed_chunks + 1 /\ executed \in U64
  BY <1>2, Fields, WidthAssumption DEF checked_add, U64
<1>6. next \in I64
  <2>1. st.start_timestamp \in I64 /\ st.interval_seconds \in I64
    BY DEF Stream
  <2>2. next \in 0..I64Max
    BY <1>2, <1>5, <2>1, NextRelease
  <2>3. QED
    BY <2>2, WidthAssumption DEF I64
<1>7. Released(st) \in Stream(Accounts)
  BY <1>1, <1>4, <1>5, <1>6 DEF Released, Stream, StreamStatus
<1>8. QED
  BY <1>1, <1>2, <1>4, <1>5, <1>7

-----------------------------------------------------------------------------
(* The token program *)

\* A transfer between two accounts changes these two balances only.
LEMMA MoveFacts ==
  ASSUME ledger \in [Accounts -> Nat],
         NEW from \in Accounts, NEW to \in Accounts, NEW amount \in Nat,
         amount <= ledger[from], Move(from, to, amount)
  PROVE  /\ ledger' \in [Accounts -> Nat]
         /\ from # to => /\ ledger'[from] = ledger[from] - amount
                         /\ ledger'[to] = ledger[to] + amount
         /\ from = to => ledger' = ledger
         /\ \A a \in Accounts \ {from, to} : ledger'[a] = ledger[a]
<1> DEFINE debited == [ledger EXCEPT ![from] = @ - amount]
<1>1. /\ debited \in [Accounts -> Nat]
      /\ debited[from] = ledger[from] - amount
      /\ \A a \in Accounts \ {from} : debited[a] = ledger[a]
  OBVIOUS
<1>2. ledger' = [debited EXCEPT ![to] = debited[to] + amount]
  BY DEF Move
<1> HIDE DEF debited
<1>3. /\ ledger' \in [Accounts -> Nat]
      /\ ledger'[to] = debited[to] + amount
      /\ \A a \in Accounts \ {to} : ledger'[a] = debited[a]
  BY <1>1, <1>2
<1>4. ASSUME from = to PROVE ledger' = ledger
  <2>1. \A a \in Accounts : ledger'[a] = ledger[a]
    BY <1>1, <1>3, <1>4
  <2>2. QED
    BY <2>1, <1>3
<1>5. QED
  BY <1>1, <1>3, <1>4

\* Gifts stay natural numbers, and only the vault that is credited has more.
LEMMA CreditFacts ==
  ASSUME gifts \in [Streams -> Nat], NEW to, NEW amount \in Nat, Credit(to, amount)
  PROVE  /\ gifts' \in [Streams -> Nat]
         /\ \A s \in Streams : gifts'[s] = IF s = to THEN gifts[s] + amount ELSE gifts[s]
BY DEF Credit

\* Streams and wallets are different accounts; a stream does not pay itself.
LEMMA Seeds ==
  ASSUME NEW s \in Streams
  PROVE  /\ s \in Accounts
         /\ SenderOf[s] \in Wallets /\ SenderOf[s] \in Accounts
         /\ SenderOf[s] \notin Streams
         /\ RecipientOf[s] \in Accounts /\ RecipientOf[s] # s
BY AccountsAssumption DEF Accounts

-----------------------------------------------------------------------------
(* The inductive invariant *)

\* There is no account at s, or one that unpack accepts, with its own route.
AccountValid(s) ==
  \/ stream[s] = Blank(s)
  \/ validate_invariants(stream[s]) /\ stream[s].route = RecipientOf[s]

VaultExactAt(s) ==
  ledger[s] = stream[s].total_amount - stream[s].sent_amount + gifts[s]

\* VaultExact alone is not inductive: that a release keeps sent_amount within
\* total_amount needs the account to be valid.
IInv ==
  /\ TypeOK
  /\ \A s \in Streams : AccountValid(s)
  /\ \A s \in Streams : VaultExactAt(s)

\* No validation accepts an absent account.
LEMMA BlankFacts ==
  ASSUME NEW s \in Streams
  PROVE  /\ Blank(s) \in Stream(Accounts)
         /\ Blank(s).status = "Uninitialized"
         /\ Blank(s).total_amount = 0 /\ Blank(s).chunk_amount = 0
         /\ Blank(s).sent_amount = 0 /\ Blank(s).executed_chunks = 0
         /\ \A st : validate_invariants(st) => st.status # "Uninitialized"
BY Seeds, WidthAssumption
   DEF Blank, Stream, StreamStatus, U64, I64, validate_invariants, StatusValid

\* At the start no account exists and every vault is empty.
LEMMA InitIInv == Init => IInv
<1> SUFFICES ASSUME Init PROVE IInv
  OBVIOUS
<1>1. \A s \in Streams : /\ stream[s] = Blank(s)
                         /\ ledger[s] = 0
                         /\ gifts[s] = 0
  BY AccountsAssumption DEF Init, Accounts
<1>2. TypeOK
  <2>1. stream \in [Streams -> Stream(Accounts)]
    BY BlankFacts DEF Init
  <2>2. ledger \in [Accounts -> Nat]
    BY AccountsAssumption DEF Init, Accounts
  <2>3. QED
    BY <2>1, <2>2, InputAssumption DEF Init, TypeOK
<1>3. \A s \in Streams : VaultExactAt(s)
  BY <1>1, BlankFacts DEF VaultExactAt
<1>4. QED
  BY <1>1, <1>2, <1>3 DEF IInv, AccountValid

\* What holds before and after a successful initialize.
LEMMA InitializeFacts ==
  ASSUME IInv, NEW s \in Streams,
         NEW total \in Totals, NEW chunk \in Chunks,
         NEW start \in Starts, NEW interval \in Intervals,
         Initialize(s, total, chunk, start, interval)
  PROVE  LET st == Initialized(s, total, chunk, start, interval)
         IN  /\ stream[s] = Blank(s)
             /\ st \in Stream(Accounts)
             /\ validate_invariants(st)
             /\ st.route = RecipientOf[s]
             /\ st.total_amount = total /\ st.chunk_amount = chunk
             /\ st.sent_amount = 0 /\ st.executed_chunks = 0
             /\ total \in 1..U64Max /\ chunk \in 1..U64Max
             /\ stream' = [stream EXCEPT ![s] = st]
             /\ ledger' \in [Accounts -> Nat]
             /\ ledger[s] = 0 /\ ledger'[s] = total
             /\ ledger'[SenderOf[s]] = ledger[SenderOf[s]] - total
             /\ \A a \in Accounts \ {s, SenderOf[s]} : ledger'[a] = ledger[a]
             /\ gifts[s] = 0
             /\ UNCHANGED <<closed, gifts, now>>
<1> DEFINE st == Initialized(s, total, chunk, start, interval)
<1>1. CanInitialize(s, total, chunk, start, interval)
  BY DEF Initialize
<1>2. stream[s] = Blank(s)
  BY <1>1, BlankFacts DEF CanInitialize, AccountFree, IInv, AccountValid
<1>3. total \in 1..U64Max /\ chunk \in 1..U64Max
  BY <1>1, InputAssumption, WidthAssumption DEF CanInitialize, U64
<1>4. st \in Stream(Accounts)
  <2>1. StartTime(start) \in I64 /\ now \in I64
    BY InputAssumption, WidthAssumption DEF IInv, TypeOK, StartTime, I64
  <2>2. ceil_div(total, chunk) \in U64
    BY <1>1, InputAssumption, CeilDiv DEF CanInitialize
  <2>3. interval \in I64 /\ total \in U64 /\ chunk \in U64 /\ 0 \in U64
    BY InputAssumption, WidthAssumption DEF U64
  <2>4. next_release_timestamp(StartTime(start), 0, interval) \in I64
    <3>1. next_release_timestamp(StartTime(start), 0, interval) \in 0..I64Max
      BY <1>1, <2>1, <2>3, NextRelease DEF CanInitialize
    <3>2. QED
      BY <3>1, WidthAssumption DEF I64
  <2>5. QED
    BY <2>1, <2>2, <2>3, <2>4, Seeds DEF Initialized, Stream, StreamStatus
<1>5. /\ validate_invariants(st) /\ st.route = RecipientOf[s]
      /\ st.total_amount = total /\ st.chunk_amount = chunk
      /\ st.sent_amount = 0 /\ st.executed_chunks = 0
  BY <1>1 DEF CanInitialize, Initialized
<1>6. ledger[s] = 0 /\ total <= ledger[SenderOf[s]]
  BY <1>1, <1>3, Seeds DEF CanInitialize, Funded, IInv, TypeOK
<1>7. /\ ledger' \in [Accounts -> Nat]
      /\ ledger'[SenderOf[s]] = ledger[SenderOf[s]] - total
      /\ ledger'[s] = ledger[s] + total
      /\ \A a \in Accounts \ {SenderOf[s], s} : ledger'[a] = ledger[a]
  <2>1. SenderOf[s] # s
    BY Seeds
  <2>2. QED
    BY <1>3, <1>6, <2>1, Seeds, MoveFacts DEF Initialize, IInv, TypeOK
<1>8. gifts[s] = 0
  BY <1>2, <1>6, BlankFacts DEF IInv, TypeOK, VaultExactAt
<1>9. /\ stream' = [stream EXCEPT ![s] = st]
      /\ UNCHANGED <<closed, gifts, now>>
  BY DEF Initialize
<1> HIDE DEF st
<1>10. ledger'[s] = total
  BY <1>3, <1>6, <1>7
<1>11. QED
  BY <1>2, <1>3, <1>4, <1>5, <1>6, <1>7, <1>8, <1>9, <1>10 DEF st

\* What holds before and after a successful release, whoever called it.
LEMMA ReleaseFacts ==
  ASSUME IInv, NEW s \in Streams, NEW vault \in Streams, NEW dest \in Accounts,
         NEW index, Release(s, vault, dest, index)
  PROVE  LET st     == stream[s]
             amount == next_amount(st)
         IN  /\ vault = s /\ dest = RecipientOf[s] /\ index = st.executed_chunks
             /\ st \in Stream(Accounts)
             /\ validate_invariants(st) /\ st.status = "Active" /\ CanAdvance(st)
             /\ st.route = RecipientOf[s]
             /\ Due(s)
             /\ ledger[s] = st.total_amount - st.sent_amount
             /\ gifts[s] = 0
             /\ amount \in Nat /\ amount > 0
             /\ stream' = [stream EXCEPT ![s] = Released(st)]
             /\ ledger' \in [Accounts -> Nat]
             /\ ledger'[s] = ledger[s] - amount
             /\ ledger'[dest] = ledger[dest] + amount
             /\ \A a \in Accounts \ {s, dest} : ledger'[a] = ledger[a]
             /\ gifts' \in [Streams -> Nat]
             /\ \A t \in Streams :
                   gifts'[t] = IF t = dest THEN gifts[t] + amount ELSE gifts[t]
             /\ UNCHANGED <<closed, now>>
<1> DEFINE st == stream[s]
           amount == next_amount(st)
<1>1. CanRelease(s, vault, dest, index)
  BY DEF Release
<1>2. /\ vault = s /\ dest = RecipientOf[s] /\ st.route = RecipientOf[s]
      /\ validate_invariants(st)
  BY <1>1 DEF CanRelease, Loads, BoundAccounts
<1>3. index = st.executed_chunks /\ st.status = "Active" /\ Due(s) /\ CanAdvance(st)
  BY <1>1 DEF CanRelease, IndexCurrent
<1>4. st \in Stream(Accounts)
  BY DEF IInv, TypeOK
<1>5. /\ remaining(st) = st.total_amount - st.sent_amount
      /\ amount \in Nat /\ amount > 0
  BY <1>2, <1>3, <1>4, ActiveFacts
<1>6. ledger[s] = st.total_amount - st.sent_amount /\ amount <= ledger[s]
  BY <1>1, <1>5 DEF CanRelease, AmountReady
<1>7. gifts[s] = 0
  <2>1. ledger[s] = st.total_amount - st.sent_amount + gifts[s]
    BY DEF IInv, VaultExactAt
  <2>2. gifts[s] \in Nat
    BY DEF IInv, TypeOK
  <2>3. QED
    BY <1>4, <1>6, <2>1, <2>2, Fields
<1>8. /\ ledger' \in [Accounts -> Nat]
      /\ ledger'[s] = ledger[s] - amount
      /\ ledger'[dest] = ledger[dest] + amount
      /\ \A a \in Accounts \ {s, dest} : ledger'[a] = ledger[a]
  <2>1. Move(s, dest, amount) /\ s # dest /\ s \in Accounts
    BY <1>2, Seeds DEF Release
  <2>2. ledger \in [Accounts -> Nat]
    BY DEF IInv, TypeOK
  <2> HIDE DEF amount
  <2>3. QED
    BY <1>5, <1>6, <2>1, <2>2, MoveFacts
<1>9. /\ gifts' \in [Streams -> Nat]
      /\ \A t \in Streams :
            gifts'[t] = IF t = dest THEN gifts[t] + amount ELSE gifts[t]
  <2>1. gifts \in [Streams -> Nat] /\ Credit(dest, amount)
    BY DEF IInv, TypeOK, Release
  <2> HIDE DEF amount
  <2>2. QED
    BY <1>5, <2>1, CreditFacts
<1>10. /\ stream' = [stream EXCEPT ![s] = Released(st)]
       /\ UNCHANGED <<closed, now>>
  BY DEF Release
<1>11. QED
  BY <1>2, <1>3, <1>4, <1>5, <1>6, <1>7, <1>8, <1>9, <1>10

\* A transfer between wallets, or from a wallet into a vault.
LEMMA TransferFacts ==
  ASSUME IInv, NEW from \in Wallets, NEW to \in Payees,
         NEW amount \in 1..ledger[from], TokenTransfer(from, to, amount)
  PROVE  /\ ledger' \in [Accounts -> Nat]
         /\ gifts' \in [Streams -> Nat]
         /\ \A s \in Streams :
               /\ s = to => /\ ledger'[s] = ledger[s] + amount
                            /\ gifts'[s] = gifts[s] + amount
               /\ s # to => ledger'[s] = ledger[s] /\ gifts'[s] = gifts[s]
         /\ UNCHANGED <<stream, closed, now>>
<1>1. from \in Accounts /\ to \in Accounts
  BY AccountsAssumption DEF Accounts
<1>2. ledger \in [Accounts -> Nat] /\ gifts \in [Streams -> Nat]
  BY DEF IInv, TypeOK
<1>3. amount \in Nat /\ amount <= ledger[from]
  BY <1>1, <1>2
<1>4. Move(from, to, amount) /\ Credit(to, amount) /\ UNCHANGED <<stream, closed, now>>
  BY DEF TokenTransfer
<1>5. \A s \in Streams : s # from /\ s \in Accounts
  BY AccountsAssumption DEF Accounts
<1>6. /\ ledger' \in [Accounts -> Nat]
      /\ \A s \in Streams : ledger'[s] = IF s = to THEN ledger[s] + amount ELSE ledger[s]
  BY <1>1, <1>2, <1>3, <1>4, <1>5, MoveFacts
<1>7. /\ gifts' \in [Streams -> Nat]
      /\ \A s \in Streams : gifts'[s] = IF s = to THEN gifts[s] + amount ELSE gifts[s]
  BY <1>2, <1>3, <1>4, CreditFacts
<1>8. QED
  BY <1>4, <1>6, <1>7

-----------------------------------------------------------------------------
(* Every step preserves the invariant *)

LEMMA NextIInv == IInv /\ [Next]_vars => IInv'
<1> SUFFICES ASSUME IInv, [Next]_vars PROVE IInv'
  OBVIOUS
<1>1. ASSUME NEW s \in Streams, InitializeBySender(s) PROVE IInv'
  <2>1. PICK total \in Totals, chunk \in Chunks, start \in Starts, interval \in Intervals :
          Initialize(s, total, chunk, start, interval)
    BY <1>1 DEF InitializeBySender
  <2> DEFINE st == Initialized(s, total, chunk, start, interval)
  <2>2. /\ st \in Stream(Accounts)
        /\ validate_invariants(st)
        /\ st.route = RecipientOf[s]
        /\ st.total_amount = total /\ st.sent_amount = 0
        /\ total \in Nat
        /\ stream' = [stream EXCEPT ![s] = st]
        /\ ledger' \in [Accounts -> Nat]
        /\ ledger'[s] = total /\ gifts[s] = 0
        /\ \A a \in Accounts \ {s, SenderOf[s]} : ledger'[a] = ledger[a]
        /\ UNCHANGED <<closed, gifts, now>>
    BY <2>1, InitializeFacts, WidthAssumption
  <2> HIDE DEF st
  <2>3. TypeOK'
    BY <2>2 DEF IInv, TypeOK
  <2>4. ASSUME NEW t \in Streams PROVE AccountValid(t)' /\ VaultExactAt(t)'
    <3>1. stream[t] \in Stream(Accounts)
      BY DEF IInv, TypeOK
    <3>2. CASE t = s
      <4>1. stream'[t] = st /\ st.route = RecipientOf[t]
        BY <2>2, <3>2 DEF IInv, TypeOK
      <4>2. QED
        BY <2>2, <3>2, <4>1 DEF AccountValid, VaultExactAt
    <3>3. CASE t # s
      <4>1. stream'[t] = stream[t] /\ ledger'[t] = ledger[t] /\ gifts'[t] = gifts[t]
        BY <2>2, <3>3, Seeds, AccountsAssumption DEF IInv, TypeOK, Accounts
      <4>2. QED
        BY <4>1 DEF AccountValid, VaultExactAt, IInv, Blank
    <3>4. QED
      BY <3>2, <3>3
  <2>5. QED
    BY <2>3, <2>4 DEF IInv
<1>2. ASSUME NEW s \in Streams, ReleaseByAnyone(s) PROVE IInv'
  <2>1. PICK vault \in Streams, dest \in Accounts, index \in 0..stream[s].max_chunks :
          Release(s, vault, dest, index)
    BY <1>2 DEF ReleaseByAnyone
  <2> DEFINE st == stream[s]
             amount == next_amount(st)
  <2>2. /\ dest = RecipientOf[s] /\ dest # s
        /\ st \in Stream(Accounts)
        /\ validate_invariants(st) /\ st.status = "Active" /\ CanAdvance(st)
        /\ st.route = RecipientOf[s]
        /\ ledger[s] = st.total_amount - st.sent_amount
        /\ gifts[s] = 0
        /\ amount \in Nat
        /\ stream' = [stream EXCEPT ![s] = Released(st)]
        /\ ledger' \in [Accounts -> Nat]
        /\ ledger'[s] = ledger[s] - amount
        /\ ledger'[dest] = ledger[dest] + amount
        /\ \A a \in Accounts \ {s, dest} : ledger'[a] = ledger[a]
        /\ gifts' \in [Streams -> Nat]
        /\ \A t \in Streams :
              gifts'[t] = IF t = dest THEN gifts[t] + amount ELSE gifts[t]
        /\ UNCHANGED <<closed, now>>
    BY <2>1, ReleaseFacts, Seeds
  <2>3. /\ Released(st) \in Stream(Accounts)
        /\ validate_invariants(Released(st))
        /\ Released(st).route = st.route
        /\ Released(st).total_amount = st.total_amount
        /\ Released(st).sent_amount = st.sent_amount + amount
    BY <2>2, ReleasedFacts
  <2> HIDE DEF amount
  <2>4. TypeOK'
    BY <2>2, <2>3 DEF IInv, TypeOK
  <2>5. ASSUME NEW t \in Streams PROVE AccountValid(t)' /\ VaultExactAt(t)'
    <3>1. /\ t \in Accounts /\ ledger[t] \in Nat /\ gifts[t] \in Nat
          /\ stream[t] \in Stream(Accounts)
      BY Seeds DEF IInv, TypeOK
    <3>2. stream[t].total_amount \in Nat /\ stream[t].sent_amount \in Nat
      BY <3>1, Fields
    <3>3. CASE t = s
      <4>1. stream'[t] = Released(st) /\ gifts'[t] = 0 /\ ledger'[t] = ledger[t] - amount
        BY <2>2, <3>3 DEF IInv, TypeOK
      <4>2. AccountValid(t)'
        BY <2>2, <2>3, <3>3, <4>1 DEF AccountValid
      <4>3. VaultExactAt(t)'
        BY <2>2, <2>3, <3>2, <3>3, <4>1 DEF VaultExactAt
      <4>4. QED
        BY <4>2, <4>3
    <3>4. CASE t # s
      <4>1. stream'[t] = stream[t]
        BY <2>2, <3>4 DEF IInv, TypeOK
      <4>2. /\ t = dest => ledger'[t] = ledger[t] + amount /\ gifts'[t] = gifts[t] + amount
            /\ t # dest => ledger'[t] = ledger[t] /\ gifts'[t] = gifts[t]
        BY <2>2, <3>1, <3>4
      <4>3. AccountValid(t)'
        BY <4>1 DEF AccountValid, IInv, Blank
      <4>4. VaultExactAt(t)'
        <5>1. ledger[t] = stream[t].total_amount - stream[t].sent_amount + gifts[t]
          BY DEF IInv, VaultExactAt
        <5>2. QED
          BY <2>2, <3>1, <3>2, <4>1, <4>2, <5>1 DEF VaultExactAt
      <4>5. QED
        BY <4>3, <4>4
    <3>5. QED
      BY <3>3, <3>4
  <2>6. QED
    BY <2>4, <2>5 DEF IInv
<1>3. ASSUME NEW from \in Wallets, NEW to \in Payees, NEW amount \in 1..ledger[from],
             TokenTransfer(from, to, amount)
      PROVE  IInv'
  <2>1. /\ ledger' \in [Accounts -> Nat]
        /\ gifts' \in [Streams -> Nat]
        /\ \A s \in Streams :
              /\ s = to => /\ ledger'[s] = ledger[s] + amount
                           /\ gifts'[s] = gifts[s] + amount
              /\ s # to => ledger'[s] = ledger[s] /\ gifts'[s] = gifts[s]
        /\ UNCHANGED <<stream, closed, now>>
    BY <1>3, TransferFacts
  <2>2. TypeOK'
    BY <2>1 DEF IInv, TypeOK
  <2>3. ASSUME NEW t \in Streams PROVE AccountValid(t)' /\ VaultExactAt(t)'
    <3>1. /\ stream[t] \in Stream(Accounts) /\ gifts[t] \in Nat
          /\ ledger[t] = stream[t].total_amount - stream[t].sent_amount + gifts[t]
          /\ stream'[t] = stream[t] /\ AccountValid(t)
      BY <2>1 DEF IInv, TypeOK, VaultExactAt
    <3>2. amount \in Int
      OBVIOUS
    <3>3. stream[t].total_amount \in Nat /\ stream[t].sent_amount \in Nat
      BY <3>1, Fields
    <3>4. VaultExactAt(t)'
      BY <2>1, <3>1, <3>2, <3>3 DEF VaultExactAt
    <3>5. QED
      BY <3>1, <3>4 DEF AccountValid, Blank
  <2>4. QED
    BY <2>2, <2>3 DEF IInv
<1>4. ASSUME NEW w \in Wallets, CloseAccount(w) \/ CreateAccount(w) PROVE IInv'
  BY <1>4 DEF CloseAccount, CreateAccount, IInv, TypeOK, AccountValid, VaultExactAt, Blank
<1>5. CASE Tick
  BY <1>5, InputAssumption DEF Tick, IInv, TypeOK, AccountValid, VaultExactAt, Blank
<1>6. CASE UNCHANGED vars
  BY <1>6 DEF vars, IInv, TypeOK, AccountValid, VaultExactAt, Blank
<1>7. QED
  BY <1>1, <1>2, <1>3, <1>4, <1>5, <1>6 DEF Next, Environment

-----------------------------------------------------------------------------
(* Theorems *)

\* In every reachable state, accounts are blank or valid and vaults are exact:
\* initialize and release leave nothing behind that the next load would reject.
THEOREM Invariance == Spec => []IInv
<1>1. Init => IInv
  BY InitIInv
<1>2. IInv /\ [Next]_vars => IInv'
  BY NextIInv
<1>3. QED
  BY <1>1, <1>2, PTL DEF Spec

\* The variables keep their types: no balance, in particular, goes negative.
THEOREM TypeCorrect == Spec => []TypeOK
<1>1. IInv => TypeOK
  BY DEF IInv
<1>2. QED
  BY <1>1, Invariance, PTL

\* Every vault always holds exactly what its stream still owes plus what was
\* put there by others.
THEOREM Solvency == Spec => []VaultExact
<1>1. IInv => VaultExact
  BY DEF IInv, VaultExact, VaultExactAt
<1>2. QED
  BY <1>1, Invariance, PTL

\* No chunk is ever paid ahead of its schedule.
THEOREM Punctuality == Spec => []ScheduleRespected
<1> DEFINE Kept(s) ==
      stream[s].executed_chunks > 0 =>
        now >= stream[s].start_timestamp
               + (stream[s].executed_chunks - 1) * stream[s].interval_seconds
<1>1. Init => ScheduleRespected
  BY BlankFacts DEF Init, ScheduleRespected
<1>2. ASSUME IInv, ScheduleRespected, [Next]_vars
      PROVE  ScheduleRespected'
  <2>1. ASSUME NEW s \in Streams, InitializeBySender(s) PROVE ScheduleRespected'
    <3>1. PICK total \in Totals, chunk \in Chunks, start \in Starts, interval \in Intervals :
            Initialize(s, total, chunk, start, interval)
      BY <2>1 DEF InitializeBySender
    <3> DEFINE st == Initialized(s, total, chunk, start, interval)
    <3>2. st.executed_chunks = 0 /\ stream' = [stream EXCEPT ![s] = st] /\ now' = now
      BY <1>2, <3>1, InitializeFacts
    <3> HIDE DEF st
    <3>3. ASSUME NEW t \in Streams PROVE Kept(t)'
      <4>1. CASE t = s
        BY <1>2, <3>2, <4>1 DEF IInv, TypeOK
      <4>2. CASE t # s
        <5>1. stream'[t] = stream[t] /\ Kept(t)
          BY <1>2, <3>2, <4>2 DEF IInv, TypeOK, ScheduleRespected
        <5>2. QED
          BY <3>2, <5>1
      <4>3. QED
        BY <4>1, <4>2
    <3>4. QED
      BY <3>3 DEF ScheduleRespected
  <2>2. ASSUME NEW s \in Streams, ReleaseByAnyone(s) PROVE ScheduleRespected'
    <3>1. PICK vault \in Streams, dest \in Accounts, index \in 0..stream[s].max_chunks :
            Release(s, vault, dest, index)
      BY <2>2 DEF ReleaseByAnyone
    <3> DEFINE st == stream[s]
    <3>2. /\ st \in Stream(Accounts)
          /\ validate_invariants(st) /\ st.status = "Active" /\ CanAdvance(st)
          /\ Due(s) /\ stream' = [stream EXCEPT ![s] = Released(st)] /\ now' = now
      BY <1>2, <3>1, ReleaseFacts
    <3>3. /\ Released(st).executed_chunks = st.executed_chunks + 1
          /\ Released(st).start_timestamp = st.start_timestamp
          /\ Released(st).interval_seconds = st.interval_seconds
      BY <3>2, ReleasedFacts
    <3>4. now >= st.start_timestamp + st.executed_chunks * st.interval_seconds
      <4>1. /\ st.next_release_timestamp # Err
            /\ st.next_release_timestamp
                 = next_release_timestamp(st.start_timestamp, st.executed_chunks,
                                          st.interval_seconds)
        BY <3>2 DEF validate_invariants, TimesValid
      <4>2. /\ st.start_timestamp \in I64 /\ st.interval_seconds \in I64
            /\ st.executed_chunks \in U64
        BY <3>2 DEF Stream
      <4>3. st.next_release_timestamp
              = st.start_timestamp + st.executed_chunks * st.interval_seconds
        BY <4>1, <4>2, NextRelease
      <4>4. QED
        BY <3>2, <4>3 DEF Due
    <3>5. ASSUME NEW t \in Streams PROVE Kept(t)'
      <4>1. CASE t = s
        <5>1. stream'[t] = Released(st)
          BY <1>2, <3>2, <4>1 DEF IInv, TypeOK
        <5>2. /\ stream'[t].executed_chunks - 1 = st.executed_chunks
              /\ stream'[t].interval_seconds = st.interval_seconds
              /\ stream'[t].start_timestamp = st.start_timestamp
          BY <3>2, <3>3, <5>1, Fields
        <5> DEFINE k == stream'[t].executed_chunks - 1
        <5>3. now' >= stream'[t].start_timestamp + k * stream'[t].interval_seconds
          BY <3>2, <3>4, <5>2
        <5>4. QED
          BY <5>3
      <4>2. CASE t # s
        <5>1. stream'[t] = stream[t] /\ Kept(t)
          BY <1>2, <3>2, <4>2 DEF IInv, TypeOK, ScheduleRespected
        <5>2. QED
          BY <3>2, <5>1
      <4>3. QED
        BY <4>1, <4>2
    <3>6. QED
      BY <3>5 DEF ScheduleRespected
  <2>3. CASE Environment
    <3>1. stream' = stream /\ now' >= now /\ now \in Int /\ now' \in Int
      BY <1>2, <2>3, InputAssumption
         DEF Environment, TokenTransfer, CloseAccount, CreateAccount, Tick, IInv, TypeOK
    <3>2. ASSUME NEW t \in Streams PROVE Kept(t)'
      <4>1. Kept(t) /\ stream[t] \in Stream(Accounts)
        BY <1>2 DEF ScheduleRespected, IInv, TypeOK
      <4> DEFINE due == stream[t].start_timestamp
                        + (stream[t].executed_chunks - 1) * stream[t].interval_seconds
      <4>2. due \in Int
        BY <4>1, Fields
      <4> HIDE DEF due
      <4>3. stream[t].executed_chunks > 0 => now' >= due
        BY <3>1, <4>1, <4>2 DEF due
      <4>4. QED
        BY <3>1, <4>3 DEF due
    <3>3. QED
      BY <3>2 DEF ScheduleRespected
  <2>4. CASE UNCHANGED vars
    BY <1>2, <2>4 DEF vars, ScheduleRespected
  <2>5. QED
    BY <1>2, <2>1, <2>2, <2>3, <2>4 DEF Next
<1>3. QED
  BY <1>1, <1>2, Invariance, PTL DEF Spec

-----------------------------------------------------------------------------
(* No valid stream is stranded halfway *)

\* The validation of the account one chunk on holds: the amounts of m chunks,
\* the last one cut short, add up to the total, and no product overflows
\* before its bound is reached.
LEMMA AdvanceFits ==
  ASSUME NEW st \in Stream(Accounts),
         validate_invariants(st), st.status = "Active",
         st.max_chunks <= I64Max,
         st.start_timestamp + st.max_chunks * st.interval_seconds <= I64Max
  PROVE  CanAdvance(st)
<1> DEFINE total    == st.total_amount
           chunk    == st.chunk_amount
           sent     == st.sent_amount
           k        == st.executed_chunks
           m        == st.max_chunks
           start    == st.start_timestamp
           interval == st.interval_seconds
           amount   == next_amount(st)
<1>1. /\ total \in Nat /\ chunk \in Nat /\ sent \in Nat /\ k \in Nat /\ m \in Nat
      /\ total <= U64Max /\ m <= U64Max
      /\ start \in Int /\ interval \in Int
      /\ U64Max \in Nat /\ I64Max \in Nat
  BY Fields, WidthAssumption
<1>2. /\ chunk > 0 /\ k < m /\ sent < total /\ sent = k * chunk
      /\ amount \in Nat /\ 0 < amount /\ amount <= total - sent
      /\ amount = Lesser(total - sent, chunk)
      /\ total <= m * chunk /\ (m - 1) * chunk < total
  BY ActiveFacts
<1>3. start >= 0 /\ interval >= 0 /\ m <= I64Max /\ start + m * interval <= I64Max
  BY <1>1, Fields DEF validate_invariants, TimesValid
<1> HIDE DEF total, chunk, sent, k, m, start, interval, amount
<1>4. checked_add(sent, amount) = sent + amount /\ sent + amount \in U64
  BY <1>1, <1>2 DEF checked_add, U64
<1>5. checked_add(k, 1) = k + 1 /\ k + 1 \in U64 /\ k + 1 <= m
  <2>1. k \in Nat /\ m \in Nat /\ k < m /\ m <= U64Max /\ U64Max \in Nat
    BY <1>1, <1>2
  <2>2. k + 1 <= m /\ k + 1 <= U64Max /\ k + 1 \in Nat
    BY <2>1
  <2>3. k + 1 \in U64
    BY <2>1, <2>2 DEF U64
  <2>4. checked_add(k, 1) = k + 1
    BY <2>2 DEF checked_add
  <2>5. QED
    BY <2>2, <2>3, <2>4
<1>6. next_release_timestamp(start, k + 1, interval) = start + (k + 1) * interval
  <2>1. start \in I64 /\ interval \in I64
    BY DEF Stream, start, interval
  <2>2. (k + 1) * interval <= m * interval
    BY <1>1, <1>3, <1>5, ProductMonotone
  <2>3. (k + 1) * interval \in Int /\ m * interval \in Int
    BY <1>1
  <2>4. start + (k + 1) * interval <= I64Max
    BY <1>1, <1>3, <2>2, <2>3
  <2>5. k + 1 <= I64Max
    BY <1>1, <1>3, <1>5
  <2>6. QED
    BY <1>3, <1>5, <2>1, <2>4, <2>5, NextRelease
<1>7. (k + 1) * interval \in Nat
  BY <1>1, <1>3, ProductStep
<1>8. /\ Released(st).sent_amount = sent + amount
      /\ Released(st).executed_chunks = k + 1
      /\ Released(st).next_release_timestamp = start + (k + 1) * interval
      /\ Released(st).status = IF sent + amount = total THEN "Completed" ELSE "Active"
      /\ Released(st).total_amount = total
      /\ Released(st).chunk_amount = chunk
      /\ Released(st).max_chunks = m
      /\ Released(st).created_at = st.created_at
      /\ Released(st).start_timestamp = start
      /\ Released(st).interval_seconds = interval
  BY <1>4, <1>5, <1>6
     DEF Released, Stream, total, chunk, sent, k, m, start, interval, amount
<1>9. k + 1 = m => sent + amount = total
  <2>1. ASSUME k + 1 = m PROVE sent + amount = total
    <3>1. (k + 1) * chunk = sent + chunk
      BY <1>1, <1>2, ProductStep
    <3>2. total <= sent + chunk
      BY <1>2, <2>1, <3>1
    <3>3. QED
      BY <1>1, <1>2, <3>2 DEF Lesser
  <2>2. QED
    BY <2>1
<1>10. k + 1 < m => /\ sent + amount = (k + 1) * chunk
                    /\ sent + amount < total
  <2>1. ASSUME k + 1 < m PROVE sent + amount = (k + 1) * chunk /\ sent + amount < total
    <3>1. (k + 1) * chunk = sent + chunk
      BY <1>1, <1>2, ProductStep
    <3>2. (k + 1) * chunk <= (m - 1) * chunk
      <4>1. k + 1 \in Nat /\ m - 1 \in Nat /\ k + 1 <= m - 1
        BY <1>1, <2>1
      <4>2. QED
        BY <1>1, <4>1, ProductMonotone
    <3>3. sent + chunk < total
      <4>1. (m - 1) * chunk \in Int
        BY <1>1
      <4>2. QED
        BY <1>1, <1>2, <3>1, <3>2, <4>1
    <3>4. amount = chunk
      BY <1>1, <1>2, <3>3 DEF Lesser
    <3>5. QED
      BY <3>1, <3>3, <3>4
  <2>2. QED
    BY <2>1
<1> DEFINE r == Released(st)
<1>11. AmountsValid(r)
  <2>1. total # 0 /\ chunk # 0 /\ m = ceil_div(total, chunk)
    BY DEF validate_invariants, AmountsValid, total, chunk, m
  <2>2. ExpectedSent(r) = sent + amount
    BY <1>1, <1>2, <1>5, <1>8, <1>9, <1>10 DEF ExpectedSent
  <2>3. sent + amount <= total /\ sent + amount <= U64Max
    BY <1>1, <1>2
  <2>4. QED
    BY <1>5, <1>8, <2>1, <2>2, <2>3 DEF AmountsValid
<1>12. StatusValid(r)
  <2>1. CASE k + 1 = m
    BY <1>8, <1>9, <2>1 DEF StatusValid
  <2>2. CASE k + 1 < m
    <3>1. sent + amount < total /\ sent + amount # total
      BY <1>1, <1>2, <1>10, <2>2
    <3>2. QED
      BY <1>8, <2>2, <3>1 DEF StatusValid
  <2>3. QED
    BY <1>1, <1>5, <2>1, <2>2
<1>13. TimesValid(r)
  <2>1. 0 <= st.created_at /\ st.created_at <= start
    BY DEF validate_invariants, TimesValid, start
  <2>2. start + (k + 1) * interval # Err
    BY <1>1, <1>3, <1>7 DEF Err
  <2>3. QED
    BY <1>3, <1>6, <1>8, <2>1, <2>2 DEF TimesValid
<1>14. /\ r.sent_amount # Err /\ r.executed_chunks # Err
       /\ r.next_release_timestamp # Err
       /\ r.sent_amount <= st.total_amount /\ r.executed_chunks <= st.max_chunks
  BY <1>1, <1>2, <1>3, <1>5, <1>7, <1>8 DEF Err, total, m
<1>15. QED
  BY <1>11, <1>12, <1>13, <1>14 DEF CanAdvance, WithinBounds, validate_invariants

\* The account's own validation, the exact vault and the schedule together
\* leave release no reason to refuse a chunk that is owed.
LEMMA OwedReleases == ASSUME IInv PROVE DueReleaseSucceeds
<1> SUFFICES ASSUME NEW s \in Streams, Owed(s), gifts[s] = 0, ScheduleFits(s)
             PROVE  CanRelease(s, s, stream[s].route, stream[s].executed_chunks)
  BY DEF DueReleaseSucceeds
<1> DEFINE st == stream[s]
<1>1. /\ st \in Stream(Accounts) /\ st.status = "Active" /\ Due(s)
      /\ st.route \notin closed
  BY DEF IInv, TypeOK, Owed
<1>2. validate_invariants(st) /\ st.route = RecipientOf[s]
  BY <1>1, BlankFacts DEF IInv, AccountValid
<1>3. Loads(s, s, st.route)
  BY <1>1, <1>2 DEF Loads, BoundAccounts
<1>4. CanAdvance(st)
  BY <1>1, <1>2, AdvanceFits DEF ScheduleFits
<1>5. AmountReady(s)
  <2>1. ledger[s] = st.total_amount - st.sent_amount
    <3>1. ledger[s] = st.total_amount - st.sent_amount + gifts[s]
      BY DEF IInv, VaultExactAt
    <3>2. QED
      BY <1>1, <3>1, Fields
  <2>2. /\ remaining(st) = st.total_amount - st.sent_amount
        /\ next_amount(st) \in Nat /\ 0 < next_amount(st)
        /\ next_amount(st) <= st.total_amount - st.sent_amount
    BY <1>1, <1>2, ActiveFacts
  <2>3. st.total_amount - st.sent_amount \in Int
    BY <1>1, Fields
  <2>4. QED
    BY <2>1, <2>2, <2>3 DEF AmountReady
<1>6. QED
  BY <1>1, <1>3, <1>4, <1>5 DEF CanRelease, IndexCurrent

\* An owed chunk can be released by whoever submits the current index, if the
\* vault was funded by initialize alone and the schedule fits.
THEOREM Availability == Spec => []DueReleaseSucceeds
<1>1. IInv => DueReleaseSucceeds
  BY OwedReleases
<1>2. QED
  BY <1>1, Invariance, PTL

\* A schedule whose timestamp after the last chunk exceeds i64 is never paid out.
THEOREM Overflow == Spec => []UnfitNeverCompletes
<1>1. ASSUME IInv PROVE UnfitNeverCompletes
  <2> SUFFICES ASSUME NEW s \in Streams, stream[s].status = "Completed"
               PROVE  ~ (stream[s].start_timestamp
                           + stream[s].max_chunks * stream[s].interval_seconds > I64Max)
    BY DEF UnfitNeverCompletes
  <2> DEFINE st == stream[s]
  <2>1. st \in Stream(Accounts)
    BY <1>1 DEF IInv, TypeOK
  <2>2. validate_invariants(st)
    BY <1>1, BlankFacts DEF IInv, AccountValid
  <2>3. st.executed_chunks = st.max_chunks
    BY <2>2 DEF validate_invariants, StatusValid
  <2>4. next_release_timestamp(st.start_timestamp, st.executed_chunks, st.interval_seconds)
          # Err
    BY <2>2 DEF validate_invariants, TimesValid
  <2>5. /\ st.start_timestamp \in I64 /\ st.interval_seconds \in I64
        /\ st.executed_chunks \in U64
    BY <2>1 DEF Stream
  <2>6. st.start_timestamp + st.executed_chunks * st.interval_seconds \in 0..I64Max
    BY <2>4, <2>5, NextRelease
  <2>7. QED
    BY <2>3, <2>6, WidthAssumption
<1>2. QED
  BY <1>1, Invariance, PTL

-----------------------------------------------------------------------------
(* A new stream *)

\* Rounding up never takes ceil_div out of u64.
LEMMA CeilDivFits ==
  ASSUME NEW v \in U64, NEW d \in U64, d # 0
  PROVE  ceil_div(v, d) # Err
<1>1. U64Max \in Nat /\ v \in Nat /\ v <= U64Max /\ d \in Nat /\ d > 0
  BY WidthAssumption DEF U64
<1> DEFINE q == v \div d
           r == v % d
<1>2. q \in Nat /\ r \in 0..(d - 1) /\ v = d * q + r
  BY <1>1
<1>3. ceil_div(v, d) = checked_add(q, IF r = 0 THEN 0 ELSE 1)
  BY <1>1 DEF ceil_div
<1> HIDE DEF q, r
<1>4. 1 * q <= d * q /\ d * q \in Nat
  BY <1>1, <1>2, ProductMonotone, ProductStep
<1>5. q + (IF r = 0 THEN 0 ELSE 1) <= U64Max
  BY <1>1, <1>2, <1>4
<1>6. QED
  BY <1>2, <1>3, <1>5 DEF checked_add, Err

\* At a fresh address, a sender that is prepared can always create its stream.
THEOREM FreshStart == Spec => []FreshInitializeSucceeds
<1>1. ASSUME IInv PROVE FreshInitializeSucceeds
  <2> SUFFICES ASSUME NEW s \in Streams,
                      stream[s].status = "Uninitialized", gifts[s] = 0,
                      NEW total \in Totals, NEW chunk \in Chunks,
                      NEW start \in Starts, NEW interval \in Intervals,
                      Prepared(s, total, chunk, start, interval)
               PROVE  CanInitialize(s, total, chunk, start, interval)
    BY DEF FreshInitializeSucceeds
  <2> DEFINE st == Initialized(s, total, chunk, start, interval)
             m  == ceil_div(total, chunk)
             b  == StartTime(start)
  <2>1. /\ total \in U64 /\ chunk \in U64 /\ total > 0 /\ chunk > 0
        /\ start \in I64 /\ interval \in I64 /\ interval >= 0
    BY InputAssumption DEF Prepared
  <2>2. now \in Nat /\ now <= I64Max /\ I64Max \in Nat /\ U64Max \in Nat
    BY <1>1, InputAssumption, WidthAssumption DEF IInv, TypeOK
  <2>3. b \in I64 /\ b >= now /\ b \in Nat /\ b <= I64Max
    BY <2>1, <2>2 DEF StartTime, I64, Prepared
  <2>4. ledger[s] = 0
    <3>1. ledger[s] = stream[s].total_amount - stream[s].sent_amount + gifts[s]
      BY <1>1 DEF IInv, VaultExactAt
    <3>2. stream[s].total_amount = 0 /\ stream[s].sent_amount = 0
      BY <1>1, BlankFacts DEF IInv, AccountValid, validate_invariants, StatusValid, Blank
    <3>3. QED
      BY <3>1, <3>2
  <2>5. m # Err /\ m \in U64 /\ m > 0
    <3>1. chunk # 0 /\ total # 0 /\ m # Err
      BY <2>1, <2>2, CeilDivFits DEF U64
    <3>2. QED
      BY <2>1, <3>1, CeilDiv
  <2>6. next_release_timestamp(b, 0, interval) = b
    <3>1. 0 \in U64 /\ 0 * interval = 0 /\ b + 0 = b
      BY <2>1, <2>2, <2>3 DEF U64, I64
    <3>2. b + 0 * interval = b
      BY <3>1
    <3>3. QED
      BY <2>1, <2>2, <2>3, <3>1, <3>2, NextRelease
  <2> HIDE DEF m, b
  <2>7. /\ st.status = "Active" /\ st.total_amount = total /\ st.chunk_amount = chunk
        /\ st.sent_amount = 0 /\ st.executed_chunks = 0 /\ st.max_chunks = m
        /\ st.created_at = now /\ st.start_timestamp = b
        /\ st.next_release_timestamp = b /\ st.interval_seconds = interval
    BY <2>6 DEF Initialized, m, b
  <2> HIDE DEF st
  <2>8. AmountsValid(st)
    <3>1. total \in Nat /\ chunk \in Nat /\ m \in Nat /\ 0 * chunk = 0
      BY <2>1, <2>2, <2>5 DEF U64
    <3>2. ExpectedSent(st) = 0
      BY <2>5, <2>7, <3>1 DEF ExpectedSent
    <3>3. QED
      BY <2>1, <2>2, <2>5, <2>7, <3>1, <3>2 DEF AmountsValid, m
  <2>9. StatusValid(st)
    BY <2>1, <2>5, <2>7 DEF StatusValid
  <2>10. TimesValid(st)
    BY <2>1, <2>2, <2>3, <2>6, <2>7 DEF TimesValid, Err
  <2>11. b # Err
    BY <2>3 DEF Err
  <2>12. QED
    BY <2>1, <2>3, <2>4, <2>5, <2>6, <2>8, <2>9, <2>10, <2>11
       DEF CanInitialize, Prepared, AccountFree, Funded, validate_invariants, st, m, b
<1>2. QED
  BY <1>1, Invariance, PTL

-----------------------------------------------------------------------------
(* Payments *)

\* Tokens leave a vault only as the next chunk of its stream, to the recipient
\* among its seeds.
THEOREM Exactness == Spec => PaymentExact
<1>1. ASSUME IInv, [Next]_vars, NEW s \in Streams, ledger'[s] < ledger[s]
      PROVE  ExactPayment(s)
  <2>1. s \in Accounts /\ ledger[s] \in Nat
    BY <1>1, Seeds DEF IInv, TypeOK
  <2>2. ASSUME NEW t \in Streams, InitializeBySender(t) PROVE FALSE
    <3>1. PICK total \in Totals, chunk \in Chunks, start \in Starts, interval \in Intervals :
            Initialize(t, total, chunk, start, interval)
      BY <2>2 DEF InitializeBySender
    <3>2. /\ total \in 1..U64Max /\ ledger[t] = 0 /\ ledger'[t] = total
          /\ \A a \in Accounts \ {t, SenderOf[t]} : ledger'[a] = ledger[a]
      BY <1>1, <3>1, InitializeFacts
    <3>3. s # t => ledger'[s] = ledger[s]
      BY <2>1, <3>2, Seeds
    <3>4. QED
      BY <1>1, <2>1, <3>2, <3>3, WidthAssumption
  <2>3. ASSUME NEW t \in Streams, ReleaseByAnyone(t) PROVE ExactPayment(s)
    <3>1. PICK vault \in Streams, dest \in Accounts, index \in 0..stream[t].max_chunks :
            Release(t, vault, dest, index)
      BY <2>3 DEF ReleaseByAnyone
    <3> DEFINE st == stream[t]
               amount == next_amount(st)
    <3>2. /\ vault = t /\ dest = RecipientOf[t]
          /\ st \in Stream(Accounts)
          /\ validate_invariants(st) /\ st.status = "Active" /\ CanAdvance(st)
          /\ amount \in Nat /\ amount > 0
          /\ stream' = [stream EXCEPT ![t] = Released(st)]
          /\ ledger' \in [Accounts -> Nat]
          /\ ledger'[t] = ledger[t] - amount
          /\ ledger'[dest] = ledger[dest] + amount
          /\ \A a \in Accounts \ {t, dest} : ledger'[a] = ledger[a]
      BY <1>1, <3>1, ReleaseFacts
    <3>3. Released(st).sent_amount = st.sent_amount + amount
          /\ Released(st).executed_chunks = st.executed_chunks + 1
      BY <3>2, ReleasedFacts
    <3> HIDE DEF amount
    <3>4. s = t
      <4>1. CASE s = dest /\ s # t
        BY <1>1, <2>1, <3>2, <4>1
      <4>2. CASE s # dest /\ s # t
        BY <1>1, <2>1, <3>2, <4>2
      <4>3. QED
        BY <4>1, <4>2
    <3>5. /\ stream'[s].sent_amount = stream[s].sent_amount + amount
          /\ stream'[s].executed_chunks = stream[s].executed_chunks + 1
          /\ \A u \in Streams \ {s} : stream'[u] = stream[u]
      BY <1>1, <3>2, <3>3, <3>4 DEF IInv, TypeOK
    <3>6. amount = next_amount(stream[s])
      BY <3>4 DEF amount
    <3>7. QED
      BY <3>2, <3>4, <3>5, <3>6 DEF ExactPayment
  <2>4. CASE Environment
    <3>1. ASSUME NEW from \in Wallets, NEW to \in Payees, NEW amount \in 1..ledger[from],
                 TokenTransfer(from, to, amount)
          PROVE  FALSE
      BY <1>1, <2>1, <3>1, TransferFacts
    <3>2. CASE UNCHANGED ledger
      BY <1>1, <2>1, <3>2
    <3>3. QED
      BY <2>4, <3>1, <3>2 DEF Environment, CloseAccount, CreateAccount, Tick
  <2>5. CASE UNCHANGED vars
    BY <1>1, <2>1, <2>5 DEF vars
  <2>6. QED
    BY <1>1, <2>2, <2>3, <2>4, <2>5 DEF Next
<1>2. IInv /\ [Next]_vars => [\A s \in Streams : ledger'[s] < ledger[s] => ExactPayment(s)]_vars
  BY <1>1
<1>3. QED
  BY <1>2, Invariance, PTL DEF Spec, PaymentExact

-----------------------------------------------------------------------------
(* Refinement *)

\* What the deal says was paid is what the account says was sent.
DealExact(s) ==
  DealOf(s) = [ total |-> stream[s].total_amount,
                chunk |-> stream[s].chunk_amount,
                paid  |-> stream[s].sent_amount ]

LEMMA DealsExact == IInv => \A s \in Streams : DealExact(s)
<1> SUFFICES ASSUME IInv, NEW s \in Streams PROVE DealExact(s)
  OBVIOUS
<1>1. /\ ledger[s] = stream[s].total_amount - stream[s].sent_amount + gifts[s]
      /\ stream[s] \in Stream(Accounts) /\ gifts[s] \in Nat
  BY DEF IInv, VaultExactAt, TypeOK
<1>2. stream[s].total_amount + gifts[s] - ledger[s] = stream[s].sent_amount
  BY <1>1, Fields
<1>3. QED
  BY <1>2 DEF DealExact, DealOf

\* The same in the next state.
LEMMA DealsExactNext == IInv' => (\A s \in Streams : DealExact(s))'
BY DealsExact, PTL

\* Every step of the program and its environment funds a deal, pays the next
\* amount of one, or leaves all deals alone.
THEOREM Refinement == Spec => ImplementsPaymentStream
<1> DEFINE deal == [s \in Streams |-> DealOf(s)]
<1>1. Init => Abstract!Init
  <2> SUFFICES ASSUME Init PROVE deal = [s \in Streams |-> Abstract!NoDeal]
    BY DEF Abstract!Init
  <2>1. IInv
    BY InitIInv
  <2>2. ASSUME NEW s \in Streams PROVE DealOf(s) = Abstract!NoDeal
    <3>1. stream[s] = Blank(s)
      BY DEF Init
    <3>2. QED
      BY <2>1, <3>1, BlankFacts, DealsExact DEF DealExact, Abstract!NoDeal
  <2>3. QED
    BY <2>2
<1>2. ASSUME IInv, IInv', [Next]_vars PROVE [Abstract!Next]_deal
  <2>1. \A s \in Streams : DealExact(s) /\ DealExact(s)'
    BY <1>2, DealsExact, DealsExactNext
  <2>2. ASSUME NEW s \in Streams, NEW d,
               \A t \in Streams \ {s} : stream'[t] = stream[t],
               DealOf(s)' = d
        PROVE  deal' = [deal EXCEPT ![s] = d]
    <3>1. \A t \in Streams \ {s} : DealOf(t)' = DealOf(t)
      BY <2>1, <2>2 DEF DealExact
    <3>2. deal' = [t \in Streams |-> IF t = s THEN d ELSE DealOf(t)]
      BY <2>2, <3>1
    <3>3. QED
      BY <3>2
  <2>3. ASSUME NEW s \in Streams, InitializeBySender(s) PROVE Abstract!Next
    <3>1. PICK total \in Totals, chunk \in Chunks, start \in Starts, interval \in Intervals :
            Initialize(s, total, chunk, start, interval)
      BY <2>3 DEF InitializeBySender
    <3> DEFINE st == Initialized(s, total, chunk, start, interval)
               d  == [total |-> total, chunk |-> chunk, paid |-> 0]
    <3>2. /\ stream[s] = Blank(s)
          /\ st.total_amount = total /\ st.chunk_amount = chunk /\ st.sent_amount = 0
          /\ total \in 1..U64Max /\ chunk \in 1..U64Max
          /\ stream' = [stream EXCEPT ![s] = st]
      BY <1>2, <3>1, InitializeFacts
    <3> HIDE DEF st
    <3>3. /\ stream'[s] = st
          /\ \A t \in Streams \ {s} : stream'[t] = stream[t]
      BY <1>2, <3>2 DEF IInv, TypeOK
    <3>4. DealOf(s) = Abstract!NoDeal
      BY <2>1, <3>2, BlankFacts DEF DealExact, Abstract!NoDeal
    <3>5. DealOf(s)' = d
      BY <2>1, <3>2, <3>3 DEF DealExact
    <3>6. deal' = [deal EXCEPT ![s] = d]
      BY <2>2, <3>3, <3>5
    <3>7. Abstract!Fund(s)
      BY <3>2, <3>4, <3>6 DEF Abstract!Fund
    <3>8. QED
      BY <3>7 DEF Abstract!Next
  <2>4. ASSUME NEW s \in Streams, ReleaseByAnyone(s) PROVE Abstract!Next
    <3>1. PICK vault \in Streams, dest \in Accounts, index \in 0..stream[s].max_chunks :
            Release(s, vault, dest, index)
      BY <2>4 DEF ReleaseByAnyone
    <3> DEFINE st     == stream[s]
               amount == next_amount(st)
               d      == [DealOf(s) EXCEPT !.paid = @ + amount]
    <3>2. /\ st \in Stream(Accounts)
          /\ validate_invariants(st) /\ st.status = "Active" /\ CanAdvance(st)
          /\ stream' = [stream EXCEPT ![s] = Released(st)]
      BY <1>2, <3>1, ReleaseFacts
    <3>3. /\ Released(st).total_amount = st.total_amount
          /\ Released(st).chunk_amount = st.chunk_amount
          /\ Released(st).sent_amount = st.sent_amount + amount
      BY <3>2, ReleasedFacts
    <3>4. /\ st.sent_amount < st.total_amount
          /\ amount = Lesser(st.total_amount - st.sent_amount, st.chunk_amount)
      BY <3>2, ActiveFacts
    <3> HIDE DEF amount
    <3>5. /\ stream'[s] = Released(st)
          /\ \A t \in Streams \ {s} : stream'[t] = stream[t]
      BY <1>2, <3>2 DEF IInv, TypeOK
    <3>6. DealOf(s) = [ total |-> st.total_amount, chunk |-> st.chunk_amount,
                        paid  |-> st.sent_amount ]
      BY <2>1 DEF DealExact
    <3>7. DealOf(s)' = [ total |-> st.total_amount, chunk |-> st.chunk_amount,
                         paid  |-> st.sent_amount + amount ]
      BY <2>1, <3>3, <3>5 DEF DealExact
    <3>8. DealOf(s)' = d
      BY <3>6, <3>7
    <3>9. deal' = [deal EXCEPT ![s] = d]
      BY <2>2, <3>5, <3>8
    <3>10. amount = Abstract!Due(DealOf(s))
      BY <3>4, <3>6 DEF Abstract!Due, Lesser
    <3>11. deal[s] = DealOf(s) /\ DealOf(s).paid < DealOf(s).total
      BY <3>4, <3>6
    <3>12. deal' = [deal EXCEPT ![s].paid = @ + Abstract!Due(deal[s])]
      BY <3>9, <3>10, <3>11
    <3>13. Abstract!Pay(s)
      BY <3>11, <3>12 DEF Abstract!Pay
    <3>14. QED
      BY <3>13 DEF Abstract!Next
  <2>5. CASE UNCHANGED stream
    <3>1. \A t \in Streams : DealOf(t)' = DealOf(t)
      BY <2>1, <2>5 DEF DealExact
    <3>2. QED
      BY <3>1
  <2>6. ASSUME Environment PROVE UNCHANGED stream
    BY <2>6 DEF Environment, TokenTransfer, CloseAccount, CreateAccount, Tick
  <2>7. QED
    BY <1>2, <2>3, <2>4, <2>5, <2>6 DEF Next, vars
<1>3. QED
  BY <1>1, <1>2, Invariance, PTL DEF Spec, Abstract!Spec, ImplementsPaymentStream

\* What the promise amounts to, for this program's deals.
Promise == INSTANCE PaymentStreamProofs
  WITH Amounts <- 1..U64Max, deal <- [s \in Streams |-> DealOf(s)]

\* A recipient has been paid whole chunks, or everything, and never more.
THEOREM NativePaysFullChunks == Spec => []Promise!InFullChunks
<1>1. 1..U64Max \subseteq Nat \ {0}
  OBVIOUS
<1>2. Promise!Spec => []Promise!InFullChunks
  BY <1>1, Promise!PaidInFullChunks
<1>3. Abstract!Init <=> Promise!Init
  BY DEF Abstract!Init, Promise!Init, Abstract!NoDeal, Promise!NoDeal
<1>4. Abstract!Next <=> Promise!Next
  BY DEF Abstract!Next, Promise!Next, Abstract!Fund, Promise!Fund, Abstract!Pay, Promise!Pay,
         Abstract!PayAndRetire, Promise!PayAndRetire, Abstract!Due, Promise!Due,
         Abstract!NoDeal, Promise!NoDeal
<1>5. QED
  BY <1>2, <1>3, <1>4, Refinement, PTL DEF ImplementsPaymentStream, Abstract!Spec, Promise!Spec
=============================================================================
