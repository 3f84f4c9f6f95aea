---------------------------- MODULE NativeStream -----------------------------
(***************************************************************************)
(* The native program on its chain: stream accounts, the token accounts    *)
(* they move tokens between, and the clock.                                *)
(*                                                                         *)
(* Source: native/program/src/instructions/{initialize,release}.rs,        *)
(* state/mod.rs (through NativeState) and token.rs.                        *)
(*                                                                         *)
(* A transaction is atomic: a handler that returns an error changes        *)
(* nothing, and neither does the no-op path of release, so both are        *)
(* stuttering steps and an action here is a handler's successful path.     *)
(* The guards are kept as operators (CanRelease, IsNoop) because callers   *)
(* tell the paths apart.                                                   *)
(*                                                                         *)
(* A stream is named by its PDA, hence by its seeds: SenderOf[s] and       *)
(* RecipientOf[s] are fixed by s.  There is one mint, and a token account  *)
(* is named by its owner (the ATA of that owner), so ledger[s] is the      *)
(* vault of stream s.  A recipient may itself be a stream address, but not *)
(* its own: the recipient is one of the seeds hashed into the address.     *)
(*                                                                         *)
(* Bounds: MaxTime caps the clock; Totals, Chunks, Starts and Intervals    *)
(* are the inputs senders choose; Payees are the accounts that transfers   *)
(* made outside the program may credit.                                    *)
(***************************************************************************)
EXTENDS NativeState

CONSTANTS
  Streams, Wallets,        \* stream PDAs; owners of ordinary token accounts
  SenderOf, RecipientOf,   \* the seeds of each stream
  InitialBalance,          \* tokens of each wallet at the start
  Payees,                  \* destinations of transfers outside the program
  Totals, Chunks, Starts, Intervals,
  MaxTime

Accounts == Wallets \cup Streams

ASSUME AccountsAssumption ==
  /\ Streams \cap Wallets = {}
  /\ SenderOf \in [Streams -> Wallets]
  /\ RecipientOf \in [Streams -> Accounts]
  /\ \A s \in Streams : RecipientOf[s] # s
  /\ InitialBalance \in [Wallets -> Nat]
  /\ Payees \subseteq Accounts

ASSUME InputAssumption ==
  /\ Totals \subseteq U64
  /\ Chunks \subseteq U64
  /\ Starts \subseteq I64
  /\ Intervals \subseteq I64
  /\ MaxTime \in Nat
  /\ MaxTime <= I64Max

VARIABLES
  stream,    \* the stream account at each PDA; Blank if there is none
  ledger,    \* the balance of each token account
  closed,    \* wallets whose token account is closed at the moment
  gifts,     \* history: tokens put into a vault other than by initialize
  now        \* unix_timestamp of the clock

vars == <<stream, ledger, closed, gifts, now>>

\* No account at this address.
Blank(s) ==
  [ status |-> "Uninitialized", route |-> RecipientOf[s],
    total_amount |-> 0, chunk_amount |-> 0, sent_amount |-> 0,
    executed_chunks |-> 0, max_chunks |-> 0,
    created_at |-> 0, start_timestamp |-> 0,
    next_release_timestamp |-> 0, interval_seconds |-> 0 ]

Init ==
  /\ stream = [s \in Streams |-> Blank(s)]
  /\ ledger = [a \in Accounts |-> IF a \in Wallets THEN InitialBalance[a] ELSE 0]
  /\ closed = {}
  /\ gifts = [s \in Streams |-> 0]
  /\ now = 0

-----------------------------------------------------------------------------
(* The token program. *)

Move(from, to, amount) ==
  LET debited == [ledger EXCEPT ![from] = @ - amount]
  IN  ledger' = [debited EXCEPT ![to] = @ + amount]

\* Tokens that reach account `to' are a gift if it is the vault of a stream.
Credit(to, amount) ==
  gifts' = [s \in Streams |-> IF s = to THEN gifts[s] + amount ELSE gifts[s]]

\* A wallet sends tokens to any payee, outside the program.
TokenTransfer(from, to, amount) ==
  /\ from \notin closed
  /\ to \notin closed
  /\ amount <= ledger[from]
  /\ Move(from, to, amount)
  /\ Credit(to, amount)
  /\ UNCHANGED <<stream, closed, now>>

\* A wallet closes its empty token account; anyone may create it again.
CloseAccount(w) ==
  /\ w \notin closed
  /\ ledger[w] = 0
  /\ closed' = closed \cup {w}
  /\ UNCHANGED <<stream, ledger, gifts, now>>

CreateAccount(w) ==
  /\ w \in closed
  /\ closed' = closed \ {w}
  /\ UNCHANGED <<stream, ledger, gifts, now>>

Tick ==
  /\ now < MaxTime
  /\ now' = now + 1
  /\ UNCHANGED <<stream, ledger, closed, gifts>>

-----------------------------------------------------------------------------
(* initialize *)

\* (Mutated form: initialize does not look at the account.)
AccountFree_Unchecked(s) == TRUE

\* No account at the PDA yet: no lamports, no data, system-owned.
AccountFree(s) == stream[s].status = "Uninitialized"

\* start_timestamp = 0 asks for the current time.
StartTime(start) == IF start = 0 THEN now ELSE start

Initialized(s, total, chunk, start, interval) ==
  [ status |-> "Active", route |-> RecipientOf[s],
    total_amount |-> total, chunk_amount |-> chunk, sent_amount |-> 0,
    executed_chunks |-> 0, max_chunks |-> ceil_div(total, chunk),
    created_at |-> now, start_timestamp |-> StartTime(start),
    next_release_timestamp |-> next_release_timestamp(StartTime(start), 0, interval),
    interval_seconds |-> interval ]

\* The sender has the whole amount and the vault starts empty.
Funded(s, total) ==
  /\ ledger[SenderOf[s]] >= total
  /\ ledger[s] = 0

CanInitialize(s, total, chunk, start, interval) ==
  /\ total # 0
  /\ chunk # 0
  /\ interval >= 0
  /\ AccountFree(s)
  /\ SenderOf[s] \notin closed
  /\ RecipientOf[s] \notin closed
  /\ Funded(s, total)
  /\ StartTime(start) >= now
  /\ ceil_div(total, chunk) # Err
  /\ next_release_timestamp(StartTime(start), 0, interval) # Err
  /\ validate_invariants(Initialized(s, total, chunk, start, interval))

Initialize(s, total, chunk, start, interval) ==
  /\ CanInitialize(s, total, chunk, start, interval)
  /\ stream' = [stream EXCEPT ![s] = Initialized(s, total, chunk, start, interval)]
  /\ Move(SenderOf[s], s, total)
  /\ UNCHANGED <<closed, gifts, now>>

-----------------------------------------------------------------------------
(* release *)

\* (Mutated form: any open token account of a stream or wallet will do.)
BoundAccounts_AnyDestination(s, vault, dest) ==
  /\ vault = s
  /\ dest \notin closed

\* validate_bound_accounts: the vault and the destination that the caller
\* names are the ones bound at initialization, and are open.
BoundAccounts(s, vault, dest) ==
  /\ vault = s
  /\ dest = stream[s].route
  /\ dest = RecipientOf[s]
  /\ dest \notin closed

\* What every path of release checks first.
Loads(s, vault, dest) ==
  /\ validate_invariants(stream[s])
  /\ BoundAccounts(s, vault, dest)

\* (Mutated form: due one chunk early.)
Due_Early(s) ==
  now >= stream[s].next_release_timestamp - stream[s].interval_seconds

\* next_release_timestamp has come.
Due(s) == now >= stream[s].next_release_timestamp

\* (Mutated form: the tokens move but the account is not updated.)
Released_Unstored(st) == st

\* The stream after its next chunk.
Released(st) ==
  LET sent     == checked_add(st.sent_amount, next_amount(st))
      executed == checked_add(st.executed_chunks, 1)
  IN  [st EXCEPT
         !.sent_amount = sent,
         !.executed_chunks = executed,
         !.next_release_timestamp =
             next_release_timestamp(st.start_timestamp, executed, st.interval_seconds),
         !.status = IF sent = st.total_amount THEN "Completed" ELSE @]

\* (Mutated form: only a stream that is still active absorbs a replay.)
IndexStale_ActiveOnly(s, index) ==
  /\ index < stream[s].executed_chunks
  /\ stream[s].status = "Active"

\* The account already shows this chunk as released.
IndexStale(s, index) ==
  \/ index < stream[s].executed_chunks
  \/ /\ index = stream[s].executed_chunks
     /\ stream[s].status = "Completed"

\* (Mutated form: the index is not compared with the account.)
IndexCurrent_AnyIndex(s, index) == stream[s].status = "Active"

IndexCurrent(s, index) ==
  /\ index = stream[s].executed_chunks
  /\ stream[s].status = "Active"

\* The chunk's amount, against the exact balance that the vault must hold.
AmountReady(s) ==
  /\ next_amount(stream[s]) # 0
  /\ ledger[s] = remaining(stream[s])
  /\ ledger[s] >= next_amount(stream[s])

\* (Mutated form: the last chunk is out of bounds.)
WithinBounds_Strict(st) ==
  /\ Released(st).sent_amount <= st.total_amount
  /\ Released(st).executed_chunks < st.max_chunks

WithinBounds(st) ==
  /\ Released(st).sent_amount <= st.total_amount
  /\ Released(st).executed_chunks <= st.max_chunks

\* No checked operation fails and the result passes store's validation.
CanAdvance(st) ==
  \E next \in {Released(st)} :
    /\ next.sent_amount # Err
    /\ next.executed_chunks # Err
    /\ next.next_release_timestamp # Err
    /\ WithinBounds(st)
    /\ validate_invariants(next)

\* release returns Ok without doing anything.
IsNoop(s, vault, dest, index) ==
  /\ Loads(s, vault, dest)
  /\ IndexStale(s, index)

\* release pays a chunk.
CanRelease(s, vault, dest, index) ==
  /\ Loads(s, vault, dest)
  /\ IndexCurrent(s, index)
  /\ Due(s)
  /\ AmountReady(s)
  /\ CanAdvance(stream[s])

Release(s, vault, dest, index) ==
  /\ CanRelease(s, vault, dest, index)
  /\ Move(vault, dest, next_amount(stream[s]))
  /\ Credit(dest, next_amount(stream[s]))
  /\ stream' = [stream EXCEPT ![s] = Released(stream[s])]
  /\ UNCHANGED <<closed, now>>

-----------------------------------------------------------------------------

\* Anyone may call release with any vault, destination and index.
ReleaseByAnyone(s) ==
  \E vault \in Streams, dest \in Accounts, index \in 0..stream[s].max_chunks :
    Release(s, vault, dest, index)

InitializeBySender(s) ==
  \E total \in Totals, chunk \in Chunks, start \in Starts, interval \in Intervals :
    Initialize(s, total, chunk, start, interval)

Environment ==
  \/ \E from \in Wallets, to \in Payees :
        \E amount \in 1..ledger[from] : TokenTransfer(from, to, amount)
  \/ \E w \in Wallets : CloseAccount(w) \/ CreateAccount(w)
  \/ Tick

Next ==
  \/ \E s \in Streams : InitializeBySender(s) \/ ReleaseByAnyone(s)
  \/ Environment

Spec == Init /\ [][Next]_vars

-----------------------------------------------------------------------------
(* Properties *)

\* The types of the variables.
TypeOK ==
  /\ stream \in [Streams -> Stream(Accounts)]
  /\ ledger \in [Accounts -> Nat]
  /\ closed \subseteq Wallets
  /\ gifts \in [Streams -> Nat]
  /\ now \in 0..MaxTime

\* A vault holds exactly what its stream has not released yet, plus what was
\* put there by others: release.rs keeps sent_amount and the vault in step,
\* whatever the interleaving of streams that pay into one another's vaults.
VaultExact ==
  \A s \in Streams :
    ledger[s] = stream[s].total_amount - stream[s].sent_amount + gifts[s]

\* Chunk k is never paid before start + k * interval: the drift-free schedule
\* of state/mod.rs is what release's due check enforces for every chunk.
ScheduleRespected ==
  \A s \in Streams :
    stream[s].executed_chunks > 0 =>
      now >= stream[s].start_timestamp
             + (stream[s].executed_chunks - 1) * stream[s].interval_seconds

\* No timestamp of the stream's schedule, the one after its last chunk
\* included, exceeds i64, and neither does the number of chunks.
ScheduleFits(s) ==
  /\ stream[s].max_chunks <= I64Max
  /\ stream[s].start_timestamp
       + stream[s].max_chunks * stream[s].interval_seconds <= I64Max

\* A stream is owed a chunk that its recipient can take.
Owed(s) ==
  /\ stream[s].status = "Active"
  /\ Due(s)
  /\ stream[s].route \notin closed

\* If nothing but initialize funded the vault and the schedule fits, then an
\* owed chunk is released to whoever asks for the index the account shows: no
\* guard of release, nor the validation in store, can strand a stream halfway.
DueReleaseSucceeds ==
  \A s \in Streams :
    Owed(s) /\ gifts[s] = 0 /\ ScheduleFits(s) =>
      CanRelease(s, s, stream[s].route, stream[s].executed_chunks)

\* release.rs:77: the second condition is needed.  A schedule that does not fit
\* is accepted and paid chunk by chunk, but never to the end, whoever runs it.
UnfitNeverCompletes ==
  \A s \in Streams :
    stream[s].start_timestamp + stream[s].max_chunks * stream[s].interval_seconds > I64Max
      => stream[s].status # "Completed"

\* What a sender can see to before it calls initialize.
Prepared(s, total, chunk, start, interval) ==
  /\ total > 0
  /\ chunk > 0
  /\ interval >= 0
  /\ StartTime(start) >= now
  /\ ledger[SenderOf[s]] >= total
  /\ SenderOf[s] \notin closed
  /\ RecipientOf[s] \notin closed

\* initialize.rs:67: at an address that nobody used, or sent tokens to, before,
\* a sender that has seen to all this is not refused: no sum overflows and the
\* new account passes its own validation, whatever the amounts and times.
FreshInitializeSucceeds ==
  \A s \in Streams :
    stream[s].status = "Uninitialized" /\ gifts[s] = 0 =>
      \A total \in Totals, chunk \in Chunks, start \in Starts, interval \in Intervals :
        Prepared(s, total, chunk, start, interval) =>
          CanInitialize(s, total, chunk, start, interval)

\* README.md:68 without those two conditions.
AnyRunnerCanRelease ==
  \A s \in Streams :
    Owed(s) => CanRelease(s, s, stream[s].route, stream[s].executed_chunks)

\* release.rs:4-5: submitting an index that was released before is always a
\* successful no-op.
ReplayNeverFails ==
  \A s \in Streams : \A index \in 0..stream[s].max_chunks :
    IndexStale(s, index) => IsNoop(s, s, RecipientOf[s], index)

\* Whenever tokens leave a vault, it is the next chunk of its stream, exactly that
\* amount, all of it to the recipient among the stream's seeds, and the index
\* advances in the same step; no other account is touched.  (That no index
\* advances without its payment is VaultExact's part.)
ExactPayment(s) ==
  LET amount == next_amount(stream[s])
  IN  /\ amount > 0
      /\ ledger'[s] = ledger[s] - amount
      /\ ledger'[RecipientOf[s]] = ledger[RecipientOf[s]] + amount
      /\ \A a \in Accounts \ {s, RecipientOf[s]} : ledger'[a] = ledger[a]
      /\ stream'[s].sent_amount = stream[s].sent_amount + amount
      /\ stream'[s].executed_chunks = stream[s].executed_chunks + 1
      /\ \A t \in Streams \ {s} : stream'[t] = stream[t]

PaymentExact ==
  [][\A s \in Streams : ledger'[s] < ledger[s] => ExactPayment(s)]_vars

\* What a deal with stream s amounts to, told by the vault's balance.
DealOf(s) ==
  [ total |-> stream[s].total_amount,
    chunk |-> stream[s].chunk_amount,
    paid  |-> stream[s].total_amount + gifts[s] - ledger[s] ]

Abstract == INSTANCE PaymentStream
  WITH Amounts <- 1..U64Max, deal <- [s \in Streams |-> DealOf(s)]

\* The native program implements PaymentStream: what has left a vault is what
\* the deal says was paid.
ImplementsPaymentStream == Abstract!Spec
=============================================================================
