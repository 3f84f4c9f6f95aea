# Payment streams: models, checks and proofs

This directory specifies the two payment-stream programs of the repository (`native/` and
`magicblock/`) and the actors around them in TLA+. TLC checks small instances; TLAPS proves the safety
results of both programs, of the runners and of both clients for every value of the constants. `PROJECT.json` lists the
components, the runs, the definitions with the source lines they model, the hazards and the theorems.

## The system

A sender locks `total` tokens; from then on the recipient is paid `min(remaining, chunk)` again and
again until the total is paid, without another signature of the sender.

| Component | State | Operations | Modelled by |
| --- | --- | --- | --- |
| Native program | stream accounts (amounts, index, schedule, status), vault balances | `initialize`, `release(index)` | `NativeState`, `NativeStream` |
| Native runner, `client/index.ts run` | loop position, index read, attempt number | read account, submit, retry, give up | `NativeKeeper` |
| Native `setup`, `init-stream`, `run`, `demo` and their files | state file, key files | create mint and accounts, initialize, save, load, replace a key | `NativeClient` |
| MagicBlock program, base layer | stream account and its owner, escrow | `initialize`, `delegate`, `settle_chunk`, `finalize`, undelegation callback | `MagicState`, `MagicStream` |
| MagicBlock program, rollup | the ER's copy of the stream | `schedule`, `release` | `MagicStream` |
| DLP, ER validator, crank, committor | delegated copies, task, queue of intents, pending actions | clone, tick, commit, undelegate, call action | `MagicStream` (external, from use) |
| MagicBlock client | `config.json` with saved amounts and balances, `watch`'s counter | `initUsdc` run again, `initStream`, `watch` (`schedule` in `MagicStream`) | `MagicClient` |
| Byte layouts: instruction data, action data, accounts | – | encode, decode, pack, unpack | `Bytes`, `NativeWire`, `MagicWire` |
| The first `initUsdc`, `mint`, PDAs, scripts, lock files | – | – | left out, see below |

How they interact. Native: runners read the stream account over RPC and submit transactions; the
program is the only one that moves vault tokens; anybody may send tokens *into* a vault, close or
create token accounts, and run another runner. MagicBlock: `initStream` initializes and delegates;
the ER clones the account; `schedule` registers a crank task; each tick calls `release`, which hands
the committor an *intent* (the account to commit to the base layer and an action to call there); the
DLP calls `settle_chunk` after an ordinary commit, and `finalize` after the last commit and
undelegation. Both clients are separate processes that know each other, and the chain, through a file:
`init-stream` writes what `run` or `watch` later trusts.

What is hard: the race of runners between reading an index and landing; answers lost while the
transaction is still in flight; guards on *exact* balances of accounts anyone can pay into; the last,
shorter chunk, where index, amount and status must finish together; i64 schedule arithmetic; on
MagicBlock, actions that are called late, twice or never, a crank with no spare iteration, a
rollup that restarts, and an address that is used again after its stream closed. In the clients: files
that are read before an await and written after it, by commands that overlap or die in between, and
that are empty while they are being written; keys that are replaced when they cannot be read; offsets and layouts that are written down twice; and a
watch that knows nothing but a balance.

What makes each component correct: the native program pays along the bound route, one chunk per
index, never early, keeps each vault exact and cannot get stuck; a runner never pays twice, never
mistakes a failure for a payment, and finishes; the MagicBlock program never pays ahead of what the
crank authorized, moves an action's tokens once, and pays and closes a scheduled stream; the files
never speak of a stream that is not there, and what `watch` prints was paid.

## Modules

- `PaymentStream`: the promise both programs make, and nothing else: `Fund`, `Pay`, `PayAndRetire`
  over one variable `deal`. It knows no custody account, schedule, keeper or crank.
- `NativeState`: the account record, the checked arithmetic (`ceil_div`, `next_release_timestamp`)
  and `validate_invariants`, which `unpack` and `pack` run. Integer widths are the constants `U64Max`
  and `I64Max`; a failed checked operation is `Err`.
- `NativeStream`: the program on its chain. `stream` holds the accounts, `ledger` the token balances
  (a token account is named by its owner, so `ledger[s]` is the vault of stream `s`), `closed` the
  wallets without token account, `now` the clock, `gifts` is history. `Initialize` and `Release` are
  the two handlers' successful paths; their guards are `CanInitialize`, `CanRelease`, and `IsNoop`
  for release's silent success. A failed or no-op transaction changes nothing and is a stutter.
  `ReleaseByAnyone` lets any caller name any vault, destination and index.
- `NativeKeeper` extends `NativeStream` with the runners: `runner` has the program counter and local
  variables of each, `orphans` the transactions nobody waits for any more.
- `MagicState`, `MagicStream`: the MagicBlock account and one stream address on both chains. `owner`
  and `base` are the account on the base layer, `er` the rollup's copy, `crank` the task's iterations,
  `intents`, `actions`, `delivered` the committor's queue and the actions to call, called or given up.
- `Bytes`: buffers as sets of encoded values with their offset and width; a read that does not meet
  what was written is `Misread`. `NativeWire` and `MagicWire` write down each layout twice, as its two
  sides do: the client's encoders and offsets, the program's decoders, `pack` and `unpack`; on
  MagicBlock also the action that `release` writes and `settle_chunk` and `finalize` read.
- `NativeClient` extends `NativeStream` with the commands and their files. `file` is the state file,
  `key` and `readable` the key files, `generated` the keys made so far, `proc` each process with the copy
  of the file it works on, `pending` the initialize transactions nobody waits for. Every `loadOrCreate` is
  awaited on its own, and one that fails to read goes through `GenerateKey` and `WriteKey`, so that two
  commands may each make a key. `saveState` is `OpenFile`, after which the file is empty, and
  `SaveSetup` or `SaveInit`; two writers may leave a file that cannot be parsed (`Write`). A setup creates a mint, so a stream stands
  for its mint. The program's arguments are decoded from the bytes the client encodes (`InitArgs`,
  `expected_chunk_index`), and `Round` takes the index from the account's bytes. The retries inside a
  round are `NativeKeeper`'s and are one step here.
- `MagicClient` extends `MagicStream` with any number of processes that run `initStream` once (`init`,
  over `Inits`), `config.json` (`config`; `intact` while it can be parsed) and `watch`. Both balance reads,
  the transaction, the emptying of the file and its writing are steps of their own; `recipient` is the recipient's balance, `count` and `foreign` are history. Its transaction runs
  `initialize` and `delegate` in one step (`Create` with the DLP as owner).
- `PaymentStreamProofs`, `NativeStreamProofs`, `NativeKeeperProofs`, `NativeClientProofs`,
  `MagicStreamProofs`, `MagicClientProofs`: the theorems about the module each is named after;
  `MagicSerialProofs` those about `MagicStream` that hold only if the committor works off one intent
  after the other. The proofs of a module that
  extends another extend the other's proofs: a step of runners or commands is shown to be a step of the
  program, or is split into what it does to the chain and what it does to the client, so that the
  program's invariant is kept without a second proof. `BytesProofs` has what `Read` returns. Both
  programs' proofs instantiate `PaymentStreamProofs`, so what holds of every promise holds of them.
- `MCNativeStream`, `MCNativeKeeper`, `MCNativeClient`, `MCMagicStream`, `MCMagicClient`: constants of the
  small instances.

Operators whose comment begins "Mutated form" are variants of the operator after them, each with one
plausible bug. No specification uses them: they document what each property would catch, and are
listed with the property in `PROJECT.json` under `mutants`.

## Runs

`tlc -config X.cfg M`; states are distinct states.

| Run | Config | Result |
| --- | --- | --- |
| `native_widths` | `MCNativeWidths` (13,815) | chunks are never early (`ScheduleRespected`); an owed chunk of a stream whose vault only `initialize` funded and whose schedule fits can be released (`DueReleaseSucceeds`), and one whose schedule does not fit is never completed (`UnfitNeverCompletes`); `initialize` refuses no prepared sender at a fresh address (`FreshInitializeSucceeds`) |
| `native_chain` | `MCNativeChain` (118,699) | vaults exact (`VaultExact`), payments exact (`PaymentExact`), refinement of `PaymentStream` |
| `native_deposit` | `MCNativeDeposit` | violation of `AnyRunnerCanRelease` by a transfer into the vault |
| `native_replay` | `MCNativeReplay` | violation of `ReplayNeverFails` by a closed recipient account |
| `keeper_race` | `MCKeeperRace` (98,280) | `IndexPaidOnce`, `NeverGivesUp`, `ConfirmedMeansExecuted` |
| `keeper_progress` | `MCKeeperProgress` (34,365) | `StreamCompletes` under fairness, with runners that give up and restart |
| `native_client` | `MCClientFiles` (103,492) | `FileNeverAhead`, `OnlySetupForgets`, `WireAgrees`, and `RecordedCompletes` under fairness |
| `magic_deposit` | `MCMagicDeposit` (126,478) | `UnauthorizedStays` and `ActionTransfersOnce`, with every kind of fault, deposits by others and an address that is used again |
| `magic_watch` | `MCMagicClient` (309,675) | `PrintedIsPaid`, `WatchExplains`, `DoneMeansClosed`, `SavedIsCreated`, `MagicWireAgrees`, `WatchEnds` under fairness, and refinement of `PaymentStream`, with every kind of fault |
| `magic_progress` | `MCMagicProgress` (5,126) | `CrankExact`, `DeliveredActionPays`, `NeverStranded`, `StreamFinishes` under fairness |
| `magic_replay` | `MCMagicReplay` | violation of `ReplayGuardIsExact` by a deposit of one chunk |
| `magic_widths` | `MCMagicWidths` | violation of `EveryStreamSchedulable` by a sum that overflows, for a stream of four chunks |

**Bounds and why they suffice.** `native_widths` uses 3-bit integers and inputs at zero, one, the
largest value, and below and above it, so totals that divide evenly and do not, chunks larger than
the total, schedules that just fit and just do not, all occur; behaviour depends on these relations
only. `native_chain` has two streams because an interaction goes through one route from a stream to a
vault, and lets balances run dry. The keeper runs have two runners (races are between an index read
and a landing of somebody else's transaction, or one's own orphan) and up to two faults. `keeper_race`
has three attempts against two faults, as the eight attempts of the code stand against fewer faults;
its chunks are always due and the account stays open, as with streams made by `init-stream`.
`keeper_progress` has fewer attempts, an interval and an account that closes, so runners do give up.
The MagicBlock runs have up to ten chunks, two streams in succession (`Purse`), and up to two faults:
enough for a lost action followed by a repeated one, or a restart followed by an old action.
`native_client` has two mints, one process that runs `demo` (so `setup`, `init-stream` and `run` in a
row), one that runs `init-stream` and one that runs `run`, and one fault: every pair of commands
overlaps, except two setups, and a second fault would only repeat what one does to a file, a key or a
process. Setups that race for a key, or for the file, are left to the proofs, which bound neither the
processes nor the keys.
`magic_watch` has two runs of `initStream`, which may overlap or follow one another, two streams of two
chunks, the second shorter, one fault of the chains or of the client, and one foreign change of the
recipient's balance, so a saved config may belong to the stream before, and a watch may outlive its stream.
Transactions without an observer are a set: two lost ones that ask for the same are one.
`U64Max` leaves room for the sum under `remaining_iterations` except in `MCMagicWidths`, where that
overflow is the question; `I64Max` is as large there, so that no count of iterations exceeds it.

**Deadlock** is checked in `native_client`, where a command can always be started. It is not in the
other runs: those systems may rightly stop, when streams are complete and the bounded clock has run out.

**Fairness.** `FairKSpec`: a runner's process takes its next step and is started again when it
stopped ("Anyone can replace it", `README.md:14`); the cluster executes what it accepted; time
passes. Nothing is assumed of the sender or of the recipient; `StreamCompletes` has as premises that
the account stays open from some time on and that the bounded clock reaches the last due time.
`FairCSpec` of `NativeClient`: somebody starts `run` again and again, and lets it run; nobody has to go
on with `setup` or `init-stream`. `RecordedCompletes` has as premises that the file names the stream
from some time on and that the keeper's key is readable and was given lamports. `FairCSpec` of
`MagicClient`: `watch` is started again and polls, whatever its timeout was; nothing is assumed of
`initStream` or of the chains. `FairSpec` of `MagicStream`: the ER clones what is delegated and runs its task, the committor works
off its queue. Nobody is required to initialize, delegate or schedule.

**What the MagicBlock results depend on.** `DeliveredActionPays` needs a committor that finishes an
intent before it commits the next (`Serial`) and loses no action; it does not matter what the crank
loses or repeats, or how often the rollup restarts and authorizes chunks again: `magic_progress` has no such
fault, the theorem `ActionsPay` has them all. `NeverStranded` and
`StreamFinishes` need, besides, a crank that loses no iteration and no restart. Without `Serial`, a later commit changes `sent_amount` under a waiting action,
which then fails for good and leaves the escrow too full for every later one: money is safe
(`UnauthorizedStays`, `ActionTransfersOnce` hold in every regime) but stuck. After a restart of the
ER with `scheduled` committed, nothing schedules the stream again; that too is safe but stuck.

## Where code and text disagree

1. `native/program/src/instructions/release.rs:65` wants the vault to hold exactly what remains, so a
   transfer into the vault blocks a stream for ever; `README.md:68-69` says another runner "can restore
   liveness".
2. `release.rs:77-82` computes the timestamp after the last chunk and fails if it exceeds i64, which
   `initialize.rs:115-116` does not rule out: such a stream pays all chunks but the last
   (`UnfitNeverCompletes`, theorem `Overflow`), whichever runner `README.md:68-69` has take over.
3. `release.rs:45` validates token accounts before the index, so a replay can revert although
   `release.rs:4-5` says it never does.
4. `magicblock/program/src/instructions/settle_chunk.rs:94-99`: a deposit of one chunk re-arms a settled
   action, although lines 92-93 say it "cannot transfer twice".
5. `magicblock/program/src/state/mod.rs:174` overflows before it divides, so some streams that were
   funded and delegated can never be scheduled. (`schedule.rs:64` also refuses more than `i64::MAX`
   iterations. That no text denies; the theorem `Schedulable` has it among its hypotheses.)

Things no text denies, but a reader may not expect:

- After a crash, or a lost answer, between lines 74 and 75 of `native/client/index.ts` the stream exists and
  is funded, `run` says "stream is not initialized", and a second `init-stream` fails because the address
  is taken. `OnlySetupForgets` has the premise that nothing failed.
- `init-stream` writes back, at line 75, the file that it read at line 62. If a `setup` saved another one in
  between, and perhaps that setup's stream is recorded by now, the later file is lost; and a setup that
  saves after it makes the file forget the first stream. `OnlySetupForgets` is about a single setup.
- After the same crash at `magicblock/client/app.ts:275-277`, or if an earlier config is still there,
  `watch` measures a stream by another one's amounts and balance. So it does if an `initStream` of an
  earlier stream saves late, over the config of the present one, or if the earlier stream, or somebody
  else, pays the recipient between line 245 and the transaction. `PrintedIsPaid` and the properties beside
  it have the premise that the config was saved for the stream that is there, that the streams before it
  were over when the balance was read, and that nobody else has touched the recipient's account since
  (`Meant`). `SavedIsCreated` has no premise, and says accordingly less.
- A process that dies while it writes `config.json` leaves it empty. Then every command fails to parse it, and
  `initUsdc` would create the mint, which is there, again.

## What is proved

Everything here is for every value of the constants that the named assumptions of the modules
(`WidthAssumption`, `InputAssumption`, `AccountsAssumption`, `KeeperAssumption`, `MagicAssumption`,
`ClientAssumption`) admit; TLC evaluates them in the runs. Where a theorem has a further hypothesis it
is named below, with the reason.

**The native program** (`NativeStreamProofs`), for every set of streams and wallets, every route between
them, every balance, input and integer width:

- `Invariance`: `Spec => []IInv`. `VaultExact` is not inductive as it stands: that `Release` keeps a
  vault exact needs consistent amounts in the stream's account, which needs that the account is blank or
  passes `validate_invariants`, with the route among its seeds (`AccountValid`), which needs the types.
  `IInv` is the conjunction of `TypeOK`, `AccountValid` and the exactness of every vault. The recipient
  of a stream is one of its seeds and hence another account than its vault (`AccountsAssumption`).
- `TypeCorrect` and `Solvency` (`VaultExact`) are parts of `IInv`. `Punctuality` (`ScheduleRespected`)
  relates the account to the clock and is inductive relative to `IInv`.
- `Availability` (`DueReleaseSucceeds`) follows from `IInv` and the lemma `AdvanceFits`: the record after
  one more chunk passes every check of `store`, which is arithmetic about rounding up (`CeilDiv`,
  `ProductMonotone`, `ProductStep`).
- `FreshStart` (`FreshInitializeSucceeds`) is its counterpart for `initialize`: a blank account has an
  empty vault unless somebody put tokens there (`IInv`), and the new record passes its own validation
  (`CeilDivFits`). `Overflow` (`UnfitNeverCompletes`) shows that the premise of `Availability` on the
  schedule is needed: the stored timestamp of a completed stream is the one after its last chunk and is an
  i64.
- `Exactness` (`PaymentExact`) and `Refinement` (`ImplementsPaymentStream`) are step properties under
  `IInv`: one lemma per action gives what it does to balances and records, `DealsExact` relates the
  vault's balance to the abstract `paid`.

**The runners** (`NativeKeeperProofs`), for every number of runners, attempts and faults:

- `KeeperInvariance`: `KSpec => []KInv`. `ConfirmedMeansExecuted` fails for a runner that submits an index
  the stream does not have, since `release` answers it with a silent success once the stream is complete.
  So `KInv` says of every runner that the index it submits is `Known`: not ahead of the account, and
  that of a chunk. This survives other runners because the account never goes back (`NeverBack`).
- `KeeperTypes`, `NoIndexTwice` (`IndexPaidOnce`) and `ConfirmedIsExecuted` follow, and
  `KeeperUsesChain`: `KSpec => Spec`, so all theorems about the program hold under runners that race and fail.
- `RetriesSuffice` (`NeverGivesUp`) has the hypothesis `Undisturbed`: interval 0 and start 0, which is all
  that `init-stream` ever asks for; amounts whose schedule fits i64; nobody pays into the vault; the
  recipient is a stream's account or a wallet other than the sender's that holds something, and a token
  account that holds something cannot be closed; more attempts than faults. Without them runners do
  give up (`keeper_progress`) and releases fail for good (`native_deposit`, `native_replay`). The constants of `keeper_race` satisfy it. The argument: every attempt of a runner that
  failed was spoilt by a fault of its own (`AttemptsCharged`), because a transaction that executes pays
  or is a no-op as long as the stream stays `Payable`.

**The native commands** (`NativeClientProofs`), for every number of processes, streams and faults and
every assignment of commands to processes. `ClientAssumption` says that what the client asks for is
among what a sender may choose, so `ClientUsesChain` holds: `CSpec => Spec`, and all theorems about the
program apply. The invariant has four layers, each preserved under the ones before:

- `ClientTyped`: types, and what each process has in its local variables at each program counter; how many
  keys are generated is not bounded. It gives `ClientTypes`, and with `PackFacts` `WireAgreement` (`WireAgrees`).
- `CopiesTrue`: a copy of the state file with a recorded stream is never wrong, however old. This is what
  makes `FileBehind` (`FileNeverAhead`) inductive, as a file is written from such copies.
- `MintsApart`: until a setup has saved its mint, no file, process or transaction in flight knows it; and
  at most one process is about to record a stream, since only one `initialize` can succeed.
- `NothingLost`: while nothing has failed no transaction is unobserved, and a file that the only process
  about to record the stream has opened is empty until that process writes it. `NothingForgotten`
  (`OnlySetupForgets`) is part of it: with one setup nobody else writes the file after the stream exists.

**The MagicBlock program** (`MagicStreamProofs`), for all amounts, kinds and numbers of faults:

- `MagicInvariance`: `Spec => []MInv`. The base layer pays by data that release wrote on the rollup, that
  waited in the committor's queue and that a restart may have overtaken. `MInv` says that such data is
  `Linked` wherever it is: of the same deal, not ahead of `authorized`, active exactly while something
  remains; and that an account that is not delegated has left nothing on the rollup.
- `MagicTypes` (`MTypeOK`: the types, and no account on either chain has sent more than its total),
  `EscrowSolvent` (`UnauthorizedStays`), `TransfersOnce` (`ActionTransfersOnce`). The last
  needs `PaidOut`: once the chunk that ends at `e` is paid, the escrow is too low for it.
- `MagicRefinement` (`ImplementsPaymentStream`) has the hypothesis `Gifts = {}`: with a deposit it is
  false, which is what finding 4 shows. `MagicPaysFullChunks` follows from it.
- `CrankCounts` (`CrankExact`) has the hypothesis that no iteration is lost or made up and that the rollup
  does not restart (`CrankFaultless`), the property's own premise ("executed exactly once"); actions may
  still be lost and repeated. Its invariant says when a copy without task cannot be marked as scheduled
  (`CrankSound`), and of the queue that only its first intent can be committed and unfinished (`QueueSound`).
- `Schedulable` (`EveryStreamSchedulable`) has the hypothesis `IterationsFit`: the sums under the division
  fit u64 and the totals i64. It says that what finding 5 shows is the only obstacle: there are never more
  iterations than base units (`IterationsBounded`), and a deal keeps the amounts it was created with.

**One action at a time** (`MagicSerialProofs`). The hypothesis `OneAtATime` is the committor of
`magic_progress`: `Serial`, no lost action, no deposits, a recipient that keeps its token account; and if
actions may be called twice, a purse that does not pay for a third stream. Each part is needed: a lost or
overtaken action, a deposit, or a closed account leaves the escrow at a balance that no later action asks
for; and a final action that a repetition overtook stays pending when the account is closed, so that a
third stream could meet it. Without repetitions the number of streams is not bounded.

- `ActionsPay` (`DeliveredActionPays`). Whether an action passes the exact checks depends on what was paid
  when its turn comes, so the invariant `SInv` follows an amount on its way: it is `Covered` if it is
  paid, or committed, or in the queue before whatever builds upon it. `QueueCovered` says that every intent, and
  the rollup's copy, builds upon a covered amount. It survives a restart, after which the queue holds
  chunks that are committed once more: they build upon less than what is paid, and their actions come to
  amounts that have a transfer already (`FundsWhole`). `BaseSettled` and `ActionsTrue` tie the pending action to the
  committed account, `StreamsCounted` counts streams by the purse. `PendingPays` is the core: the action
  finds exactly the balance it asks for, or was paid by a repetition.
- `AlwaysWork` (`NeverStranded`), if also `CrankFaultless`: `Task` says that the scheduled copy is where its
  intents are, that a copy that is through has the final intent last in the queue, and that a stream given
  back has its final action pending; which `PendingPays` shows to pass, and `CrankExact` that a copy that is
  not through has an iteration left.
- `WorkRunsOut`, if `CrankFaultless`: the natural number `Work` falls with every step of the crank and the
  committor, and rises only when a stream becomes scheduled, which happens once until it is undelegated. The two
  together are the safety content of `StreamFinishes`: work never runs out before the stream is closed,
  and always runs out.

**The promise** (`PaymentStreamProofs`): `PaidInFullChunks` shows what any implementation of
`PaymentStream` promises, that no deal is overpaid and none is left between two chunks.
`NativePaysFullChunks` and `MagicPaysFullChunks` carry it over to the programs through their refinements.

**The MagicBlock client** (`MagicClientProofs`), with any number of runs of `initStream`, faults, streams
and changes of the recipient's balance by others:

- `ChainAligned`: nobody pays into the escrow in this model, the escrow is what is left of the deal, and
  what was paid is a number of chunks unless it is all. `settle_chunk` checks a multiple of the chunk.
- `ClientTyped` adds types and that configurations have amounts the client accepted: `ClientTypes`, and
  with `AccountFacts` and `ActionDataFacts` `MagicWireAgreement` (`MagicWireAgrees`). `ClientRefinement`
  (`ImplementsPaymentStream`) needs no more, and no hypothesis.
- `ClientKnows` says what the balance read by `initStream` is worth. As long as it is not used it is
  `Fresh`: the recipient's balance still, if no stream was created since and nobody else touched the
  account. Once saved it is `Booked`: the recipient has it plus what the stream has paid, and the amounts
  are the stream's, if the config is `Meant` for that stream. A config never becomes meant for a later
  stream.
- `WatchTrue`: `PrintedWasPaid`, `NothingUnexplained` and `EndIsClosed` (`PrintedIsPaid`, `WatchExplains`,
  `DoneMeansClosed`) are proved together, from `ClientKnows` and the arithmetic of
  `executionsForReceived` (`ExecutionsFacts`). They have no hypothesis beyond `Meant`.
- `SavedCreated` (`SavedIsCreated`) is the part of `Booked` that does not speak of balances: what a
  process holds after its transaction, and whatever is saved, names a stream that was created, with
  the amounts the program stored as long as that stream is the one that is there.

**Only model-checked.** Liveness (`StreamCompletes`, `RecordedCompletes`, `StreamFinishes`, `WatchEnds`):
fairness and `ENABLED` are beyond the prover. Every invariant and step property of the passing runs is a
theorem. The four runs that expect a violation are counterexamples, with nothing to prove.

## What is not modelled

- PDA and ATA derivation, address fields, error codes and the lists of accounts (`pda.rs`,
  `addresses.ts`, `error.rs`): accounts are named by their seeds. That a handler rejects a wrong account is
  modelled where callers choose it (`BoundAccounts`), or by who may take an action. Little-endian bytes
  are one cell each in `Bytes`, so a wrong byte order is out of reach.
- Lamports, rent, fees, and stream accounts that hold lamports before they are created; of the
  clients' airdrops only that a keeper key was given some.
- Several mints in one `NativeStream`; a stream's accounts are all of one mint, which the code checks first.
- Who signs: `Release` of MagicBlock is taken by the crank only, the actions by the DLP only.
- `bootstrapLocalDlp`, the first `initUsdc` and `mint` of the MagicBlock client: `MagicClient` starts from a config
  they have saved. A crash between the transaction of `initUsdc` and its `saveConfig`
  (`app.ts:168-201`) is listed as a hazard without property: the mint's key is on disk, its account
  exists, and `createAccount` fails for ever.
- The DLP's own instructions (`dlp.ts`), and `setup.sh`, `local.sh`, `txtx.yml`: they install, start and
  stop local processes; what a restart of the ER keeps and loses is in `MagicStream`.

## Plan

1. Done: `NativeState`, `NativeStream`, `PaymentStream`, their proofs; `NativeKeeper`; `MagicState`,
   `MagicStream`.
2. Done: `Bytes`, `NativeWire`, `NativeClient`; `MagicWire`, `MagicClient`; `FreshInitializeSucceeds` and
   `UnfitNeverCompletes`, with their proofs.
3. Done: proofs of every invariant and step property of the runs, and of both refinements.
4. Done: `DeliveredActionPays`, `NeverStranded` and the measure `Work`, under the hypotheses of their runs.
5. The first `initUsdc` and `mint` before `initStream`, with their crash points.
6. Variants of the committor (several intents in flight) and of the clock, if the code grows them.
