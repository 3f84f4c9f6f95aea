----------------------------- MODULE MagicClient -----------------------------
(***************************************************************************)
(* The MagicBlock client: init-stream, which reads the balances, sends the *)
(* one transaction that initializes and delegates the stream, and saves    *)
(* both to config.json; and watch, which infers from the config and the    *)
(* recipient's balance alone which chunks were paid.                       *)
(*                                                                         *)
(* Source: magicblock/client/app.ts (initStream, schedule, watch),         *)
(* index.ts and state.ts, and wire.ts through MagicWire.  The chains are   *)
(* MagicStream; init-usdc and mint have run once.  initStream awaits the   *)
(* network between its two reads, its transaction and its save, and watch  *)
(* between its polls; everything else may happen in between, another run   *)
(* of init-stream included.  No file is locked: saveConfig first empties   *)
(* the file and then writes it.  Whether watch speaks of the               *)
(* stream that is there, and whether its arithmetic fits what the          *)
(* committor does, is not checked by any code.                             *)
(*                                                                         *)
(* Nobody pays into the escrow here.  The recipient's account may receive  *)
(* tokens from elsewhere, or be emptied and closed.                        *)
(*                                                                         *)
(* Bounds: the purse bounds the number of streams, Inits the runs of       *)
(* init-stream; MaxFaults counts crashes and lost answers of the client    *)
(* together with the faults of the chains; MaxForeign the changes to the   *)
(* recipient's balance by others.                                          *)
(***************************************************************************)
EXTENDS MagicStream, MagicWire

CONSTANTS
  Inits,           \* the runs of init-stream, each a process of its own
  ClientFails,     \* BOOLEAN: the client may crash or miss an answer
  MaxForeign

ASSUME ClientAssumption ==
  /\ ClientFails \in BOOLEAN
  /\ MaxForeign \in Nat

VARIABLES
  config,      \* the stream's part of config.json
  intact,      \* JSON.parse accepts config.json
  init,        \* each initStream: program counter and local variables
  watch,       \* watch: program counter and local variables
  pending,     \* transactions of initStream that nobody waits for
  recipient,   \* the recipient's token balance
  count,       \* history: streams initialized so far
  foreign      \* history: changes to the recipient's balance by others

conf       == <<config, intact>>
clientvars == <<conf, init, watch, pending>>
world      == <<recipient, count, foreign>>
allvars    == <<vars, clientvars, world>>

\* What initStream saves.  The last three are history: how many streams were
\* over, and how many foreign changes had been made, when it read the balance,
\* and which stream its transaction created.
Saved ==
  [ total_amount : U64, chunk_amount : U64, initial : Nat,
    over : Nat, foreign : Nat, stream : Nat ]

NothingSaved ==
  [ total_amount |-> 0, chunk_amount |-> 0, initial |-> 0,
    over |-> 0, foreign |-> 0, stream |-> 0 ]

InitState ==
  [pc : {"new", "balance", "send", "save", "write", "ended"}, config : Saved]

New   == [pc |-> "new", config |-> NothingSaved]
Ended == [pc |-> "ended", config |-> NothingSaved]

WatchState == [pc : {"off", "start", "wait", "done", "threw"}, config : Saved, printed : Nat]

CInit ==
  /\ Init
  /\ config = NothingSaved
  /\ intact = TRUE
  /\ init = [i \in Inits |-> New]
  /\ watch = [pc |-> "off", config |-> NothingSaved, printed |-> 0]
  /\ pending = {}
  /\ recipient = 0
  /\ count = 0
  /\ foreign = 0

ClientFault ==
  /\ ClientFails
  /\ faults < MaxFaults
  /\ faults' = faults + 1

-----------------------------------------------------------------------------
(* init-usdc *)

\* Run again, it creates whichever token accounts are missing, in one
\* transaction: finalize has closed the escrow's, which init-stream needs.  Without
\* a config it would create the mint again, which fails.
InitUsdc ==
  /\ intact
  /\ ~TokenAccountsOpen
  /\ open' = {"escrow", "destination"}
  /\ UNCHANGED <<owner, base, escrow, purse, gifts, transfers, ervars, queues, faults>>
  /\ UNCHANGED <<clientvars, world>>

-----------------------------------------------------------------------------
(* init-stream *)

\* How many streams are over.
Over == IF owner = "none" THEN count ELSE count - 1

Become(i, r) == init' = [init EXCEPT ![i] = r]

\* The config is read, the arguments are looked at, and the sender's balance is
\* asked for, which has to cover the total; the check comes after the next await.
AskSender(i, total, chunk) ==
  /\ init[i].pc = "new"
  /\ intact
  /\ 0 < chunk
  /\ chunk <= total
  /\ purse >= total
  /\ Become(i, [ pc |-> "balance",
                 config |-> [ NothingSaved EXCEPT !.total_amount = total,
                                                  !.chunk_amount = chunk ] ])
  /\ UNCHANGED <<vars, conf, watch, pending, world>>

\* (Mutated form: the balance of the last stream is used again.)
AskRecipient_Cached(i) ==
  /\ init[i].pc = "balance"
  /\ Become(i, [ pc |-> "send",
                 config |-> [ init[i].config EXCEPT !.initial = config.initial,
                                                    !.over = Over,
                                                    !.foreign = foreign ] ])
  /\ UNCHANGED <<vars, conf, watch, pending, world>>

\* The recipient's balance.
AskRecipient(i) ==
  /\ init[i].pc = "balance"
  /\ Become(i, [ pc |-> "send",
                 config |-> [ init[i].config EXCEPT !.initial = recipient,
                                                    !.over = Over,
                                                    !.foreign = foreign ] ])
  /\ UNCHANGED <<vars, conf, watch, pending, world>>

\* Interval and fee reserve are valid whatever they are.
Data(c) == initializeStream(c.total_amount, c.chunk_amount, 1, 1)

\* [initialize, topUpActionEscrow, delegate], all or nothing.
Transaction(c) ==
  LET args == InitializeArgs(Data(c))
  IN  /\ IsInitialize(Data(c))
      /\ args.bump = Bump
      /\ args.escrow_bump = EscrowBump
      /\ Create(args.total_amount, args.chunk_amount, "dlp")
      /\ count' = count + 1
      /\ UNCHANGED <<recipient, foreign>>

\* initialize would accept it.
CanLand(c) ==
  /\ owner = "none"
  /\ TokenAccountsOpen
  /\ purse >= c.total_amount
  /\ escrow = 0

SendInit(i) ==
  /\ init[i].pc = "send"
  /\ Transaction(init[i].config)
  /\ Become(i, [pc |-> "save", config |-> [init[i].config EXCEPT !.stream = count + 1]])
  /\ UNCHANGED <<conf, watch, pending>>

\* (Mutated form: the error is swallowed.)
InitFails_Swallowed(i) ==
  /\ init[i].pc = "send"
  /\ ~CanLand(init[i].config)
  /\ Become(i, [init[i] EXCEPT !.pc = "save"])
  /\ UNCHANGED <<vars, conf, watch, pending, world>>

\* The simulation fails, because there is a stream, or the tokens are gone.
InitFails(i) ==
  /\ init[i].pc = "send"
  /\ ~CanLand(init[i].config)
  /\ Become(i, Ended)
  /\ UNCHANGED <<vars, conf, watch, pending, world>>

\* It throws although the transaction is on its way.
LoseAnswer(i) ==
  /\ init[i].pc = "send"
  /\ ClientFault
  /\ pending' = pending \cup {init[i].config}
  /\ Become(i, Ended)
  /\ UNCHANGED <<basevars, ervars, queues, conf, watch, world>>

PendingLands(c) ==
  /\ c \in pending
  /\ pending' = pending \ {c}
  /\ Transaction(c)
  /\ UNCHANGED <<conf, init, watch>>

PendingFails(c) ==
  /\ c \in pending
  /\ pending' = pending \ {c}
  /\ UNCHANGED <<vars, conf, init, watch, world>>

\* writeFile empties the file ...
OpenConfig(i) ==
  /\ init[i].pc = "save"
  /\ config' = NothingSaved
  /\ intact' = FALSE
  /\ Become(i, [init[i] EXCEPT !.pc = "write"])
  /\ UNCHANGED <<vars, watch, pending, world>>

\* ... and then writes it.  What another process wrote in between may be longer
\* and stick out.
SaveConfig(i) ==
  /\ init[i].pc = "write"
  /\ \/ config' = init[i].config /\ intact' = TRUE
     \/ intact /\ config' = NothingSaved /\ intact' = FALSE
  /\ Become(i, Ended)
  /\ UNCHANGED <<vars, watch, pending, world>>

\* The process dies between two awaits.
Crash(i) ==
  /\ init[i].pc \notin {"new", "ended"}
  /\ ClientFault
  /\ Become(i, Ended)
  /\ UNCHANGED <<basevars, ervars, queues, conf, watch, pending, world>>

-----------------------------------------------------------------------------
(* watch *)

\* It throws if nothing is saved, or if the file cannot be parsed.
StartWatch ==
  /\ watch.pc \in {"off", "done", "threw"}
  /\ config # NothingSaved
  /\ watch' = [pc |-> "start", config |-> config, printed |-> 0]
  /\ UNCHANGED <<vars, conf, init, pending, world>>

received == recipient - watch.config.initial

\* (Mutated form: more than the total is not noticed.)
Explained_NoUpper ==
  /\ 0 <= received
  /\ \/ received = watch.config.total_amount
     \/ received % watch.config.chunk_amount = 0

\* (Mutated form: a last chunk that is smaller is not expected.)
Explained_WholeChunks ==
  /\ 0 <= received
  /\ received <= watch.config.total_amount
  /\ received % watch.config.chunk_amount = 0

\* The delta is one that watch can explain.
Explained ==
  /\ 0 <= received
  /\ received <= watch.config.total_amount
  /\ \/ received = watch.config.total_amount
     \/ received % watch.config.chunk_amount = 0

ceilDiv(value, divisor) == (value + divisor - 1) \div divisor

\* (Mutated form: the execution under way is counted.)
executionsForReceived_Next(c) == received \div c.chunk_amount + 1

executionsForReceived(c) ==
  IF received = c.total_amount
    THEN ceilDiv(c.total_amount, c.chunk_amount)
    ELSE received \div c.chunk_amount

\* Every inferred execution is printed; the watch is over when all is received.
Poll ==
  /\ watch.pc \in {"start", "wait"}
  /\ LET observed == executionsForReceived(watch.config)
     IN  IF Explained
           THEN watch' =
             [watch EXCEPT
                !.printed = IF observed > @ THEN observed ELSE @,
                !.pc = IF received = watch.config.total_amount THEN "done" ELSE "wait"]
           ELSE watch' = [watch EXCEPT !.pc = "threw"]
  /\ UNCHANGED <<vars, conf, init, pending, world>>

\* (Mutated form: the time is looked at before the first poll.)
TimeOut_Early ==
  /\ watch.pc \in {"start", "wait"}
  /\ watch' = [pc |-> "off", config |-> NothingSaved, printed |-> 0]
  /\ UNCHANGED <<vars, conf, init, pending, world>>

\* The time is over; it is looked at after a poll only.
TimeOut ==
  /\ watch.pc = "wait"
  /\ watch' = [pc |-> "off", config |-> NothingSaved, printed |-> 0]
  /\ UNCHANGED <<vars, conf, init, pending, world>>

-----------------------------------------------------------------------------
(* The rest *)

\* What leaves the escrow goes to the recipient.
Chains ==
  /\ Rollup \/ Committor \/ FaultyStep
  /\ recipient' = recipient + (escrow - escrow')
  /\ UNCHANGED <<clientvars, count, foreign>>

Recreate ==
  /\ \E a \in {"escrow", "destination"} : CreateTokenAccount(a)
  /\ UNCHANGED <<clientvars, world>>

Foreign == foreign < MaxForeign /\ foreign' = foreign + 1

\* Someone else pays the recipient.
OtherPayment ==
  /\ Foreign
  /\ "destination" \in open
  /\ recipient' = recipient + 1
  /\ UNCHANGED <<vars, clientvars, count>>

\* The recipient empties its account, if it is not empty, and closes it.  watch
\* counts a missing account as an empty one.
Close ==
  /\ IF recipient = 0 THEN UNCHANGED foreign ELSE Foreign
  /\ CloseDestination
  /\ recipient' = 0
  /\ UNCHANGED <<clientvars, count>>

InitStream ==
  \/ \E i \in Inits :
       \/ \E total \in Totals, chunk \in Chunks : AskSender(i, total, chunk)
       \/ AskRecipient(i)
       \/ SendInit(i) \/ InitFails(i) \/ LoseAnswer(i)
       \/ OpenConfig(i) \/ SaveConfig(i)
       \/ Crash(i)
  \/ \E c \in pending : PendingLands(c) \/ PendingFails(c)

Watch == StartWatch \/ Poll \/ TimeOut

CNext == InitUsdc \/ InitStream \/ Watch \/ Chains \/ Recreate \/ OtherPayment \/ Close

CSpec == CInit /\ [][CNext]_allvars

\* watch is started again and again, and polls.
FairCSpec == CSpec /\ WF_allvars(StartWatch) /\ WF_allvars(Poll)

-----------------------------------------------------------------------------
(* Properties *)

\* The types of the variables, and no more executions than expected.
CTypeOK ==
  /\ config \in Saved
  /\ intact \in BOOLEAN
  /\ init \in [Inits -> InitState]
  /\ watch \in WatchState
  /\ watch.printed * watch.config.chunk_amount
       < watch.config.total_amount + watch.config.chunk_amount \/ watch.printed = 0
  /\ pending \subseteq Saved
  /\ recipient \in Nat
  /\ count \in Nat
  /\ foreign \in 0..MaxForeign

\* c was saved for the stream that is there, or was there last; all earlier
\* streams were over when the balance was read; nobody else has touched the
\* recipient's account since.
Meant(c) ==
  /\ c.stream = count
  /\ c.stream = c.over + 1
  /\ c.foreign = foreign

\* Tokens of the stream that c speaks of that have been paid.
PaidOf(c) == IF owner = "none" THEN c.total_amount ELSE base.total_amount - escrow

\* app.ts:324, "print one exact line for every inferred execution": what watch
\* has printed for its stream was paid, although it looks at nothing but the
\* recipient's balance, and that balance was read before the stream existed.
PrintedIsPaid ==
  Meant(watch.config) =>
    Lesser(watch.printed * watch.config.chunk_amount, watch.config.total_amount)
      <= PaidOf(watch.config)

\* app.ts:318: lost, late and repeated actions, and restarts of the rollup,
\* never show watch a balance that is not a number of chunks paid in order.
WatchExplains == Meant(watch.config) => watch.pc # "threw"

\* app.ts:352: watch reports the end only of a stream that is closed, so that
\* the next init-stream finds its address free.
DoneMeansClosed ==
  watch.pc = "done" /\ Meant(watch.config) => owner = "none" /\ escrow = 0

\* app.ts:275-277: config.json speaks of a stream only after its transaction has
\* executed, whatever other init-stream runs, fails or is answered late at that
\* time, and as long as that stream is the one that is there, with the amounts
\* that the program has stored.  (Nothing keeps a late save from replacing the
\* config of a later stream by that of an earlier one.)
SavedIsCreated ==
  config # NothingSaved =>
    /\ config.stream \in 1..count
    /\ config.stream = count /\ owner # "none" =>
         /\ config.total_amount = base.total_amount
         /\ config.chunk_amount = base.chunk_amount

\* wire.ts:4 and state/mod.rs: what one side writes, the other reads back:
\* the account between the chains, and the actions between release and the
\* handlers that they call.
MagicWireAgrees ==
  /\ owner # "none" => CanUnpack(pack(base)) /\ unpack(pack(base)) = base
  /\ \A a \in actions \cup delivered :
       IsAction(action_data(a)) /\ ActionArgs(action_data(a)) = a

\* A stream that is over, and that config.json speaks of, is reported by watch
\* in the end, however often it timed out before.
WatchEnds ==
  owner = "none" /\ Meant(config) ~> watch.pc = "done" \/ ~Meant(config)
=============================================================================
