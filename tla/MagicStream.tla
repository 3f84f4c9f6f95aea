----------------------------- MODULE MagicStream -----------------------------
(***************************************************************************)
(* One stream of the MagicBlock program across its two chains: the base    *)
(* layer, where the escrow is, and the ephemeral rollup (ER), where a      *)
(* crank authorizes chunk after chunk.                                     *)
(*                                                                         *)
(* Source: magicblock/program/src/instructions/*.rs and state/mod.rs       *)
(* (through MagicState).  The delegation program (DLP), the crank          *)
(* scheduler, the cloner and the committor are external: they are modelled *)
(* by what the handlers and the start script rely on.  Each release hands  *)
(* the committor an intent: the account as release left it, to be          *)
(* committed to the base layer, and an action to be called there after     *)
(* the commit, or after the undelegation if the intent is the last.        *)
(*                                                                         *)
(* Intents are committed in order.  With Serial, an intent is finished     *)
(* before the next is committed; without, an action may be called later.   *)
(* Handlers are atomic; one that returns an error, or Ok early, changes    *)
(* nothing, and its action counts as delivered.                            *)
(*                                                                         *)
(* Bounds: Totals and Chunks are the amounts a sender may choose, Purse    *)
(* all that the sender has (and so the number of streams that one address  *)
(* can see), Gifts the amounts that anyone may put into the escrow,        *)
(* Faults the kinds of fault that may occur and MaxFaults their number.    *)
(***************************************************************************)
EXTENDS MagicState, Sequences

CONSTANTS
  Totals, Chunks, Purse, Gifts,
  Serial,               \* BOOLEAN: the committor finishes one intent at a time
  DestinationCloses,    \* BOOLEAN: the recipient may close its token account
  Faults, MaxFaults

FaultKinds ==
  { "lost tick", "extra tick",          \* of the crank
    "lost action", "repeated action",   \* of the committor
    "restart" }                         \* of the ER validator

ASSUME MagicAssumption ==
  /\ Totals \subseteq U64
  /\ Chunks \subseteq U64
  /\ Purse \in U64
  /\ Gifts \subseteq U64 \ {0}
  /\ Serial \in BOOLEAN
  /\ DestinationCloses \in BOOLEAN
  /\ Faults \subseteq FaultKinds
  /\ MaxFaults \in Nat

VARIABLES
  owner,        \* of the stream account on the base layer
  base,         \* the account's data there
  er,           \* the ER's copy; NoState if there is none
  crank,        \* iterations that the scheduled task has left
  intents,      \* committor queue: intents not finished with
  actions,      \* actions whose commit is done, not called yet
  delivered,    \* actions that were called, or given up, before
  escrow,       \* balance of the escrow token account
  open,         \* which of the two token accounts exist
  purse,        \* the sender's balance
  gifts,        \* history: tokens others put into this stream's escrow
  authorized,   \* history: the most that release has authorized
  transfers,    \* history: transfers to the recipient, by expected_sent
  faults        \* faults so far

basevars == <<owner, base, escrow, open, purse, gifts, transfers>>
ervars   == <<er, crank, authorized>>
queues   == <<intents, actions, delivered>>
vars     == <<basevars, ervars, queues, faults>>

Owners == {"none", "program", "dlp"}

\* The data of a SETTLE_CHUNK or FINALIZE_STREAM action.
Action == [kind : {"settle", "finalize"}, amount : U64, expected_sent : U64]

\* `committed' is set on a final intent between its commit and undelegation.
Intent == [data : StreamState, action : Action, committed : BOOLEAN]

Init ==
  /\ owner = "none"
  /\ base = NoState
  /\ er = NoState
  /\ crank = 0
  /\ intents = << >>
  /\ actions = {}
  /\ delivered = {}
  /\ escrow = 0
  /\ open = {"escrow", "destination"}
  /\ purse = Purse
  /\ gifts = 0
  /\ authorized = 0
  /\ transfers = [e \in U64 |-> 0]
  /\ faults = 0

Fault(kind) ==
  /\ kind \in Faults
  /\ faults < MaxFaults
  /\ faults' = faults + 1

-----------------------------------------------------------------------------
(* Token accounts, outside the program *)

\* Anyone transfers tokens to the escrow account.
StrayDeposit(amount) ==
  /\ "escrow" \in open
  /\ escrow + amount <= U64Max
  /\ escrow' = escrow + amount
  /\ gifts' = gifts + amount
  /\ UNCHANGED <<owner, base, open, purse, transfers, ervars, queues, faults>>

\* Anyone creates an associated token account that does not exist.
CreateTokenAccount(a) ==
  /\ a \notin open
  /\ open' = open \cup {a}
  /\ UNCHANGED <<owner, base, escrow, purse, gifts, transfers, ervars, queues, faults>>

\* The recipient empties and closes its token account.
CloseDestination ==
  /\ DestinationCloses
  /\ "destination" \in open
  /\ open' = open \ {"destination"}
  /\ UNCHANGED <<owner, base, escrow, purse, gifts, transfers, ervars, queues, faults>>

-----------------------------------------------------------------------------
(* Base layer: initialize and delegate *)

Initialized(total, chunk) ==
  [ total_amount |-> total, chunk_amount |-> chunk, sent_amount |-> 0,
    active |-> TRUE, scheduled |-> FALSE ]

\* The sender's tokens go to the escrow; the transaction leaves the new account
\* with owner o.
Create(total, chunk, o) ==
  /\ total # 0
  /\ chunk # 0
  /\ chunk <= total
  /\ owner = "none"
  /\ open = {"escrow", "destination"}
  /\ purse >= total
  /\ escrow = 0
  /\ owner' = o
  /\ base' = Initialized(total, chunk)
  /\ purse' = purse - total
  /\ escrow' = total
  /\ gifts' = 0
  /\ authorized' = 0
  /\ transfers' = [e \in U64 |-> 0]
  /\ UNCHANGED <<open, er, crank, queues, faults>>

Initialize(total, chunk) == Create(total, chunk, "program")

Delegate ==
  /\ owner = "program"
  /\ base.active
  /\ owner' = "dlp"
  /\ UNCHANGED <<base, escrow, open, purse, gifts, transfers, ervars, queues, faults>>

-----------------------------------------------------------------------------
(* Ephemeral rollup: schedule and release *)

\* The ER takes over the account as it is on the base layer.
Clone ==
  /\ owner = "dlp"
  /\ er = NoState
  /\ base.active
  /\ er' = base
  /\ UNCHANGED <<crank, authorized, basevars, queues, faults>>

CanSchedule(st) ==
  /\ st.active
  /\ ~st.scheduled
  /\ remaining_iterations(st) # Err
  /\ remaining_iterations(st) <= I64Max

Schedule ==
  /\ CanSchedule(er)
  /\ er' = [er EXCEPT !.scheduled = TRUE]
  /\ crank' = remaining_iterations(er)
  /\ UNCHANGED <<authorized, basevars, queues, faults>>

\* The account after one more chunk is authorized.
Authorized(st) ==
  LET sent == st.sent_amount + next_amount(st)
  IN  [st EXCEPT !.sent_amount = sent, !.active = sent # st.total_amount]

\* (Mutated form: the action carries the amount authorized before this chunk.)
ActionOf_StaleSent(st) ==
  [ kind          |-> IF Authorized(st).active THEN "settle" ELSE "finalize",
    amount        |-> next_amount(st),
    expected_sent |-> st.sent_amount ]

ActionOf(st) ==
  [ kind          |-> IF Authorized(st).active THEN "settle" ELSE "finalize",
    amount        |-> next_amount(st),
    expected_sent |-> Authorized(st).sent_amount ]

\* A call of release that is not the replay after the final one.
Releases(st) ==
  /\ st.scheduled
  /\ st.active
  /\ st.sent_amount < st.total_amount

Release ==
  /\ Releases(er)
  /\ er' = Authorized(er)
  /\ intents' = Append(intents, [ data |-> Authorized(er), action |-> ActionOf(er),
                                  committed |-> FALSE ])
  /\ authorized' = IF Authorized(er).sent_amount > authorized
                     THEN Authorized(er).sent_amount ELSE authorized
  /\ UNCHANGED <<actions, delivered, basevars>>

\* One iteration of the task; a call that is a no-op or an error counts too.
CrankTick ==
  /\ crank > 0
  /\ crank' = crank - 1
  /\ \/ Release
     \/ ~Releases(er) /\ UNCHANGED <<er, authorized, basevars, queues>>
  /\ UNCHANGED faults

\* An iteration counts although its transaction was not executed ...
LoseTick ==
  /\ crank > 0
  /\ crank' = crank - 1
  /\ Fault("lost tick")
  /\ UNCHANGED <<er, authorized, basevars, queues>>

\* ... or is executed without being counted.
ExtraTick ==
  /\ crank > 0
  /\ Release
  /\ Fault("extra tick")
  /\ UNCHANGED crank

\* The ER validator restarts with --reset: its ledger and its task scheduler are
\* reset, the committor's database survives, unless it is deleted as well.
\* start-local.sh:68-71, which says so, also starts a new base ledger; here the
\* base layer lives on, as it would with any other restart.
Restart ==
  /\ Fault("restart")
  /\ er # NoState
  /\ er' = NoState
  /\ crank' = 0
  /\ intents' \in {intents, << >>}
  /\ UNCHANGED <<actions, delivered, authorized, basevars>>

-----------------------------------------------------------------------------
(* Committor and DLP *)

\* An ordinary intent: its action may be called from now on.
CommitChunk ==
  /\ intents # << >>
  /\ Head(intents).action.kind = "settle"
  /\ Serial => actions = {}
  /\ owner = "dlp"
  /\ base' = Head(intents).data
  /\ intents' = Tail(intents)
  /\ actions' = actions \cup {Head(intents).action}
  /\ UNCHANGED <<delivered, owner, escrow, open, purse, gifts, transfers, ervars, faults>>

\* The final intent: the account is undelegated before the action.
CommitFinal ==
  /\ intents # << >>
  /\ Head(intents).action.kind = "finalize"
  /\ ~Head(intents).committed
  /\ Serial => actions = {}
  /\ owner = "dlp"
  /\ base' = Head(intents).data
  /\ intents' = << [Head(intents) EXCEPT !.committed = TRUE] >> \o Tail(intents)
  /\ UNCHANGED <<actions, delivered, owner, escrow, open, purse, gifts, transfers, ervars,
                 faults>>

\* The DLP calls UndelegateCallback, which restores the committed account to
\* the program.  The ER gives up its copy, and what else was queued is void.
UndelegateCallback ==
  /\ intents # << >>
  /\ Head(intents).committed
  /\ owner = "dlp"
  /\ owner' = "program"
  /\ er' = NoState
  /\ crank' = 0
  /\ intents' = << >>
  /\ actions' = actions \cup {Head(intents).action}
  /\ UNCHANGED <<delivered, base, escrow, open, purse, gifts, transfers, authorized, faults>>

-----------------------------------------------------------------------------
(* Base layer: settle_chunk and finalize, called as actions *)

TokenAccountsOpen == open = {"escrow", "destination"}

\* The checks of settle_chunk before it looks at the balance.
Settles(a) ==
  /\ owner = "dlp"
  /\ base.active
  /\ a.expected_sent = base.sent_amount
  /\ a.expected_sent < base.total_amount
  /\ a.amount = base.chunk_amount
  /\ a.expected_sent >= a.amount
  /\ a.expected_sent % base.chunk_amount = 0
  /\ TokenAccountsOpen

\* (Mutated form: any balance that covers the chunk will do.)
EscrowBefore_Covers(a) == escrow >= a.amount

\* The balance that the escrow must have before the transfer of a.
EscrowBefore(a) == escrow = base.total_amount - (a.expected_sent - a.amount)

Transferred(a) ==
  transfers' = [transfers EXCEPT ![a.expected_sent] = @ + 1]

\* The token program does not overdraw an account ...
Affords(a) == a.amount <= escrow

\* ... and closes it only when it is empty.
Emptied(a) == escrow - a.amount = 0

CanSettle(a) ==
  /\ a.kind = "settle"
  /\ Settles(a)
  /\ EscrowBefore(a)
  /\ Affords(a)

SettleChunk(a) ==
  /\ CanSettle(a)
  /\ escrow' = escrow - a.amount
  /\ Transferred(a)
  /\ UNCHANGED <<owner, base, open, purse, gifts>>

\* The checks of finalize before it looks at the balance.
Finalizes(a) ==
  /\ owner = "program"
  /\ ~base.active
  /\ a.expected_sent = base.total_amount
  /\ base.sent_amount = base.total_amount
  /\ a.amount = final_chunk(base)
  /\ TokenAccountsOpen

CanFinalize(a) ==
  /\ a.kind = "finalize"
  /\ Finalizes(a)
  /\ escrow = a.amount
  /\ Emptied(a)

\* (Mutated form: whatever is left is paid, and not compared with the final chunk.)
Finalize_Sweep(a) ==
  /\ a.kind = "finalize"
  /\ Finalizes(a)
  /\ escrow' = 0
  /\ Transferred(a)
  /\ open' = open \ {"escrow"}
  /\ owner' = "none"
  /\ base' = NoState
  /\ UNCHANGED <<purse, gifts>>

\* The final chunk is paid and both accounts are closed.
Finalize(a) ==
  /\ CanFinalize(a)
  /\ escrow' = escrow - a.amount
  /\ Transferred(a)
  /\ open' = open \ {"escrow"}
  /\ owner' = "none"
  /\ base' = NoState
  /\ UNCHANGED <<purse, gifts>>

\* What calling action a does, if only to return an error or Ok early.
Call(a) ==
  \/ SettleChunk(a)
  \/ Finalize(a)
  \/ ~CanSettle(a) /\ ~CanFinalize(a) /\ UNCHANGED basevars

Deliver(a) ==
  /\ a \in actions
  /\ actions' = actions \ {a}
  /\ delivered' = delivered \cup {a}
  /\ Call(a)
  /\ UNCHANGED <<intents, ervars, faults>>

\* An action is called again, with a new signature.
Redeliver(a) ==
  /\ a \in delivered
  /\ Fault("repeated action")
  /\ Call(a)
  /\ UNCHANGED <<queues, ervars>>

\* An action is given up; it may still be called late, by Redeliver.
LoseAction(a) ==
  /\ a \in actions
  /\ Fault("lost action")
  /\ actions' = actions \ {a}
  /\ delivered' = delivered \cup {a}
  /\ UNCHANGED <<intents, basevars, ervars>>

-----------------------------------------------------------------------------

Sender ==
  \/ \E total \in Totals, chunk \in Chunks : Initialize(total, chunk)
  \/ Delegate

Tokens ==
  \/ \E amount \in Gifts : StrayDeposit(amount)
  \/ \E a \in {"escrow", "destination"} : CreateTokenAccount(a)
  \/ CloseDestination

Rollup == Clone \/ Schedule \/ CrankTick

Committor ==
  \/ CommitChunk \/ CommitFinal \/ UndelegateCallback
  \/ \E a \in actions : Deliver(a)

FaultyStep ==
  \/ LoseTick \/ ExtraTick \/ Restart
  \/ \E a \in actions : LoseAction(a)
  \/ \E a \in delivered : Redeliver(a)

Next == Sender \/ Tokens \/ Rollup \/ Committor \/ FaultyStep

Spec == Init /\ [][Next]_vars

\* The ER clones what is delegated to it and runs its task, the committor works
\* off its queue.  Nobody has to initialize, delegate or schedule.
Fairness ==
  /\ WF_vars(Clone)
  /\ WF_vars(CrankTick)
  /\ WF_vars(Committor)

FairSpec == Spec /\ Fairness

-----------------------------------------------------------------------------
(* Properties *)

\* The types of the variables.
MTyped ==
  /\ owner \in Owners
  /\ base \in StreamState
  /\ er \in StreamState
  /\ crank \in Nat
  /\ intents \in Seq(Intent)
  /\ actions \subseteq Action
  /\ delivered \subseteq Action
  /\ escrow \in U64
  /\ open \subseteq {"escrow", "destination"}
  /\ purse \in U64
  /\ gifts \in Nat
  /\ authorized \in U64
  /\ transfers \in [U64 -> Nat]
  /\ faults \in 0..MaxFaults

\* state/mod.rs:162: the types, and remaining() never fails: nothing that is read
\* back from either chain has sent more than its total.
MTypeOK ==
  /\ MTyped
  /\ owner # "none" => remaining(base) # Err
  /\ remaining(er) # Err

\* What no release has authorized yet is in the escrow, through lost, late and
\* repeated actions, deposits by others, and restarts of the rollup: the base
\* layer never pays ahead of the crank.
UnauthorizedStays ==
  owner # "none" => escrow >= base.total_amount - authorized

\* settle_chunk.rs:91-93 and finalize.rs: however often an action is called, by
\* whichever signature, and even if a restarted rollup authorizes its chunk
\* again, its tokens move once, if nobody else pays into the escrow.  (The history
\* begins anew with each stream of the address.)
ActionTransfersOnce ==
  gifts = 0 => \A e \in U64 : transfers[e] <= 1

\* The same without the condition.
ReplayGuardIsExact == \A e \in U64 : transfers[e] <= 1

\* If actions are called one at a time and none is lost, then every action is
\* good for a transfer when its turn comes, or a repetition of it came first:
\* none of the checks on the committed amounts or on the escrow's exact balance
\* strands the stream, whatever the crank does and however often the rollup is
\* restarted.  (For the first two streams of an address: a repeated finalize
\* leaves its original pending, which a third stream may then meet.)
DeliveredActionPays ==
  \A a \in actions : CanSettle(a) \/ CanFinalize(a) \/ transfers[a.expected_sent] = 1

\* If every iteration is executed exactly once, the task always has as many
\* left as there are chunks to authorize: it neither stops short nor runs on.
CrankExact ==
  er.scheduled =>
    /\ crank * er.chunk_amount >= remaining(er)
    /\ crank * er.chunk_amount < remaining(er) + er.chunk_amount

\* schedule.rs:50: a stream that is scheduled cannot be scheduled again, and no
\* other instruction returns its tokens.  If nothing is lost, it never depends on
\* either: until it is closed, a chunk can be released, or an intent is queued, or
\* the final action is pending and meets all of finalize's checks.
NeverStranded ==
  owner # "none" /\ (er.scheduled \/ base.scheduled) =>
    \/ crank > 0 /\ Releases(er)
    \/ intents # << >>
    \/ \E a \in actions : CanFinalize(a)

\* A stream that is scheduled is paid to the end and closed.
StreamFinishes == er.scheduled ~> owner = "none" /\ escrow = 0

\* state/mod.rs:167 and schedule.rs:4-5: an active stream that was delegated
\* and not scheduled yet can be scheduled.
EveryStreamSchedulable == er.active /\ ~er.scheduled => CanSchedule(er)

\* What the stream amounts to, told by the escrow's balance.
Deal ==
  IF owner = "none"
    THEN [total |-> 0, chunk |-> 0, paid |-> 0]
    ELSE [ total |-> base.total_amount,
           chunk |-> base.chunk_amount,
           paid  |-> base.total_amount + gifts - escrow ]

Abstract == INSTANCE PaymentStream
  WITH Streams <- {"stream"}, Amounts <- 1..U64Max, deal <- [s \in {"stream"} |-> Deal]

\* The two chains together implement PaymentStream, as the native program does
\* with one, as long as nobody else pays into the escrow: chunk after chunk and
\* in full, over every stream that the address is used for.
ImplementsPaymentStream == Abstract!Spec
=============================================================================
