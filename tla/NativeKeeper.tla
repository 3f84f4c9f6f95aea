---------------------------- MODULE NativeKeeper -----------------------------
(***************************************************************************)
(* Runners of the native client, client/index.ts run, that release the     *)
(* chunks of one stream: each reads the account, takes executed_chunks as  *)
(* the index, and submits a release with that index until one attempt is   *)
(* confirmed or the attempts are used up.                                  *)
(*                                                                         *)
(* Source: native/client/index.ts (sendWithRetry, run).  The chain is      *)
(* NativeStream; sendAndConfirmTransaction and the cluster behind it are   *)
(* external and are modelled by what index.ts sees of them: a transaction  *)
(* is simulated before it is sent, lands at most once, may expire instead, *)
(* and an answer may be lost while its transaction is still on its way.    *)
(* Between reading the account and landing, any other runner may act.      *)
(*                                                                         *)
(* Bounds: Attempts stands for the eight attempts; MaxFaults caps what     *)
(* goes wrong outside the program (lost requests and answers, expiries,    *)
(* crashes).                                                               *)
(***************************************************************************)
EXTENDS NativeStream

CONSTANTS Keepers, Target, Attempts, MaxFaults

ASSUME KeeperAssumption ==
  /\ Target \in Streams
  /\ Attempts \in Nat \ {0}
  /\ MaxFaults \in Nat

VARIABLES
  runner,     \* program counter and local variables of each runner
  orphans,    \* how many transactions nobody waits for are in flight, by index
  faults,     \* faults so far
  paid        \* history: how often each index was paid

kvars == <<runner, orphans, faults, paid>>
allvars == <<vars, kvars>>

Indices == 0..U64Max

\* "off" is a process that is not running; "gaveup" one that rethrew lastError.
\* `tx' is the transaction that the current attempt waits for.
Runner ==
  [ pc      : {"off", "read", "send", "wait", "finished", "gaveup"},
    index   : Indices,
    attempt : 0..Attempts - 1,
    tx      : {"none", "pending", "ok", "error"} ]

KInit ==
  /\ Init
  /\ runner = [k \in Keepers |-> [pc |-> "off", index |-> 0, attempt |-> 0, tx |-> "none"]]
  /\ orphans = [i \in Indices |-> 0]
  /\ faults = 0
  /\ paid = [i \in Indices |-> 0]

-----------------------------------------------------------------------------
(* The cluster *)

\* The release that a runner builds: the accounts in its state file.
Destination == RecipientOf[Target]
Pays(i)     == CanRelease(Target, Target, Destination, i)
Skips(i)    == IsNoop(Target, Target, Destination, i)

\* A transaction with index i is executed.
LandPaying(i) ==
  /\ Release(Target, Target, Destination, i)
  /\ paid' = [paid EXCEPT ![i] = @ + 1]

LandNoop(i) == Skips(i) /\ UNCHANGED <<vars, paid>>

LandFailing(i) == ~Pays(i) /\ ~Skips(i) /\ UNCHANGED <<vars, paid>>

Fault == faults < MaxFaults /\ faults' = faults + 1

-----------------------------------------------------------------------------
(* One runner *)

Become(k, r) == runner' = [runner EXCEPT ![k] = r]

\* (Mutated form: one attempt too many.)
Thrown_OneMore(r) ==
  IF r.attempt < Attempts
    THEN [r EXCEPT !.pc = "send", !.attempt = @ + 1, !.tx = "none"]
    ELSE [r EXCEPT !.pc = "gaveup", !.tx = "none"]

\* The catch block: the next attempt, or rethrow after the last one.
Thrown(r) ==
  IF r.attempt + 1 < Attempts
    THEN [r EXCEPT !.pc = "send", !.attempt = @ + 1, !.tx = "none"]
    ELSE [r EXCEPT !.pc = "gaveup", !.tx = "none"]

\* What becomes of a transaction in flight when nobody waits for it any more.
Abandon(r) ==
  orphans' = IF r.tx = "pending"
               THEN [orphans EXCEPT ![r.index] = @ + 1]
               ELSE orphans

\* npm run run, for the first time or again.
Start(k) ==
  /\ runner[k].pc \in {"off", "gaveup"}
  /\ Become(k, [runner[k] EXCEPT !.pc = "read"])
  /\ UNCHANGED <<vars, orphans, faults, paid>>

\* (Mutated form: the index of the previous round is kept.)
ReadActive_KeepsIndex(k) ==
  /\ runner[k].pc = "read"
  /\ stream[Target].status = "Active"
  /\ Become(k, [runner[k] EXCEPT !.pc = "send", !.attempt = 0, !.tx = "none"])
  /\ UNCHANGED <<vars, orphans, faults, paid>>

\* getAccountInfo finds an active stream: executed_chunks is the index.
ReadActive(k) ==
  /\ runner[k].pc = "read"
  /\ stream[Target].status = "Active"
  /\ Become(k, [pc |-> "send", index |-> stream[Target].executed_chunks,
                attempt |-> 0, tx |-> "none"])
  /\ UNCHANGED <<vars, orphans, faults, paid>>

\* The status is not Active: the loop ends.
ReadCompleted(k) ==
  /\ runner[k].pc = "read"
  /\ stream[Target].status = "Completed"
  /\ Become(k, [runner[k] EXCEPT !.pc = "finished"])
  /\ UNCHANGED <<vars, orphans, faults, paid>>

\* There is no account: run throws.
ReadMissing(k) ==
  /\ runner[k].pc = "read"
  /\ stream[Target].status = "Uninitialized"
  /\ Become(k, [runner[k] EXCEPT !.pc = "off"])
  /\ UNCHANGED <<vars, orphans, faults, paid>>

\* The simulation succeeds and the transaction is sent.
Submit(k) ==
  /\ runner[k].pc = "send"
  /\ Pays(runner[k].index) \/ Skips(runner[k].index)
  /\ Become(k, [runner[k] EXCEPT !.pc = "wait", !.tx = "pending"])
  /\ UNCHANGED <<vars, orphans, faults, paid>>

\* The simulation fails: nothing is sent.
PreflightFails(k) ==
  /\ runner[k].pc = "send"
  /\ ~Pays(runner[k].index)
  /\ ~Skips(runner[k].index)
  /\ Become(k, Thrown(runner[k]))
  /\ UNCHANGED <<vars, orphans, faults, paid>>

\* The request does not reach the node.
LoseRequest(k) ==
  /\ runner[k].pc = "send"
  /\ Fault
  /\ Become(k, Thrown(runner[k]))
  /\ UNCHANGED <<vars, orphans, paid>>

\* The transaction that runner k waits for is executed.
Execute(k) ==
  /\ runner[k].pc = "wait"
  /\ runner[k].tx = "pending"
  /\ \/ /\ LandPaying(runner[k].index) \/ LandNoop(runner[k].index)
        /\ Become(k, [runner[k] EXCEPT !.tx = "ok"])
     \/ /\ LandFailing(runner[k].index)
        /\ Become(k, [runner[k] EXCEPT !.tx = "error"])
  /\ UNCHANGED <<orphans, faults>>

\* Its blockhash expires before it is executed.
Expire(k) ==
  /\ runner[k].pc = "wait"
  /\ runner[k].tx = "pending"
  /\ Fault
  /\ Become(k, [runner[k] EXCEPT !.tx = "error"])
  /\ UNCHANGED <<vars, orphans, paid>>

\* (Mutated form: a failure or an expiry is taken for success.)
Confirm_AnyOutcome(k) ==
  /\ runner[k].pc = "wait"
  /\ runner[k].tx \in {"ok", "error"}
  /\ Become(k, [runner[k] EXCEPT !.pc = "read", !.tx = "none"])
  /\ UNCHANGED <<vars, orphans, faults, paid>>

\* The confirmation arrives; the loop goes round.
Confirm(k) ==
  /\ runner[k].pc = "wait"
  /\ runner[k].tx = "ok"
  /\ Become(k, [runner[k] EXCEPT !.pc = "read", !.tx = "none"])
  /\ UNCHANGED <<vars, orphans, faults, paid>>

\* The failure or the expiry is reported.
Reject(k) ==
  /\ runner[k].pc = "wait"
  /\ runner[k].tx = "error"
  /\ Become(k, Thrown(runner[k]))
  /\ UNCHANGED <<vars, orphans, faults, paid>>

\* The answer is lost: the attempt fails, whatever became of its transaction.
LoseAnswer(k) ==
  /\ runner[k].pc = "wait"
  /\ Fault
  /\ Become(k, Thrown(runner[k]))
  /\ Abandon(runner[k])
  /\ UNCHANGED <<vars, paid>>

\* The process dies.
Crash(k) ==
  /\ runner[k].pc \in {"read", "send", "wait"}
  /\ Fault
  /\ Become(k, [runner[k] EXCEPT !.pc = "off", !.tx = "none"])
  /\ Abandon(runner[k])
  /\ UNCHANGED <<vars, paid>>

-----------------------------------------------------------------------------
(* Transactions that nobody waits for *)

OrphanLands(i) ==
  /\ orphans[i] > 0
  /\ orphans' = [orphans EXCEPT ![i] = @ - 1]
  /\ LandPaying(i) \/ LandNoop(i) \/ LandFailing(i)
  /\ UNCHANGED <<runner, faults>>

OrphanExpires(i) ==
  /\ orphans[i] > 0
  /\ orphans' = [orphans EXCEPT ![i] = @ - 1]
  /\ UNCHANGED <<vars, runner, faults, paid>>

-----------------------------------------------------------------------------

\* What the program text of a runner makes it do next.
RunnerStep(k) ==
  \/ Start(k)
  \/ ReadActive(k) \/ ReadCompleted(k) \/ ReadMissing(k)
  \/ Submit(k) \/ PreflightFails(k)
  \/ Confirm(k) \/ Reject(k)

RunnerFault(k) == LoseRequest(k) \/ LoseAnswer(k) \/ Expire(k) \/ Crash(k)

Chain == InitializeBySender(Target) \/ Environment

KNext ==
  \/ \E k \in Keepers : RunnerStep(k) \/ Execute(k) \/ RunnerFault(k)
  \/ \E i \in Indices : OrphanLands(i) \/ OrphanExpires(i)
  \/ Chain /\ UNCHANGED kvars

KSpec == KInit /\ [][KNext]_allvars

\* A process that runs takes its next step, somebody starts it again when it
\* has stopped, the cluster executes what it is sent, and the clock advances.
Fairness ==
  /\ \A k \in Keepers : WF_allvars(RunnerStep(k)) /\ WF_allvars(Execute(k))
  /\ WF_allvars(Tick /\ UNCHANGED kvars)

FairKSpec == KSpec /\ Fairness

-----------------------------------------------------------------------------
(* Properties *)

\* The types of the variables.
KTypeOK ==
  /\ TypeOK
  /\ runner \in [Keepers -> Runner]
  /\ orphans \in [Indices -> 0..MaxFaults]
  /\ faults \in 0..MaxFaults
  /\ paid \in [Indices -> Nat]

\* However many runners race, retry, crash and leave transactions behind,
\* every index below executed_chunks was paid exactly once and no other was.
IndexPaidOnce ==
  \A i \in Indices :
    paid[i] = IF i < stream[Target].executed_chunks THEN 1 ELSE 0

\* A confirmed attempt means that its chunk has been released, by this runner
\* or by another: a no-op is never reported for work that is still to be done.
ConfirmedMeansExecuted ==
  [][\A k \in Keepers :
       runner[k].pc = "wait" /\ runner'[k].pc = "read" =>
         stream[Target].executed_chunks > runner[k].index]_allvars

\* No runner exhausts its attempts if every chunk is due and the recipient's
\* account stays open (as the constants of the run have it): races, lost confirmations and expiries
\* cost a runner no more attempts than there are faults, because the program
\* absorbs what has been released already.
NeverGivesUp == \A k \in Keepers : runner[k].pc # "gaveup"

\* The bounded clock of the model reaches the due time of the last chunk.
WithinClock(st) ==
  st.start_timestamp + (st.max_chunks - 1) * st.interval_seconds <= MaxTime

\* Once the stream is active, and if its recipient keeps the token account
\* open from some time on, the stream completes and every runner sees it.
StreamCompletes ==
  <>[](Destination \notin closed) =>
    (stream[Target].status = "Active" /\ WithinClock(stream[Target])
       ~> /\ stream[Target].status = "Completed"
          /\ \A k \in Keepers : runner[k].pc = "finished")
=============================================================================
