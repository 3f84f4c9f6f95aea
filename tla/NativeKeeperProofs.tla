-------------------------- MODULE NativeKeeperProofs --------------------------
(***************************************************************************)
(* Theorems about NativeKeeper, for every number of runners, attempts and  *)
(* faults.  A step of the runners is a step of the program, so the         *)
(* invariant of NativeStreamProofs is kept; on top of it KInv relates what *)
(* each runner remembers to the account it read it from: the index it is   *)
(* working on is never ahead of the account and always that of a chunk     *)
(* that the stream has.                                                    *)
(***************************************************************************)
EXTENDS NativeKeeper, NativeStreamProofs

-----------------------------------------------------------------------------
(* What happens to the stream of the runners *)

\* The account of the target stream and the payments of its chunks are as before.
Kept == stream'[Target] = stream[Target] /\ paid' = paid

\* The account is created.
Opened ==
  /\ stream[Target].status = "Uninitialized"
  /\ stream[Target].executed_chunks = 0
  /\ stream'[Target].status = "Active"
  /\ stream'[Target].executed_chunks = 0
  /\ paid' = paid

\* The chunk with index i is paid.
Advanced(i) ==
  /\ stream[Target].status = "Active"
  /\ stream[Target].executed_chunks = i
  /\ i < stream[Target].max_chunks
  /\ stream'[Target].executed_chunks = i + 1
  /\ stream'[Target].max_chunks = stream[Target].max_chunks
  /\ stream'[Target].status # "Uninitialized"
  /\ paid' = [paid EXCEPT ![i] = @ + 1]

\* All that can happen to it in one step.
TargetStep == Kept \/ Opened \/ \E i \in Indices : Advanced(i)

\* An account exists, and the index is that of a chunk that it has and no later
\* than the one it is at.
Known(st, i) ==
  /\ st.status # "Uninitialized"
  /\ i <= st.executed_chunks
  /\ i < st.max_chunks

\* The counters of the target's account, whether it exists or not.
LEMMA TargetFields ==
  ASSUME IInv
  PROVE  /\ Target \in Streams /\ Destination \in Accounts
         /\ stream[Target] \in Stream(Accounts)
         /\ stream[Target].executed_chunks \in Indices
         /\ stream[Target].executed_chunks \in Nat
         /\ stream[Target].max_chunks \in Nat
         /\ stream[Target].status # "Uninitialized" =>
              /\ validate_invariants(stream[Target])
              /\ stream[Target].route = Destination
         /\ stream[Target].status = "Uninitialized" => stream[Target].executed_chunks = 0
         /\ stream[Target].status = "Active" =>
              stream[Target].executed_chunks < stream[Target].max_chunks
<1>1. /\ Target \in Streams /\ Destination \in Accounts
      /\ stream[Target] \in Stream(Accounts)
      /\ AccountValid(Target)
  BY KeeperAssumption, Seeds DEF IInv, TypeOK, Destination
<1>2. /\ stream[Target].executed_chunks \in Indices
      /\ stream[Target].executed_chunks \in Nat
      /\ stream[Target].max_chunks \in Nat
  BY <1>1, Fields DEF Stream, Indices, U64
<1>3. stream[Target].status # "Uninitialized" =>
        validate_invariants(stream[Target]) /\ stream[Target].route = Destination
  BY <1>1, BlankFacts DEF AccountValid, Destination
<1>4. stream[Target].status = "Uninitialized" => stream[Target].executed_chunks = 0
  BY <1>1, BlankFacts DEF AccountValid
<1>5. stream[Target].status = "Active" =>
        stream[Target].executed_chunks < stream[Target].max_chunks
  BY <1>1, <1>3, ActiveFacts
<1>6. QED
  BY <1>1, <1>2, <1>3, <1>4, <1>5

\* A transaction of a runner that pays is a release of the program.
LEMMA LandPayingFacts ==
  ASSUME IInv, NEW i \in Indices, LandPaying(i)
  PROVE  Next /\ Advanced(i)
<1> DEFINE st == stream[Target]
<1>1. Release(Target, Target, Destination, i)
  BY DEF LandPaying
<1>2. /\ i = st.executed_chunks
      /\ validate_invariants(st) /\ st.status = "Active" /\ CanAdvance(st)
      /\ stream' = [stream EXCEPT ![Target] = Released(st)]
  BY <1>1, TargetFields, ReleaseFacts
<1>3. /\ i < st.max_chunks
      /\ Released(st).executed_chunks = i + 1
      /\ Released(st).max_chunks = st.max_chunks
      /\ validate_invariants(Released(st))
  BY <1>2, TargetFields, ReleasedFacts
<1>4. stream'[Target] = Released(st) /\ Released(st).status # "Uninitialized"
  BY <1>2, <1>3, TargetFields, BlankFacts DEF IInv, TypeOK
<1>5. Advanced(i)
  BY <1>2, <1>3, <1>4 DEF Advanced, LandPaying
<1>6. i \in 0..st.max_chunks
  BY <1>2, <1>3, TargetFields
<1>7. QED
  BY <1>1, <1>5, <1>6, TargetFields DEF Next, ReleaseByAnyone

\* The sender and the environment create the account or leave it alone.
LEMMA ChainFacts ==
  ASSUME IInv, Chain, UNCHANGED paid
  PROVE  Next /\ (Kept \/ Opened)
<1>1. Next
  BY KeeperAssumption DEF Chain, Next
<1>2. ASSUME InitializeBySender(Target) PROVE Opened
  <2>1. PICK total \in Totals, chunk \in Chunks, start \in Starts, interval \in Intervals :
          Initialize(Target, total, chunk, start, interval)
    BY <1>2 DEF InitializeBySender
  <2> DEFINE new == Initialized(Target, total, chunk, start, interval)
  <2>2. /\ stream[Target] = Blank(Target)
        /\ new.executed_chunks = 0
        /\ stream' = [stream EXCEPT ![Target] = new]
    BY <2>1, TargetFields, InitializeFacts
  <2>3. new.status = "Active"
    BY DEF Initialized
  <2> HIDE DEF new
  <2>4. stream'[Target] = new
    BY <2>2, TargetFields DEF IInv, TypeOK
  <2>5. QED
    BY <2>2, <2>3, <2>4, TargetFields, BlankFacts DEF Opened
<1>3. ASSUME Environment PROVE Kept
  BY <1>3 DEF Environment, TokenTransfer, CloseAccount, CreateAccount, Tick, Kept
<1>4. QED
  BY <1>1, <1>2, <1>3 DEF Chain

\* The account never goes back: what a runner knows of it stays true, and what
\* was executed stays executed.
LEMMA NeverBack ==
  ASSUME IInv, NEW i \in Indices, TargetStep
  PROVE  /\ Known(stream[Target], i) => Known(stream'[Target], i)
         /\ i < stream[Target].executed_chunks => i < stream'[Target].executed_chunks
<1>1. \A j \in Indices : j \in Nat
  BY WidthAssumption DEF Indices
<1>2. QED
  BY <1>1, TargetFields DEF TargetStep, Kept, Opened, Advanced, Known

-----------------------------------------------------------------------------
(* The inductive invariant *)

\* A runner that submits works on a chunk of the stream, and is told of success
\* only when that chunk has been executed.
RunnerInformed(k) ==
  /\ runner[k].pc \in {"send", "wait"} => Known(stream[Target], runner[k].index)
  /\ runner[k].pc = "wait" /\ runner[k].tx = "ok" =>
       runner[k].index < stream[Target].executed_chunks

\* A transaction is left behind only by a fault.
OrphansCounted == \A i \in Indices : orphans[i] <= faults

\* IndexPaidOnce needs nothing but IInv; ConfirmedMeansExecuted needs to know
\* that a no-op with the index the account is at does not happen, because it
\* would have to be that of the chunk after the last one.
KInv ==
  /\ IInv
  /\ KTypeOK
  /\ OrphansCounted
  /\ \A k \in Keepers : RunnerInformed(k)
  /\ IndexPaidOnce

\* Before anything runs, nothing has been read, sent or paid.
LEMMA InitKInv == KInit => KInv
<1> SUFFICES ASSUME KInit PROVE KInv
  OBVIOUS
<1>1. IInv
  BY InitIInv DEF KInit
<1>2. stream[Target].executed_chunks = 0
  BY KeeperAssumption, BlankFacts DEF KInit, Init
<1>3. KTypeOK
  <2>1. 0 \in Indices /\ 0 \in 0..Attempts - 1 /\ 0 \in 0..MaxFaults
    BY KeeperAssumption, WidthAssumption DEF Indices
  <2>2. QED
    BY <1>1, <2>1 DEF KInit, KTypeOK, Runner, IInv
<1>4. OrphansCounted
  BY DEF KInit, OrphansCounted
<1>5. \A k \in Keepers : RunnerInformed(k)
  BY DEF KInit, RunnerInformed
<1>6. IndexPaidOnce
  BY <1>2, WidthAssumption DEF KInit, IndexPaidOnce, Indices
<1>7. QED
  BY <1>1, <1>3, <1>4, <1>5, <1>6 DEF KInv

\* What a step does to the chain: nothing, unless a transaction of a runner pays
\* or somebody else acts.
LEMMA StepOnChain ==
  ASSUME [KNext]_allvars
  PROVE  \/ UNCHANGED <<vars, paid>>
         \/ \E i \in Indices : LandPaying(i)
         \/ \E k \in Keepers : LandPaying(runner[k].index)
         \/ Chain /\ UNCHANGED paid
<1>1. ASSUME NEW k \in Keepers, Execute(k)
      PROVE  LandPaying(runner[k].index) \/ UNCHANGED <<vars, paid>>
  BY <1>1 DEF Execute, LandNoop, LandFailing
<1>2. ASSUME NEW k \in Keepers, RunnerStep(k) \/ RunnerFault(k)
      PROVE  UNCHANGED <<vars, paid>>
  BY <1>2 DEF RunnerStep, Start, ReadActive, ReadCompleted, ReadMissing, Submit,
              PreflightFails, Confirm, Reject, RunnerFault, LoseRequest, LoseAnswer,
              Expire, Crash
<1>3. ASSUME NEW i \in Indices, OrphanLands(i) \/ OrphanExpires(i)
      PROVE  LandPaying(i) \/ UNCHANGED <<vars, paid>>
  BY <1>3 DEF OrphanLands, OrphanExpires, LandNoop, LandFailing
<1>4. CASE UNCHANGED allvars
  BY <1>4 DEF allvars, kvars
<1>5. CASE Chain /\ UNCHANGED kvars
  BY <1>5 DEF kvars
<1>6. QED
  BY <1>1, <1>2, <1>3, <1>4, <1>5 DEF KNext

\* Every step of the runners and the chain is one of the program, or none.
LEMMA StepIsProgramStep ==
  ASSUME KInv, [KNext]_allvars
  PROVE  [Next]_vars /\ TargetStep
<1>1. CASE UNCHANGED <<vars, paid>>
  BY <1>1 DEF vars, Kept, TargetStep
<1>2. ASSUME NEW i \in Indices, LandPaying(i) PROVE Next /\ TargetStep
  BY <1>2, LandPayingFacts DEF KInv, TargetStep
<1>3. CASE Chain /\ UNCHANGED paid
  BY <1>3, ChainFacts DEF KInv, TargetStep
<1>4. \A k \in Keepers : runner[k].index \in Indices
  BY DEF KInv, KTypeOK, Runner
<1>5. QED
  BY <1>1, <1>2, <1>3, <1>4, StepOnChain

\* After a failed attempt a runner submits the same index again, or stops.
LEMMA ThrownFacts ==
  ASSUME NEW r \in Runner
  PROVE  /\ Thrown(r) \in Runner
         /\ Thrown(r).index = r.index
         /\ Thrown(r).pc \in {"send", "gaveup"}
         /\ Thrown(r).pc = "send" => Thrown(r).attempt = r.attempt + 1
         /\ Thrown(r).pc = "gaveup" => ~ r.attempt + 1 < Attempts
<1>1. Attempts \in Nat /\ r.attempt \in 0..Attempts - 1
  BY KeeperAssumption DEF Runner
<1>2. CASE r.attempt + 1 < Attempts
  <2>1. Thrown(r) = [r EXCEPT !.pc = "send", !.attempt = @ + 1, !.tx = "none"]
    BY <1>2 DEF Thrown
  <2>2. r.attempt + 1 \in 0..Attempts - 1
    BY <1>1, <1>2
  <2>3. QED
    BY <2>1, <2>2 DEF Runner
<1>3. CASE ~ r.attempt + 1 < Attempts
  BY <1>3 DEF Runner, Thrown
<1>4. QED
  BY <1>2, <1>3

\* If the runner that moves is informed afterwards, all are.
LEMMA RunnerMoves ==
  ASSUME KInv, TargetStep,
         NEW k \in Keepers, NEW r \in Runner, Become(k, r),
         r.pc \in {"send", "wait"} => Known(stream'[Target], r.index),
         r.pc = "wait" /\ r.tx = "ok" => r.index < stream'[Target].executed_chunks
  PROVE  /\ runner' \in [Keepers -> Runner]
         /\ \A l \in Keepers : RunnerInformed(l)'
<1>1. runner \in [Keepers -> Runner] /\ runner' = [runner EXCEPT ![k] = r]
  BY DEF KInv, KTypeOK, Become
<1>2. ASSUME NEW l \in Keepers PROVE RunnerInformed(l)'
  <2>1. CASE l = k
    <3>1. runner'[l] = r
      BY <1>1, <2>1
    <3>2. QED
      BY <3>1 DEF RunnerInformed
  <2>2. CASE l # k
    <3>1. runner'[l] = runner[l] /\ runner[l].index \in Indices /\ RunnerInformed(l)
      BY <1>1, <2>2 DEF KInv, Runner
    <3>2. LET i == runner[l].index
          IN  /\ Known(stream[Target], i) => Known(stream'[Target], i)
              /\ i < stream[Target].executed_chunks => i < stream'[Target].executed_chunks
      BY <3>1, NeverBack DEF KInv
    <3>3. QED
      BY <3>1, <3>2 DEF RunnerInformed
  <2>3. QED
    BY <2>1, <2>2
<1>3. QED
  BY <1>1, <1>2

\* The same if no runner moves.
LEMMA NoRunnerMoves ==
  ASSUME KInv, TargetStep, UNCHANGED runner
  PROVE  /\ runner' \in [Keepers -> Runner]
         /\ \A l \in Keepers : RunnerInformed(l)'
<1>1. runner \in [Keepers -> Runner]
  BY DEF KInv, KTypeOK
<1>2. ASSUME NEW l \in Keepers PROVE RunnerInformed(l)'
  <2>1. runner[l].index \in Indices /\ RunnerInformed(l)
    BY <1>1 DEF KInv, Runner
  <2>2. LET i == runner[l].index
        IN  /\ Known(stream[Target], i) => Known(stream'[Target], i)
            /\ i < stream[Target].executed_chunks => i < stream'[Target].executed_chunks
    BY <2>1, NeverBack DEF KInv
  <2>3. QED
    BY <2>1, <2>2 DEF RunnerInformed
<1>3. QED
  BY <1>1, <1>2

\* A fault leaves at most one transaction behind.
LEMMA AbandonFacts ==
  ASSUME KInv, NEW k \in Keepers, Fault, Abandon(runner[k])
  PROVE  /\ faults' \in 0..MaxFaults
         /\ orphans' \in [Indices -> 0..MaxFaults]
         /\ OrphansCounted'
<1>1. /\ faults \in Nat /\ faults' = faults + 1 /\ faults' \in 0..MaxFaults
      /\ orphans \in [Indices -> 0..MaxFaults] /\ MaxFaults \in Nat
      /\ \A i \in Indices : orphans[i] <= faults
      /\ runner[k].index \in Indices
  BY KeeperAssumption DEF KInv, KTypeOK, Fault, OrphansCounted, Runner
<1> DEFINE j == runner[k].index
<1>2. orphans' = orphans \/ orphans' = [orphans EXCEPT ![j] = @ + 1]
  BY DEF Abandon
<1> HIDE DEF j
<1>3. \A i \in Indices : /\ orphans'[i] \in Nat
                         /\ orphans'[i] <= faults'
  BY <1>1, <1>2 DEF j
<1>4. DOMAIN orphans' = Indices /\ orphans' = [i \in Indices |-> orphans'[i]]
  BY <1>1, <1>2
<1>5. orphans' \in [Indices -> 0..MaxFaults]
  BY <1>1, <1>3, <1>4
<1>6. QED
  BY <1>1, <1>3, <1>5 DEF OrphansCounted

\* Each index is paid as the account passes it.
LEMMA PaidFacts ==
  ASSUME KInv, TargetStep
  PROVE  paid' \in [Indices -> Nat] /\ IndexPaidOnce'
<1>1. /\ paid \in [Indices -> Nat]
      /\ \A i \in Indices :
           paid[i] = IF i < stream[Target].executed_chunks THEN 1 ELSE 0
      /\ stream[Target].executed_chunks \in Nat
      /\ \A i \in Indices : i \in Nat
  BY TargetFields, WidthAssumption DEF KInv, KTypeOK, IndexPaidOnce, Indices
<1>2. CASE Kept \/ Opened
  BY <1>1, <1>2 DEF Kept, Opened, IndexPaidOnce
<1>3. ASSUME NEW i \in Indices, Advanced(i)
      PROVE  paid' \in [Indices -> Nat] /\ IndexPaidOnce'
  <2>1. /\ stream[Target].executed_chunks = i
        /\ stream'[Target].executed_chunks = i + 1
        /\ paid' = [paid EXCEPT ![i] = @ + 1]
    BY <1>3 DEF Advanced
  <2>2. QED
    BY <1>1, <2>1 DEF IndexPaidOnce
<1>4. QED
  BY <1>2, <1>3 DEF TargetStep

\* What a runner is to do next, and what it was told, is right after every step.
LEMMA RunnersStep ==
  ASSUME KInv, TargetStep, [KNext]_allvars
  PROVE  /\ runner' \in [Keepers -> Runner]
         /\ \A l \in Keepers : RunnerInformed(l)'
<1> DEFINE Goal == /\ runner' \in [Keepers -> Runner]
                   /\ \A l \in Keepers : RunnerInformed(l)'
<1>1. CASE UNCHANGED runner
  BY <1>1, NoRunnerMoves
<1>2. ASSUME NEW k \in Keepers, RunnerStep(k) \/ Execute(k) \/ RunnerFault(k)
      PROVE  Goal
  <2> DEFINE r  == runner[k]
             st == stream[Target]
  <2>1. /\ r \in Runner /\ r.index \in Indices /\ r.attempt \in 0..Attempts - 1
        /\ RunnerInformed(k)
    BY <1>2 DEF KInv, KTypeOK, Runner
  <2>2. /\ Known(st, r.index) => Known(stream'[Target], r.index)
        /\ r.index < st.executed_chunks => r.index < stream'[Target].executed_chunks
    BY <2>1, NeverBack DEF KInv
  <2> HIDE DEF Goal
  <2>3. ASSUME NEW q \in Runner, Become(k, q), q.pc \notin {"send", "wait"} PROVE Goal
    BY <1>2, <2>3, RunnerMoves DEF Goal
  <2>4. ASSUME NEW q \in Runner, Become(k, q), q.index = r.index,
               r.pc \in {"send", "wait"},
               q.tx = "ok" => r.index < stream'[Target].executed_chunks
        PROVE  Goal
    BY <1>2, <2>1, <2>2, <2>4, RunnerMoves DEF Goal, RunnerInformed
  <2>5. ASSUME Become(k, Thrown(r)), r.pc \in {"send", "wait"} PROVE Goal
    <3>1. /\ Thrown(r) \in Runner /\ Thrown(r).index = r.index
          /\ Thrown(r).pc \in {"send", "gaveup"}
      BY <2>1, ThrownFacts
    <3>2. Thrown(r).tx = "none"
      BY <2>1 DEF Thrown, Runner
    <3>3. QED
      BY <2>4, <2>5, <3>1, <3>2
  <2>6. CASE Start(k)
    <3>1. [r EXCEPT !.pc = "read"] \in Runner
      BY <2>1 DEF Runner
    <3>2. QED
      BY <2>3, <2>6, <3>1 DEF Start, Runner
  <2>7. CASE ReadActive(k)
    <3> DEFINE q == [ pc |-> "send", index |-> st.executed_chunks, attempt |-> 0,
                      tx |-> "none" ]
    <3>1. /\ st.status = "Active" /\ Become(k, q) /\ UNCHANGED <<vars, paid>>
      BY <2>7 DEF ReadActive
    <3>2. q \in Runner
      BY TargetFields, KeeperAssumption DEF Runner, KInv
    <3>3. Known(stream'[Target], q.index)
      BY <3>1, TargetFields DEF Known, KInv, vars
    <3>4. q.tx = "none"
      OBVIOUS
    <3> HIDE DEF q
    <3>5. QED
      BY <1>2, <3>1, <3>2, <3>3, <3>4, RunnerMoves DEF Goal
  <2>8. CASE ReadCompleted(k)
    <3>1. [r EXCEPT !.pc = "finished"] \in Runner
      BY <2>1 DEF Runner
    <3>2. QED
      BY <2>3, <2>8, <3>1 DEF ReadCompleted, Runner
  <2>9. CASE ReadMissing(k)
    <3>1. [r EXCEPT !.pc = "off"] \in Runner
      BY <2>1 DEF Runner
    <3>2. QED
      BY <2>3, <2>9, <3>1 DEF ReadMissing, Runner
  <2>10. CASE Submit(k)
    <3>1. [r EXCEPT !.pc = "wait", !.tx = "pending"] \in Runner
      BY <2>1 DEF Runner
    <3>2. QED
      BY <2>4, <2>10, <3>1 DEF Submit, Runner
  <2>11. CASE PreflightFails(k) \/ LoseRequest(k) \/ Reject(k) \/ LoseAnswer(k)
    BY <2>5, <2>11 DEF PreflightFails, LoseRequest, Reject, LoseAnswer
  <2>12. CASE Confirm(k)
    <3>1. [r EXCEPT !.pc = "read", !.tx = "none"] \in Runner
      BY <2>1 DEF Runner
    <3>2. QED
      BY <2>3, <2>12, <3>1 DEF Confirm, Runner
  <2>13. CASE Crash(k)
    <3>1. [r EXCEPT !.pc = "off", !.tx = "none"] \in Runner
      BY <2>1 DEF Runner
    <3>2. QED
      BY <2>3, <2>13, <3>1 DEF Crash, Runner
  <2>14. CASE Expire(k)
    <3>1. [r EXCEPT !.tx = "error"] \in Runner
      BY <2>1 DEF Runner
    <3>2. QED
      BY <2>4, <2>14, <3>1 DEF Expire, Runner
  <2>15. ASSUME r.pc = "wait", LandPaying(r.index) \/ LandNoop(r.index)
         PROVE  r.index < stream'[Target].executed_chunks
    \* The chunk is paid now, or was before: the index is not that of a chunk
    \* that the stream does not have, so only the first disjunct of IndexStale
    \* can hold.
    <3>1. Known(st, r.index)
      BY <2>1, <2>15 DEF RunnerInformed
    <3>2. CASE LandPaying(r.index)
      <4>1. Advanced(r.index)
        BY <2>1, <3>2, LandPayingFacts DEF KInv
      <4>2. QED
        BY <2>1, <4>1, TargetFields DEF Advanced, KInv
    <3>3. CASE LandNoop(r.index)
      <4>1. IndexStale(Target, r.index) /\ validate_invariants(st)
        BY <3>3 DEF LandNoop, Skips, IsNoop, Loads
      <4>2. st.status = "Completed" => st.executed_chunks = st.max_chunks
        BY <4>1 DEF validate_invariants, StatusValid
      <4>3. r.index < st.executed_chunks
        BY <2>1, <3>1, <4>1, <4>2, TargetFields, WidthAssumption
           DEF IndexStale, Known, KInv, Indices
      <4>4. QED
        BY <2>2, <4>3
    <3>4. QED
      BY <2>15, <3>2, <3>3
  <2>16. CASE Execute(k)
    <3>1. /\ r.pc = "wait"
          /\ \/ /\ LandPaying(r.index) \/ LandNoop(r.index)
                /\ Become(k, [r EXCEPT !.tx = "ok"])
             \/ Become(k, [r EXCEPT !.tx = "error"])
      BY <2>16 DEF Execute
    <3>2. /\ [r EXCEPT !.tx = "ok"] \in Runner
          /\ [r EXCEPT !.tx = "error"] \in Runner
          /\ [r EXCEPT !.tx = "ok"].index = r.index
          /\ [r EXCEPT !.tx = "error"].index = r.index
          /\ [r EXCEPT !.tx = "error"].tx = "error"
      BY <2>1 DEF Runner
    <3>3. QED
      BY <2>4, <2>15, <3>1, <3>2
  <2>17. QED
    BY <1>2, <2>6, <2>7, <2>8, <2>9, <2>10, <2>11, <2>12, <2>13, <2>14, <2>16
       DEF RunnerStep, RunnerFault
<1>3. ASSUME NEW i \in Indices, OrphanLands(i) \/ OrphanExpires(i) PROVE UNCHANGED runner
  BY <1>3 DEF OrphanLands, OrphanExpires
<1>4. QED
  BY <1>1, <1>2, <1>3 DEF KNext, kvars, allvars

\* Every transaction that is left behind is left by a fault.
LEMMA OrphansStep ==
  ASSUME KInv, [KNext]_allvars
  PROVE  /\ faults' \in 0..MaxFaults
         /\ orphans' \in [Indices -> 0..MaxFaults]
         /\ OrphansCounted'
<1> DEFINE Goal == /\ faults' \in 0..MaxFaults
                   /\ orphans' \in [Indices -> 0..MaxFaults]
                   /\ OrphansCounted'
<1>1. /\ faults \in 0..MaxFaults /\ faults \in Nat /\ MaxFaults \in Nat
      /\ orphans \in [Indices -> 0..MaxFaults]
      /\ \A i \in Indices : orphans[i] <= faults
  BY KeeperAssumption DEF KInv, KTypeOK, OrphansCounted
<1>2. CASE UNCHANGED <<orphans, faults>>
  BY <1>1, <1>2 DEF OrphansCounted
<1>3. CASE Fault /\ UNCHANGED orphans
  BY <1>1, <1>3 DEF OrphansCounted, Fault
<1> HIDE DEF Goal
<1>4. ASSUME NEW k \in Keepers, RunnerStep(k) \/ Execute(k) \/ RunnerFault(k)
      PROVE  Goal
  <2>1. CASE LoseAnswer(k) \/ Crash(k)
    BY <1>4, <2>1, AbandonFacts DEF LoseAnswer, Crash, Goal
  <2>2. CASE LoseRequest(k) \/ Expire(k)
    BY <1>3, <2>2 DEF LoseRequest, Expire, Goal
  <2>3. CASE RunnerStep(k) \/ Execute(k)
    BY <1>2, <2>3 DEF RunnerStep, Start, ReadActive, ReadCompleted, ReadMissing, Submit,
                      PreflightFails, Confirm, Reject, Execute, Goal
  <2>4. QED
    BY <1>4, <2>1, <2>2, <2>3 DEF RunnerFault
<1>5. ASSUME NEW i \in Indices, OrphanLands(i) \/ OrphanExpires(i) PROVE Goal
  <2>1. orphans[i] > 0 /\ orphans' = [orphans EXCEPT ![i] = @ - 1] /\ faults' = faults
    BY <1>5 DEF OrphanLands, OrphanExpires
  <2>2. QED
    BY <1>1, <2>1 DEF Goal, OrphansCounted
<1>6. QED
  BY <1>2, <1>4, <1>5 DEF KNext, kvars, allvars, Goal

LEMMA NextKInv == KInv /\ [KNext]_allvars => KInv'
<1> SUFFICES ASSUME KInv, [KNext]_allvars PROVE KInv'
  OBVIOUS
<1>1. [Next]_vars /\ TargetStep
  BY StepIsProgramStep
<1>2. IInv' /\ TypeOK'
  BY <1>1, NextIInv DEF KInv, IInv
<1>3. /\ runner' \in [Keepers -> Runner]
      /\ \A k \in Keepers : RunnerInformed(k)'
  BY <1>1, RunnersStep
<1>4. /\ faults' \in 0..MaxFaults
      /\ orphans' \in [Indices -> 0..MaxFaults]
      /\ OrphansCounted'
  BY OrphansStep
<1>5. paid' \in [Indices -> Nat] /\ IndexPaidOnce'
  BY <1>1, PaidFacts
<1>6. QED
  BY <1>2, <1>3, <1>4, <1>5 DEF KInv, KTypeOK

-----------------------------------------------------------------------------
(* Theorems *)

\* In every reachable state the runners are informed, however they race.
THEOREM KeeperInvariance == KSpec => []KInv
<1>1. KInit => KInv
  BY InitKInv
<1>2. KInv /\ [KNext]_allvars => KInv'
  BY NextKInv
<1>3. QED
  BY <1>1, <1>2, PTL DEF KSpec

\* Seen from the chain, runners are some of the callers that NativeStream allows
\* for, however they race and fail: all its theorems hold of them.
THEOREM KeeperUsesChain == KSpec => Spec
<1>1. KInit => Init
  BY DEF KInit
<1>2. KInv /\ [KNext]_allvars => [Next]_vars
  BY StepIsProgramStep
<1>3. QED
  BY <1>1, <1>2, KeeperInvariance, PTL DEF KSpec, Spec

\* The variables keep their types: no more transactions are left in flight than
\* there were faults, and no attempt is counted beyond the last.
THEOREM KeeperTypes == KSpec => []KTypeOK
<1>1. KInv => KTypeOK
  BY DEF KInv
<1>2. QED
  BY <1>1, KeeperInvariance, PTL

\* Runners that race, retry, crash and leave transactions behind pay every
\* index below executed_chunks exactly once, and no other.
THEOREM NoIndexTwice == KSpec => []IndexPaidOnce
<1>1. KInv => IndexPaidOnce
  BY DEF KInv
<1>2. QED
  BY <1>1, KeeperInvariance, PTL

\* A runner whose attempt is confirmed moves on only past an executed chunk.
THEOREM ConfirmedIsExecuted == KSpec => ConfirmedMeansExecuted
<1> DEFINE Told(k) == runner[k].pc = "wait" /\ runner'[k].pc = "read" =>
                        stream[Target].executed_chunks > runner[k].index
<1>1. ASSUME KInv, [KNext]_allvars, NEW k \in Keepers,
             runner[k].pc = "wait", runner'[k].pc = "read"
      PROVE  stream[Target].executed_chunks > runner[k].index
  <2>1. runner \in [Keepers -> Runner] /\ RunnerInformed(k)
    BY <1>1 DEF KInv, KTypeOK
  <2>2. ASSUME NEW l \in Keepers, RunnerStep(l) \/ Execute(l) \/ RunnerFault(l)
        PROVE  runner[k].tx = "ok"
    <3>1. \E q : runner' = [runner EXCEPT ![l] = q]
      BY <2>2 DEF RunnerStep, Start, ReadActive, ReadCompleted, ReadMissing, Submit,
                  PreflightFails, Confirm, Reject, RunnerFault, LoseRequest, LoseAnswer,
                  Expire, Crash, Execute, Become
    <3>2. l = k
      BY <1>1, <2>1, <3>1
    <3>3. CASE Confirm(k)
      BY <3>3 DEF Confirm
    <3>4. Thrown(runner[k]).pc # "read"
      BY <2>1, ThrownFacts
    <3>5. CASE ~ Confirm(k)
      BY <1>1, <2>1, <2>2, <3>2, <3>4, <3>5
         DEF RunnerStep, Start, ReadActive, ReadCompleted, ReadMissing, Submit,
             PreflightFails, Reject, RunnerFault, LoseRequest, LoseAnswer,
             Expire, Crash, Execute, Become, Runner
    <3>6. QED
      BY <3>3, <3>5
  <2>3. ASSUME NEW i \in Indices, OrphanLands(i) \/ OrphanExpires(i) PROVE FALSE
    BY <1>1, <2>3 DEF OrphanLands, OrphanExpires
  <2>4. runner' # runner
    BY <1>1
  <2>5. runner[k].tx = "ok"
    BY <1>1, <2>2, <2>3, <2>4 DEF KNext, kvars, allvars
  <2>6. runner[k].index < stream[Target].executed_chunks
    BY <1>1, <2>1, <2>5 DEF RunnerInformed
  <2>7. runner[k].index \in Int /\ stream[Target].executed_chunks \in Int
    BY <1>1, <2>1, TargetFields, WidthAssumption DEF KInv, Runner, Indices
  <2>8. QED
    BY <2>6, <2>7
<1>2. KInv /\ [KNext]_allvars => [\A k \in Keepers : Told(k)]_allvars
  BY <1>1
<1>3. QED
  BY <1>2, KeeperInvariance, PTL DEF KSpec, ConfirmedMeansExecuted

-----------------------------------------------------------------------------
(* Retrying is enough when nothing but the network fails *)

\* The schedule that init-stream asks for, amounts whose schedule fits, no
\* tokens from outside, a recipient whose account stays open, because it is
\* that of a stream or never empty, and more attempts than faults.
Undisturbed ==
  /\ Starts \subseteq {0} /\ Intervals \subseteq {0}
  /\ \A total \in Totals : total <= I64Max
  /\ Payees = {}
  /\ Destination \in Wallets => /\ InitialBalance[Destination] > 0
                                /\ Destination # SenderOf[Target]
  /\ MaxFaults < Attempts

\* The recipient can be paid, and every chunk is due.
Payable ==
  /\ gifts[Target] = 0
  /\ Destination \notin closed
  /\ Destination \in Wallets => ledger[Destination] > 0
  /\ stream[Target].status # "Uninitialized" =>
       /\ stream[Target].start_timestamp <= now
       /\ stream[Target].interval_seconds = 0
       /\ stream[Target].total_amount <= I64Max

\* Every attempt that failed, or is about to, was spoilt by a fault of its own.
AttemptsCharged ==
  \A k \in Keepers :
    runner[k].attempt + (IF runner[k].tx = "error" THEN 1 ELSE 0) <= faults

\* Every chunk is at least one base unit.
LEMMA ChunksWithinTotal ==
  ASSUME NEW st \in Stream(Accounts), validate_invariants(st)
  PROVE  st.max_chunks <= st.total_amount
<1> DEFINE m == st.max_chunks
           c == st.chunk_amount
           t == st.total_amount
<1>1. m \in Nat /\ c \in Nat /\ t \in Nat
  BY Fields
<1>2. t \in U64 /\ c \in U64 /\ t # 0 /\ c # 0 /\ m = ceil_div(t, c)
  BY DEF validate_invariants, AmountsValid, Stream
<1>3. m > 0 /\ (m - 1) * c < t
  BY <1>1, <1>2, CeilDiv DEF Err
<1> HIDE DEF m, c, t
<1>4. 1 * (m - 1) <= c * (m - 1)
  BY <1>1, <1>2, <1>3, ProductMonotone
<1>5. (m - 1) * c = c * (m - 1)
  BY <1>1
<1>6. QED
  BY <1>1, <1>3, <1>4, <1>5 DEF m, t

\* Then a transaction with the index of a chunk of the stream never fails.
LEMMA NeverFails ==
  ASSUME Undisturbed, IInv, Payable, NEW i \in Indices, Known(stream[Target], i)
  PROVE  Pays(i) \/ Skips(i)
<1> DEFINE st == stream[Target]
<1>1. /\ Target \in Streams /\ st \in Stream(Accounts)
      /\ validate_invariants(st) /\ st.route = Destination
      /\ st.executed_chunks \in Nat /\ i \in Nat
  BY TargetFields, WidthAssumption DEF Known, Indices
<1>2. Loads(Target, Target, Destination)
  BY <1>1 DEF Loads, BoundAccounts, Destination, Payable
<1>3. CASE i < st.executed_chunks
  BY <1>2, <1>3 DEF Skips, IsNoop, IndexStale
<1>4. CASE i = st.executed_chunks
  <2>1. st.status = "Active"
    BY <1>1, <1>4, TargetFields DEF Known, validate_invariants, StatusValid
  <2>2. /\ st.start_timestamp \in I64 /\ st.interval_seconds = 0 /\ 0 \in I64
        /\ st.executed_chunks \in U64 /\ st.max_chunks \in Nat
        /\ st.start_timestamp \in Int /\ st.start_timestamp <= now
        /\ now \in Nat /\ now <= I64Max /\ I64Max \in Nat
    BY <1>1, <2>1, InputAssumption, WidthAssumption, Fields
       DEF Payable, Stream, IInv, TypeOK, I64
  <2>3. st.next_release_timestamp = st.start_timestamp
    <3>1. /\ st.next_release_timestamp
               = next_release_timestamp(st.start_timestamp, st.executed_chunks, 0)
          /\ st.next_release_timestamp # Err
      BY <1>1, <2>2 DEF validate_invariants, TimesValid
    <3>2. st.next_release_timestamp = st.start_timestamp + st.executed_chunks * 0
      BY <2>2, <3>1, NextRelease
    <3>3. st.executed_chunks * 0 = 0
      BY <1>1
    <3>4. QED
      BY <2>2, <3>2, <3>3
  <2>4. Owed(Target)
    BY <1>1, <2>1, <2>2, <2>3 DEF Owed, Due, Payable
  <2>5. ScheduleFits(Target)
    <3>1. st.max_chunks <= st.total_amount /\ st.total_amount <= I64Max
          /\ st.total_amount \in Nat
      BY <1>1, <2>1, ChunksWithinTotal, Fields DEF Payable
    <3>2. st.max_chunks * 0 = 0
      BY <2>2
    <3>3. QED
      BY <2>2, <3>1, <3>2 DEF ScheduleFits
  <2>6. QED
    BY <1>1, <1>4, <2>4, <2>5, OwedReleases DEF DueReleaseSucceeds, Payable, Pays
<1>5. QED
  BY <1>1, <1>3, <1>4 DEF Known

\* No step of anyone makes the recipient unable to be paid.
LEMMA PayableStep ==
  ASSUME Undisturbed, KInv, Payable, [KNext]_allvars
  PROVE  Payable'
<1> DEFINE st == stream[Target]
<1>1. /\ Target \in Streams /\ Target \in Accounts /\ Destination \in Accounts
      /\ Destination # Target /\ SenderOf[Target] \in Accounts
      /\ stream \in [Streams -> Stream(Accounts)] /\ IInv
      /\ ledger \in [Accounts -> Nat] /\ now \in Nat /\ closed \subseteq Wallets
  BY KeeperAssumption, Seeds, InputAssumption DEF KInv, IInv, TypeOK, Destination
<1>2. CASE UNCHANGED <<vars, paid>>
  BY <1>2 DEF Payable, vars
<1>3. ASSUME NEW i \in Indices, LandPaying(i) PROVE Payable'
  <2> DEFINE amount == next_amount(st)
  <2>1. /\ st \in Stream(Accounts)
        /\ validate_invariants(st) /\ st.status = "Active" /\ CanAdvance(st)
        /\ amount \in Nat
        /\ stream' = [stream EXCEPT ![Target] = Released(st)]
        /\ ledger'[Destination] = ledger[Destination] + amount
        /\ gifts'[Target] = gifts[Target]
        /\ UNCHANGED <<closed, now>>
    BY <1>1, <1>3, ReleaseFacts DEF LandPaying
  <2>2. /\ stream'[Target] = Released(st)
        /\ Released(st).total_amount = st.total_amount
        /\ Released(st).start_timestamp = st.start_timestamp
        /\ Released(st).interval_seconds = st.interval_seconds
    BY <1>1, <2>1, ReleasedFacts
  <2> HIDE DEF amount
  <2>3. ledger[Destination] > 0 => ledger'[Destination] > 0
    BY <1>1, <2>1
  <2>4. QED
    BY <2>1, <2>2, <2>3 DEF Payable
<1>4. ASSUME InitializeBySender(Target) PROVE Payable'
  <2>1. PICK total \in Totals, chunk \in Chunks, start \in Starts, interval \in Intervals :
          Initialize(Target, total, chunk, start, interval)
    BY <1>4 DEF InitializeBySender
  <2> DEFINE new == Initialized(Target, total, chunk, start, interval)
  <2>2. /\ stream' = [stream EXCEPT ![Target] = new]
        /\ \A a \in Accounts \ {Target, SenderOf[Target]} : ledger'[a] = ledger[a]
        /\ new.total_amount = total
        /\ UNCHANGED <<closed, gifts, now>>
    BY <1>1, <2>1, InitializeFacts
  <2>3. /\ start = 0 /\ interval = 0 /\ total <= I64Max
        /\ Destination \in Wallets => Destination # SenderOf[Target]
    BY DEF Undisturbed
  <2>4. new.start_timestamp = now /\ new.interval_seconds = 0
    BY <2>3 DEF Initialized, StartTime
  <2> HIDE DEF new
  <2>5. stream'[Target] = new
    BY <1>1, <2>2
  <2>6. Destination \in Wallets => ledger'[Destination] = ledger[Destination]
    BY <1>1, <2>2, <2>3
  <2>7. QED
    BY <1>1, <2>2, <2>3, <2>4, <2>5, <2>6 DEF Payable
<1>5. ASSUME Environment PROVE Payable'
  <2>1. ASSUME NEW w \in Wallets, CloseAccount(w) PROVE Payable'
    BY <1>1, <2>1 DEF CloseAccount, Payable
  <2>2. ASSUME NEW w \in Wallets, CreateAccount(w) PROVE Payable'
    BY <2>2 DEF CreateAccount, Payable
  <2>3. CASE Tick
    <3>1. st.start_timestamp \in Int
      BY <1>1, Fields
    <3>2. QED
      BY <1>1, <2>3, <3>1 DEF Tick, Payable
  <2>4. QED
    BY <1>5, <2>1, <2>2, <2>3 DEF Environment, Undisturbed
<1>6. \A k \in Keepers : runner[k].index \in Indices
  BY DEF KInv, KTypeOK, Runner
<1>7. QED
  BY <1>2, <1>3, <1>4, <1>5, <1>6, StepOnChain DEF Chain

\* A runner is charged a fault for every attempt, and there are fewer faults
\* than attempts.
LEMMA AttemptsStep ==
  ASSUME Undisturbed, KInv, Payable, AttemptsCharged, NeverGivesUp, [KNext]_allvars
  PROVE  AttemptsCharged' /\ NeverGivesUp'
<1> DEFINE Spent(r)  == r.attempt + (IF r.tx = "error" THEN 1 ELSE 0)
           Goal      == AttemptsCharged' /\ NeverGivesUp'
           Fine(r)   == Spent(r) <= faults' /\ r.pc # "gaveup"
<1>1. /\ runner \in [Keepers -> Runner]
      /\ faults \in Nat /\ faults' \in Nat /\ faults <= faults'
      /\ faults' <= MaxFaults /\ MaxFaults \in Nat /\ Attempts \in Nat
      /\ MaxFaults < Attempts
      /\ \A k \in Keepers : Spent(runner[k]) <= faults /\ runner[k].pc # "gaveup"
      /\ \A k \in Keepers : runner[k].attempt \in Nat
  <2>1. /\ runner \in [Keepers -> Runner]
        /\ faults \in Nat /\ MaxFaults \in Nat /\ Attempts \in Nat
        /\ MaxFaults < Attempts
        /\ \A k \in Keepers : Spent(runner[k]) <= faults /\ runner[k].pc # "gaveup"
    BY KeeperAssumption
       DEF KInv, KTypeOK, Undisturbed, AttemptsCharged, NeverGivesUp
  <2>2. \A k \in Keepers : runner[k].attempt \in Nat
    BY <2>1 DEF Runner
  <2>3. faults' \in Nat /\ faults' <= MaxFaults
    BY <2>1, OrphansStep
  <2>4. faults <= faults'
    <3>1. ASSUME NEW k \in Keepers, RunnerStep(k) \/ Execute(k) \/ RunnerFault(k)
          PROVE  UNCHANGED faults \/ Fault
      BY <3>1 DEF RunnerStep, Start, ReadActive, ReadCompleted, ReadMissing, Submit,
                  PreflightFails, Confirm, Reject, RunnerFault, LoseRequest, LoseAnswer,
                  Expire, Crash, Execute
    <3>2. ASSUME NEW i \in Indices, OrphanLands(i) \/ OrphanExpires(i)
          PROVE  UNCHANGED faults
      BY <3>2 DEF OrphanLands, OrphanExpires
    <3>3. UNCHANGED faults \/ Fault
      BY <3>1, <3>2 DEF KNext, kvars, allvars
    <3>4. QED
      BY <2>1, <3>3 DEF Fault
  <2>5. QED
    BY <2>1, <2>2, <2>3, <2>4
<1>2. CASE UNCHANGED runner
  BY <1>1, <1>2 DEF AttemptsCharged, NeverGivesUp
<1>3. ASSUME NEW k \in Keepers, NEW q, Become(k, q), Fine(q) PROVE Goal
  BY <1>1, <1>3 DEF Become, AttemptsCharged, NeverGivesUp
<1> HIDE DEF Goal
<1>4. ASSUME NEW k \in Keepers, RunnerStep(k) \/ Execute(k) \/ RunnerFault(k)
      PROVE  Goal
  <2> DEFINE r == runner[k]
  <2>1. /\ r \in Runner /\ r.index \in Indices /\ r.attempt \in Nat
        /\ Spent(r) <= faults /\ r.pc # "gaveup" /\ RunnerInformed(k)
    BY <1>1, <1>4 DEF Runner, KInv
  <2>2. r.pc \in {"send", "wait"} => Pays(r.index) \/ Skips(r.index)
    BY <2>1, NeverFails DEF RunnerInformed, KInv
  <2>3. ASSUME r.attempt + 1 <= faults', Become(k, Thrown(r)) PROVE Goal
    <3>1. r.attempt + 1 < Attempts
      BY <1>1, <2>1, <2>3
    <3>2. /\ Thrown(r).pc = "send" /\ Thrown(r).attempt = r.attempt + 1
          /\ Thrown(r).tx = "none"
      BY <2>1, <3>1 DEF Thrown, Runner
    <3>3. Fine(Thrown(r))
      BY <1>1, <2>1, <2>3, <3>2
    <3>4. QED
      BY <1>3, <1>4, <2>3, <3>3
  <2>4. ASSUME NEW q, q.attempt = r.attempt \/ q.attempt = 0,
               q.tx \in {"none", "pending", "ok"} \/ (q.tx = r.tx /\ q.attempt = r.attempt),
               q.pc # "gaveup"
        PROVE  Fine(q)
    BY <1>1, <2>1, <2>4
  <2> HIDE DEF Fine
  <2>5. CASE Start(k)
    <3>1. Fine([r EXCEPT !.pc = "read"])
      BY <2>1, <2>4 DEF Runner
    <3>2. QED
      BY <1>3, <2>5, <3>1 DEF Start
  <2>6. CASE ReadActive(k)
    <3> DEFINE q == [ pc |-> "send", index |-> stream[Target].executed_chunks,
                      attempt |-> 0, tx |-> "none" ]
    <3>1. q.attempt = 0 /\ q.tx = "none" /\ q.pc = "send"
      OBVIOUS
    <3>2. Become(k, q)
      BY <2>6 DEF ReadActive
    <3> HIDE DEF q
    <3>3. Fine(q)
      BY <1>1, <3>1 DEF Fine
    <3>4. QED
      BY <1>3, <1>4, <3>2, <3>3
  <2>7. CASE ReadCompleted(k)
    <3>1. Fine([r EXCEPT !.pc = "finished"])
      BY <2>1, <2>4 DEF Runner
    <3>2. QED
      BY <1>3, <2>7, <3>1 DEF ReadCompleted
  <2>8. CASE ReadMissing(k)
    <3>1. Fine([r EXCEPT !.pc = "off"])
      BY <2>1, <2>4 DEF Runner
    <3>2. QED
      BY <1>3, <2>8, <3>1 DEF ReadMissing
  <2>9. CASE Submit(k)
    <3>1. Fine([r EXCEPT !.pc = "wait", !.tx = "pending"])
      BY <2>1, <2>4 DEF Runner
    <3>2. QED
      BY <1>3, <2>9, <3>1 DEF Submit
  <2>10. ~ PreflightFails(k)
    \* The simulation never fails.
    BY <2>2 DEF PreflightFails
  <2>11. CASE Confirm(k)
    <3>1. Fine([r EXCEPT !.pc = "read", !.tx = "none"])
      BY <2>1, <2>4 DEF Runner
    <3>2. QED
      BY <1>3, <2>11, <3>1 DEF Confirm
  <2>12. CASE Reject(k)
    \* The fault that made the error has been charged already.
    <3>1. r.attempt + 1 <= faults'
      BY <1>1, <2>1, <2>12 DEF Reject
    <3>2. QED
      BY <2>3, <2>12, <3>1 DEF Reject
  <2>13. CASE LoseRequest(k) \/ LoseAnswer(k)
    <3>1. faults' = faults + 1 /\ Become(k, Thrown(r))
      BY <2>13 DEF LoseRequest, LoseAnswer, Fault
    <3>2. r.attempt <= faults
      BY <1>1, <2>1
    <3>3. QED
      BY <1>1, <2>1, <2>3, <3>1, <3>2
  <2>14. CASE Expire(k)
    <3>1. /\ faults' = faults + 1 /\ r.tx = "pending" /\ r.pc = "wait"
          /\ Become(k, [r EXCEPT !.tx = "error"])
      BY <2>14 DEF Expire, Fault
    <3>2. Fine([r EXCEPT !.tx = "error"])
      BY <1>1, <2>1, <3>1 DEF Fine, Runner
    <3>3. QED
      BY <1>3, <1>4, <3>1, <3>2
  <2>15. CASE Crash(k)
    <3>1. Fine([r EXCEPT !.pc = "off", !.tx = "none"])
      BY <2>1, <2>4 DEF Runner
    <3>2. QED
      BY <1>3, <2>15, <3>1 DEF Crash
  <2>16. CASE Execute(k)
    \* Neither does the transaction.
    <3>1. Become(k, [r EXCEPT !.tx = "ok"])
      BY <2>2, <2>16 DEF Execute, LandFailing
    <3>2. Fine([r EXCEPT !.tx = "ok"])
      BY <2>1, <2>4 DEF Runner
    <3>3. QED
      BY <1>3, <1>4, <3>1, <3>2
  <2>17. QED
    BY <1>4, <2>5, <2>6, <2>7, <2>8, <2>9, <2>10, <2>11, <2>12, <2>13, <2>14, <2>15, <2>16
       DEF RunnerStep, RunnerFault
<1>5. ASSUME NEW i \in Indices, OrphanLands(i) \/ OrphanExpires(i) PROVE UNCHANGED runner
  BY <1>5 DEF OrphanLands, OrphanExpires
<1>6. QED
  BY <1>2, <1>4, <1>5 DEF KNext, kvars, allvars, Goal

\* If every chunk is due and its recipient's account stays open, then races,
\* expiries and lost requests and answers cost a runner at most one attempt
\* each, so one with more attempts than there are faults never gives up.
THEOREM RetriesSuffice == ASSUME Undisturbed PROVE KSpec => []NeverGivesUp
<1> DEFINE Inv == Payable /\ AttemptsCharged /\ NeverGivesUp
<1>1. KInit => Inv
  <2> SUFFICES ASSUME KInit PROVE Inv
    OBVIOUS
  <2>1. stream[Target].status = "Uninitialized" /\ gifts[Target] = 0 /\ closed = {}
    BY KeeperAssumption, BlankFacts DEF KInit, Init
  <2>2. Destination \in Wallets => ledger[Destination] > 0
    BY KeeperAssumption, Seeds DEF KInit, Init, Undisturbed, Accounts
  <2>3. AttemptsCharged /\ NeverGivesUp
    BY DEF KInit, AttemptsCharged, NeverGivesUp
  <2>4. QED
    BY <2>1, <2>2, <2>3 DEF Payable
<1>2. KInv /\ Inv /\ [KNext]_allvars => Inv'
  BY PayableStep, AttemptsStep
<1>3. Inv => NeverGivesUp
  OBVIOUS
<1>4. QED
  BY <1>1, <1>2, <1>3, KeeperInvariance, PTL DEF KSpec
=============================================================================
