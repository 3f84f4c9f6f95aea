---------------------------- MODULE NativeClient -----------------------------
(***************************************************************************)
(* The commands of the native client, setup, init-stream, run and demo,    *)
(* and the files they leave for one another: the state file and the keys.  *)
(*                                                                         *)
(* Source: native/client/index.ts and state.ts, and wire.ts through        *)
(* NativeWire.  The chain is NativeStream.  Each command reads the state   *)
(* file once and works on that copy, and writes it back after it has       *)
(* awaited the network; a key file that cannot be read is replaced by a    *)
(* new key, in several steps.  So commands that run at the same time       *)
(* interleave, and a process may die between any two steps.  No file is    *)
(* locked: saveState first empties the file and then writes it, and what   *)
(* two processes write at a time may get mixed up.  A key file is written  *)
(* in one step: whoever read it while it is empty would generate a key of  *)
(* its own, as those do that read it before.                               *)
(*                                                                         *)
(* Each setup creates a mint, and stream_id is always 1, so that a stream  *)
(* stands for its mint: SenderOf[s] is the sender's token account of that  *)
(* mint.  One round of run, which NativeKeeper details, is one step here,  *)
(* and so is what setup asks of the network, which concerns nobody else.   *)
(* The token accounts that init-stream's transaction creates if they do    *)
(* not exist are open all the time, and the clock stands still: the        *)
(* schedule that init-stream asks for has every chunk due at once.         *)
(*                                                                         *)
(* Bounds: the number of setups is that of Streams; MaxFaults caps the     *)
(* crashes, lost keys and lost answers.                                    *)
(***************************************************************************)
EXTENDS NativeStream, NativeWire

CONSTANTS
  Procs,             \* processes, each running one command at a time
  Commands,          \* the commands that each of them may be given
  TOTAL, CHUNK,
  NoStream,            \* no stream
  MaxFaults

CommandNames == {"setup", "init-stream", "run", "demo"}

\* What the client asks for is among what a sender may choose.
ASSUME ClientAssumption ==
  /\ Commands \in [Procs -> SUBSET CommandNames]
  /\ TOTAL \in Totals \ {0}
  /\ CHUNK \in Chunks \cap 1..TOTAL
  /\ 0 \in Starts \cap Intervals
  /\ NoStream \notin Streams
  /\ \A s \in Streams : RecipientOf[s] \in Wallets
  /\ \A s \in Streams : InitialBalance[SenderOf[s]] = TOTAL
  /\ \A s, t \in Streams : SenderOf[s] = SenderOf[t] => s = t
  /\ MaxFaults \in Nat

VARIABLES
  file,         \* .local/node-client.json
  key,          \* the sender and keeper key that the key files hold
  readable,     \* key files that can be read
  generated,    \* keys generated so far for each of the files
  minted,       \* streams whose mint a setup has created
  airdropped,   \* keeper keys that hold lamports
  proc,         \* program counter and local variables of each process
  pending,      \* initialize transactions that nobody waits for
  faults        \* faults so far

keys     == <<key, readable, generated>>
cvars    == <<file, keys, minted, airdropped, proc, pending, faults>>
allvars  == <<vars, cvars>>

KeyFiles == {"sender", "keeper"}

\* `recorded' tells whether stream, vault and recipientToken are in the file.
LocalState == [deal : Streams, sender : Nat, recorded : BOOLEAN]

\* What setup has put together of it so far.
Partial == [deal : {NoStream}, sender : Nat, recorded : {FALSE}]

\* No file, or one that JSON.parse rejects.
Unreadable == [deal |-> NoStream, sender |-> 0, recorded |-> FALSE]

\* Where loadOrCreate is called: by setup, by init-stream and by run.
AtKey == {"sender key", "keeper key", "init key", "run key"}

\* `made' is the key that loadOrCreate has generated but not written; `open' tells
\* whether the state file that the process is about to write is emptied already.
Process ==
  [ pc     : AtKey \cup {"off", "fund", "save setup", "init", "send", "save init",
                         "run", "loop"},
    demo   : BOOLEAN,
    state  : LocalState \cup Partial,
    keeper : Nat,
    made   : Nat,
    open   : BOOLEAN ]

Off == [ pc |-> "off", demo |-> FALSE, state |-> Unreadable, keeper |-> 0,
         made |-> 0, open |-> FALSE ]

CInit ==
  /\ Init
  /\ file = Unreadable
  /\ key = [n \in KeyFiles |-> 0]
  /\ readable = {}
  /\ generated = [n \in KeyFiles |-> 0]
  /\ minted = {}
  /\ airdropped = {}
  /\ proc = [p \in Procs |-> Off]
  /\ pending = {}
  /\ faults = 0

-----------------------------------------------------------------------------

Become(p, r) == proc' = [proc EXCEPT ![p] = r]

Fault == faults < MaxFaults /\ faults' = faults + 1

\* demo goes on to its next command; any other command is done.
GoOn(p, pc) ==
  Become(p, IF proc[p].demo THEN [Off EXCEPT !.pc = pc, !.demo = TRUE] ELSE Off)

\* npm run setup, init-stream, run or demo.
Start(p, command) ==
  /\ proc[p].pc = "off"
  /\ command \in Commands[p]
  /\ Become(p, [Off EXCEPT
       !.pc = CASE command = "init-stream" -> "init"
                [] command = "run"         -> "run"
                [] OTHER                   -> "sender key",
       !.demo = command = "demo"])
  /\ UNCHANGED <<vars, file, keys, minted, airdropped, pending, faults>>

-----------------------------------------------------------------------------
(* loadOrCreate *)

\* The file that the call is about.
KeyFile(p) == IF proc[p].pc \in {"sender key", "init key"} THEN "sender" ELSE "keeper"

\* It returns key k.  init-stream's transaction needs the signature of the sender
\* that the state file names.
Got(p, k) ==
  LET r == [proc[p] EXCEPT !.made = 0]
  IN  \/ /\ r.pc = "sender key"
         /\ Become(p, [r EXCEPT !.pc = "keeper key", !.state.sender = k])
      \/ r.pc = "keeper key" /\ Become(p, [r EXCEPT !.pc = "fund", !.keeper = k])
      \/ /\ r.pc = "init key"
         /\ Become(p, IF k = r.state.sender THEN [r EXCEPT !.pc = "send"] ELSE Off)
      \/ r.pc = "run key" /\ Become(p, [r EXCEPT !.pc = "loop", !.keeper = k])

LoadKey(p) ==
  /\ proc[p].made = 0
  /\ KeyFile(p) \in readable
  /\ Got(p, key[KeyFile(p)])
  /\ UNCHANGED <<vars, file, keys, minted, airdropped, pending, faults>>

\* The read failed.
GenerateKey(p) ==
  LET n == KeyFile(p)
  IN  /\ proc[p].pc \in AtKey
      /\ proc[p].made = 0
      /\ n \notin readable
      /\ generated' = [generated EXCEPT ![n] = @ + 1]
      /\ Become(p, [proc[p] EXCEPT !.made = generated[n] + 1])
      /\ UNCHANGED <<vars, file, key, readable, minted, airdropped, pending, faults>>

\* The new key replaces whatever is in the file by now.
WriteKey(p) ==
  LET n == KeyFile(p)
  IN  /\ proc[p].made # 0
      /\ key' = [key EXCEPT ![n] = proc[p].made]
      /\ readable' = readable \cup {n}
      /\ Got(p, proc[p].made)
      /\ UNCHANGED <<vars, file, generated, minted, airdropped, pending, faults>>

-----------------------------------------------------------------------------
(* saveState *)

\* (Mutated form: init-stream reads the file again, to add the addresses to what
\* is there now.)
OpenFile_Reread(p) ==
  /\ proc[p].pc \in {"save setup", "save init"}
  /\ ~proc[p].open
  /\ file' = Unreadable
  /\ Become(p, [proc[p] EXCEPT
       !.open = TRUE,
       !.state = IF proc[p].pc = "save init" /\ file # Unreadable THEN file ELSE @])
  /\ UNCHANGED <<vars, keys, minted, airdropped, pending, faults>>

OpenFile(p) ==
  /\ proc[p].pc \in {"save setup", "save init"}
  /\ ~proc[p].open
  /\ file' = Unreadable
  /\ Become(p, [proc[p] EXCEPT !.open = TRUE])
  /\ UNCHANGED <<vars, keys, minted, airdropped, pending, faults>>

\* State r is written.  What was written since the file was emptied may be longer
\* and stick out.
Write(r) ==
  \/ file' = r
  \/ file # Unreadable /\ file' = Unreadable

-----------------------------------------------------------------------------
(* setup *)

\* Airdrops, a new mint, and TOTAL of it for the sender.  Which of the unused
\* mints stands for the new one does not matter.
Fund(p) ==
  /\ proc[p].pc = "fund"
  /\ airdropped' = airdropped \cup {proc[p].keeper}
  /\ minted # Streams
  /\ \E s \in {CHOOSE s \in Streams : s \notin minted} :
       /\ minted' = minted \cup {s}
       /\ Become(p, [proc[p] EXCEPT !.pc = "save setup", !.state.deal = s, !.keeper = 0])
  /\ UNCHANGED <<vars, file, keys, pending, faults>>

SaveSetup(p) ==
  /\ proc[p].pc = "save setup"
  /\ proc[p].open
  /\ Write(proc[p].state)
  /\ GoOn(p, "init")
  /\ UNCHANGED <<vars, keys, minted, airdropped, pending, faults>>

-----------------------------------------------------------------------------
(* init-stream *)

\* (Mutated form: a file that cannot be read counts as an empty one.)
CanLoad_Always == TRUE

\* loadState does not throw.
CanLoad == file # Unreadable

LoadForInit(p) ==
  /\ proc[p].pc = "init"
  /\ CanLoad
  /\ Become(p, [proc[p] EXCEPT !.pc = "init key", !.state = file])
  /\ UNCHANGED <<vars, file, keys, minted, airdropped, pending, faults>>

\* The program's part of the transaction, as the client encodes it ...
InitData == initializeData(TOTAL, CHUNK, Bump)

\* ... and as the program decodes it.
InitArgs == InitializeArgs(InitData)

Decoded ==
  /\ IsInitialize(InitData)
  /\ InitArgs.stream_id = StreamId
  /\ InitArgs.stream_bump = Bump

CanLand(s) ==
  /\ Decoded
  /\ CanInitialize(s, InitArgs.total_amount, InitArgs.chunk_amount,
                   InitArgs.start_timestamp, InitArgs.interval_seconds)

Land(s) ==
  /\ Decoded
  /\ Initialize(s, InitArgs.total_amount, InitArgs.chunk_amount,
                InitArgs.start_timestamp, InitArgs.interval_seconds)

\* sendAndConfirmTransaction returns.
SendInit(p) ==
  /\ proc[p].pc = "send"
  /\ Land(proc[p].state.deal)
  /\ Become(p, [proc[p] EXCEPT !.pc = "save init"])
  /\ UNCHANGED <<file, keys, minted, airdropped, pending, faults>>

\* (Mutated form: what was loaded is written back after an error, too.)
InitFails_SavesCopy(p) ==
  /\ proc[p].pc = "send"
  /\ ~CanLand(proc[p].state.deal)
  /\ file' = proc[p].state
  /\ Become(p, Off)
  /\ UNCHANGED <<vars, keys, minted, airdropped, pending, faults>>

\* It throws: the simulation failed, and init-stream does not try again.
InitFails(p) ==
  /\ proc[p].pc = "send"
  /\ ~CanLand(proc[p].state.deal)
  /\ Become(p, Off)
  /\ UNCHANGED <<vars, file, keys, minted, airdropped, pending, faults>>

\* It throws although the transaction is on its way.
LoseAnswer(p) ==
  /\ proc[p].pc = "send"
  /\ Fault
  /\ pending' = pending \cup {proc[p].state.deal}
  /\ Become(p, Off)
  /\ UNCHANGED <<vars, file, keys, minted, airdropped>>

PendingLands(s) ==
  /\ s \in pending
  /\ pending' = pending \ {s}
  /\ Land(s)
  /\ UNCHANGED <<file, keys, minted, airdropped, proc, faults>>

PendingFails(s) ==
  /\ s \in pending
  /\ pending' = pending \ {s}
  /\ UNCHANGED <<vars, file, keys, minted, airdropped, proc, faults>>

\* What init-stream loaded is written back, with the stream's addresses.
SaveInit(p) ==
  /\ proc[p].pc = "save init"
  /\ proc[p].open
  /\ Write([proc[p].state EXCEPT !.recorded = TRUE])
  /\ GoOn(p, "run")
  /\ UNCHANGED <<vars, keys, minted, airdropped, pending, faults>>

-----------------------------------------------------------------------------
(* run *)

LoadForRun(p) ==
  /\ proc[p].pc = "run"
  /\ CanLoad
  /\ file.recorded
  /\ Become(p, [proc[p] EXCEPT !.pc = "run key", !.state = file])
  /\ UNCHANGED <<vars, file, keys, minted, airdropped, pending, faults>>

\* run throws "stream is not initialized".
RunRefuses(p) ==
  /\ proc[p].pc = "run"
  /\ CanLoad
  /\ ~file.recorded
  /\ Become(p, Off)
  /\ UNCHANGED <<vars, file, keys, minted, airdropped, pending, faults>>

\* The account as run sees it.
Account(p) == pack(stream[proc[p].state.deal])

\* A release with the index that the account shows, paid for by the keeper.
Round(p) ==
  LET s    == proc[p].state.deal
      data == releaseData(ChunkIndex(Account(p)))
  IN  /\ proc[p].pc = "loop"
      /\ UNCHANGED cvars
      /\ proc[p].keeper \in airdropped
      /\ IsActive(Account(p))
      /\ IsRelease(data)
      /\ Release(s, s, RecipientOf[s], expected_chunk_index(data))

\* Every attempt fails for lack of lamports.
KeeperUnfunded(p) ==
  /\ proc[p].pc = "loop"
  /\ IsActive(Account(p))
  /\ proc[p].keeper \notin airdropped
  /\ Become(p, Off)
  /\ UNCHANGED <<vars, file, keys, minted, airdropped, pending, faults>>

RunEnds(p) ==
  /\ proc[p].pc = "loop"
  /\ ~IsActive(Account(p))
  /\ Become(p, Off)
  /\ UNCHANGED <<vars, file, keys, minted, airdropped, pending, faults>>

-----------------------------------------------------------------------------
(* Failures *)

\* loadState throws.
LoadFails(p) ==
  /\ proc[p].pc \in {"init", "run"}
  /\ ~CanLoad
  /\ Become(p, Off)
  /\ UNCHANGED <<vars, file, keys, minted, airdropped, pending, faults>>

\* The process dies, or an await throws; a file that is open stays empty.
Crash(p) ==
  /\ proc[p].pc # "off"
  /\ Fault
  /\ Become(p, Off)
  /\ UNCHANGED <<vars, file, keys, minted, airdropped, pending>>

\* A key file cannot be read any more, for whatever reason.
LoseKey(n) ==
  /\ n \in readable
  /\ Fault
  /\ readable' = readable \ {n}
  /\ UNCHANGED <<vars, file, key, generated, minted, airdropped, proc, pending>>

-----------------------------------------------------------------------------

\* What the program text of a command makes its process do next.
Step(p) ==
  \/ LoadKey(p) \/ GenerateKey(p) \/ WriteKey(p)
  \/ Fund(p) \/ OpenFile(p) \/ SaveSetup(p)
  \/ LoadForInit(p) \/ SendInit(p) \/ InitFails(p) \/ SaveInit(p)
  \/ LoadForRun(p) \/ RunRefuses(p) \/ Round(p) \/ KeeperUnfunded(p) \/ RunEnds(p)
  \/ LoadFails(p)

CNext ==
  \/ \E p \in Procs :
       \/ \E command \in CommandNames : Start(p, command)
       \/ Step(p) \/ LoseAnswer(p) \/ Crash(p)
  \/ \E n \in KeyFiles : LoseKey(n)
  \/ \E s \in Streams : PendingLands(s) \/ PendingFails(s)

CSpec == CInit /\ [][CNext]_allvars

\* Someone runs run again and again, and to its end.  Nobody has to go on with
\* setup or init-stream.
Fairness ==
  \A p \in Procs :
    Commands[p] = {"run"} => WF_allvars(Start(p, "run")) /\ WF_allvars(Step(p))

FairCSpec == CSpec /\ Fairness

-----------------------------------------------------------------------------
(* Properties *)

\* The types of the variables; a command that goes on works on a file that it
\* could read.
CTypeOK ==
  /\ TypeOK
  /\ file \in LocalState \cup {Unreadable}
  /\ key \in [KeyFiles -> Nat]
  /\ readable \subseteq KeyFiles
  /\ generated \in [KeyFiles -> Nat]
  /\ minted \subseteq Streams
  /\ airdropped \subseteq Nat
  /\ proc \in [Procs -> Process]
  /\ \A p \in Procs :
       proc[p].pc \in {"init key", "send", "save init", "run key", "loop"} =>
         proc[p].state \in LocalState
  /\ pending \subseteq Streams
  /\ faults \in 0..MaxFaults

\* A stream that init-stream has created, for the amounts it was asked for.
Created(s) ==
  /\ stream[s].status # "Uninitialized"
  /\ stream[s].total_amount = TOTAL
  /\ stream[s].chunk_amount = CHUNK

\* index.ts:75 comes after index.ts:74 and writes what index.ts:62 read: the
\* file never names a stream that is not on the chain, however many setups and
\* init-streams overlap, fail, die or are repeated, and so run, which trusts
\* its copy, never reports "stream account is closed".
FileNeverAhead ==
  /\ file.recorded => Created(file.deal)
  /\ \A p \in Procs : proc[p].pc \in {"run key", "loop"} => Created(proc[p].state.deal)

\* The stream that is recorded in the file, or that a process is about to record.
Remembered(s) ==
  \/ file.deal = s /\ file.recorded
  \/ \E p \in Procs : proc[p].pc = "save init" /\ proc[p].state.deal = s

\* The other direction: as long as nothing fails, a created stream is missing from
\* the file only if another setup has been run.  init-streams that race for one
\* setup never make the file forget the stream: the one that loses throws before
\* it writes back its older copy.  An init-stream and a setup that overlap do, in
\* either order, and nothing in index.ts prevents it.
OnlySetupForgets ==
  faults = 0 =>
    \A s \in Streams : Created(s) /\ minted \subseteq {s} => Remembered(s)

\* wire.ts:2 and the offsets in index.ts: what the client reads at its own
\* offsets, and what the program reads back, is what the program stored.
WireAgrees ==
  \A s \in Streams :
    stream[s].status # "Uninitialized" =>
      LET data == pack(stream[s])
      IN  /\ HeaderValid(data)
          /\ unpack(data) = stream[s]
          /\ IsActive(data) <=> stream[s].status = "Active"
          /\ ChunkIndex(data) = stream[s].executed_chunks
          /\ ChunkCount(data) = stream[s].max_chunks

\* A stream that the file names from some time on, with a keeper key that was
\* given lamports, is paid out in full if run is started again and again.
RecordedCompletes ==
  \A s \in Streams :
    <>[](file.deal = s /\ file.recorded /\ "keeper" \in readable
           /\ key["keeper"] \in airdropped)
      => <>(stream[s].status = "Completed")
=============================================================================
