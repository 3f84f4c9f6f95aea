-------------------------- MODULE NativeClientProofs --------------------------
(***************************************************************************)
(* Theorems about NativeClient, for every number of processes, streams and *)
(* faults and every assignment of commands.  Commands share nothing but    *)
(* files and work on copies of them, so each theorem is about what copies  *)
(* may say of a chain that has moved on.  The invariant is built up in     *)
(* layers: ClientTyped, of types; CopiesTrue, of copies that name a        *)
(* stream; MintsApart, of mints that nobody shares; NothingLost, of what   *)
(* the file holds while nothing has failed.                                *)
(***************************************************************************)
EXTENDS NativeClient, NativeStreamProofs, BytesProofs

-----------------------------------------------------------------------------
(* The wire *)

\* What the program decodes is what init-stream asked for.
LEMMA InitArgsFacts ==
  /\ IsInitialize(InitData)
  /\ InitArgs = [ stream_id |-> StreamId, total_amount |-> TOTAL, chunk_amount |-> CHUNK,
                  start_timestamp |-> 0, interval_seconds |-> 0, stream_bump |-> Bump ]
<1> DEFINE cells == { <<0, 1, 0>>, <<1, 8, StreamId>>, <<9, 8, TOTAL>>, <<17, 8, CHUNK>>,
                      <<25, 8, 0>>, <<33, 8, 0>>, <<41, 1, Bump>> }
<1>1. InitData.len = 42 /\ InitData.cells = cells
  <2> DEFINE head    == Put(Tagged(0), 8, StreamId)
             amounts == Put(Put(head, 8, TOTAL), 8, CHUNK)
  <2>1. head.len = 9 /\ head.cells = {<<0, 1, 0>>, <<1, 8, StreamId>>}
    BY DEF Put, Tagged, Empty
  <2> HIDE DEF head
  <2>2. /\ amounts.len = 25
        /\ amounts.cells = head.cells \cup {<<9, 8, TOTAL>>, <<17, 8, CHUNK>>}
    BY <2>1 DEF Put
  <2>3. InitData = Put(Put(Put(amounts, 8, 0), 8, 0), 1, Bump)
    BY DEF InitData, initializeData, head
  <2> HIDE DEF amounts
  <2>4. /\ InitData.len = 42
        /\ InitData.cells
             = amounts.cells \cup {<<25, 8, 0>>, <<33, 8, 0>>, <<41, 1, Bump>>}
    BY <2>2, <2>3 DEF Put
  <2>5. QED
    BY <2>1, <2>2, <2>4
<1>2. Written(InitData, 0, 1, 0) /\ Written(InitData, 1, 8, StreamId)
  BY <1>1 DEF Written
<1>3. Written(InitData, 9, 8, TOTAL) /\ Written(InitData, 17, 8, CHUNK)
  BY <1>1 DEF Written
<1>4. Written(InitData, 25, 8, 0) /\ Written(InitData, 33, 8, 0)
  BY <1>1 DEF Written
<1>5. Written(InitData, 41, 1, Bump)
  BY <1>1 DEF Written
<1> HIDE DEF cells
<1>6. /\ Read(InitData, 0, 1) = 0 /\ Read(InitData, 1, 8) = StreamId
      /\ Read(InitData, 9, 8) = TOTAL /\ Read(InitData, 17, 8) = CHUNK
      /\ Read(InitData, 25, 8) = 0 /\ Read(InitData, 33, 8) = 0
      /\ Read(InitData, 41, 1) = Bump
  BY <1>2, <1>3, <1>4, <1>5, ReadBack
<1>7. QED
  BY <1>1, <1>6 DEF IsInitialize, InitArgs, InitializeArgs, Payload

\* The index that the client encodes is the one that the program decodes.
LEMMA ReleaseDataFacts ==
  ASSUME NEW index
  PROVE  /\ IsRelease(releaseData(index))
         /\ expected_chunk_index(releaseData(index)) = index
<1> DEFINE data == releaseData(index)
<1>1. data.len = 9 /\ data.cells = {<<0, 1, 1>>, <<1, 8, index>>}
  BY DEF releaseData, Tagged, Put, Empty
<1> HIDE DEF data
<1>2. Written(data, 0, 1, 1) /\ Written(data, 1, 8, index)
  BY <1>1 DEF Written
<1>3. Read(data, 0, 1) = 1 /\ Read(data, 1, 8) = index
  BY <1>2, ReadBack
<1>4. QED
  BY <1>1, <1>3 DEF IsRelease, expected_chunk_index, Payload, data

\* The three status bytes are told apart.
LEMMA StatusFacts ==
  ASSUME NEW status \in StreamStatus
  PROVE  /\ from_u8(StatusByte(status)) = status
         /\ StatusByte(status) = 1 <=> status = "Active"
<1>1. from_u8(0) = "Uninitialized" /\ from_u8(1) = "Active" /\ from_u8(2) = "Completed"
  BY DEF from_u8
<1>2. \E value \in 0..2 : from_u8(value) = status
  BY <1>1 DEF StreamStatus
<1>3. StatusByte(status) \in 0..2 /\ from_u8(StatusByte(status)) = status
  BY <1>2 DEF StatusByte
<1> DEFINE b == StatusByte(status)
<1>4. b = 0 \/ b = 1 \/ b = 2
  BY <1>3
<1>5. QED
  BY <1>1, <1>3, <1>4

\* Client and program read every field of the account as it was packed.
LEMMA PackFacts ==
  ASSUME NEW st \in Stream(Accounts)
  PROVE  /\ HeaderValid(pack(st))
         /\ unpack(pack(st)) = st
         /\ IsActive(pack(st)) <=> st.status = "Active"
         /\ ChunkIndex(pack(st)) = st.executed_chunks
         /\ ChunkCount(pack(st)) = st.max_chunks
<1> DEFINE data == pack(st)
           status == StatusByte(st.status)
<1> USE DEF VERSION_OFFSET, STATUS_OFFSET, BUMP_OFFSET, RESERVED_OFFSET, STREAM_ID_OFFSET,
            RECIPIENT_TOKEN_OFFSET, TOTAL_OFFSET, CHUNK_OFFSET, SENT_OFFSET, EXECUTED_OFFSET,
            MAX_CHUNKS_OFFSET, CREATED_AT_OFFSET, START_OFFSET, NEXT_RELEASE_OFFSET,
            INTERVAL_OFFSET
<1>1. /\ data.len = STREAM_STATE_LEN
      /\ data.cells =
           { <<0, 8, "NUSDCSTR">>, <<8, 1, 1>>, <<9, 1, status>>, <<10, 1, Bump>>,
             <<11, 5, 0>>, <<16, 8, StreamId>>, <<184, 32, st.route>>,
             <<216, 8, st.total_amount>>, <<224, 8, st.chunk_amount>>,
             <<232, 8, st.sent_amount>>, <<240, 8, st.executed_chunks>>,
             <<248, 8, st.max_chunks>>, <<256, 8, st.created_at>>,
             <<264, 8, st.start_timestamp>>, <<272, 8, st.next_release_timestamp>>,
             <<280, 8, st.interval_seconds>> }
  BY DEF pack
<1> HIDE DEF data, status
<1>2. /\ Written(data, 0, 8, "NUSDCSTR") /\ Written(data, 8, 1, 1)
      /\ Written(data, 9, 1, status) /\ Written(data, 11, 5, 0)
  BY <1>1 DEF Written
<1>3. Written(data, 184, 32, st.route) /\ Written(data, 216, 8, st.total_amount)
  BY <1>1 DEF Written
<1>4. Written(data, 224, 8, st.chunk_amount) /\ Written(data, 232, 8, st.sent_amount)
  BY <1>1 DEF Written
<1>5. Written(data, 240, 8, st.executed_chunks) /\ Written(data, 248, 8, st.max_chunks)
  BY <1>1 DEF Written
<1>6. Written(data, 256, 8, st.created_at) /\ Written(data, 264, 8, st.start_timestamp)
  BY <1>1 DEF Written
<1>7. /\ Written(data, 272, 8, st.next_release_timestamp)
      /\ Written(data, 280, 8, st.interval_seconds)
  BY <1>1 DEF Written
<1>8. /\ Read(data, 0, 8) = "NUSDCSTR" /\ Read(data, 8, 1) = 1 /\ Read(data, 11, 5) = 0
      /\ Read(data, 9, 1) = status /\ Read(data, 184, 32) = st.route
      /\ Read(data, 216, 8) = st.total_amount /\ Read(data, 224, 8) = st.chunk_amount
      /\ Read(data, 232, 8) = st.sent_amount /\ Read(data, 240, 8) = st.executed_chunks
      /\ Read(data, 248, 8) = st.max_chunks /\ Read(data, 256, 8) = st.created_at
      /\ Read(data, 264, 8) = st.start_timestamp
      /\ Read(data, 272, 8) = st.next_release_timestamp
      /\ Read(data, 280, 8) = st.interval_seconds
  BY <1>2, <1>3, <1>4, <1>5, <1>6, <1>7, ReadBack
<1>9. from_u8(status) = st.status /\ (status = 1 <=> st.status = "Active")
  BY StatusFacts DEF Stream, status
<1>10. unpack(data) = st
  BY <1>8, <1>9 DEF unpack, Stream
<1>11. QED
  BY <1>1, <1>8, <1>9, <1>10 DEF HeaderValid, IsActive, ChunkIndex, ChunkCount, data

-----------------------------------------------------------------------------
(* The invariant, layer by layer *)

\* Where a process works on a copy of the state file, or is about to write one.
Holders == {"save setup", "init key", "send", "save init", "run key", "loop"}

\* What process r has in its local variables, by where it is.
Shaped(r) ==
  /\ r.pc \in {"sender key", "keeper key", "fund"} => r.state \in Partial
  /\ r.pc \in Holders => r.state \in LocalState
  /\ r.pc = "save setup" => ~ r.state.recorded
  /\ r.open => r.pc \in {"save setup", "save init"}

ClientTyped ==
  /\ IInv
  /\ CTypeOK
  /\ \A p \in Procs : Shaped(proc[p])

\* Process r works on a copy by which stream t was created.
Trusts(r, t) == r.pc \in {"save init", "run key", "loop"} /\ r.state.deal = t

\* A copy that says that a stream was created is never wrong, however old it is.
CopiesTrue ==
  /\ \A t \in Streams : stream[t].status # "Uninitialized" => Created(t)
  /\ \A t \in Streams : file.recorded /\ file.deal = t => Created(t)
  /\ \A p \in Procs, t \in Streams : Trusts(proc[p], t) => Created(t)

\* The stream that process r works on.
Holds(r) == IF r.pc \in Holders THEN {r.state.deal} ELSE {}

\* Nobody but the processes outside P has heard of stream s.
UnknownTo(P, s) ==
  /\ stream[s].status = "Uninitialized"
  /\ file.deal # s
  /\ s \notin pending
  /\ \A p \in P : s \notin Holds(proc[p])

\* Process r is about to record stream s.
Saves(r, s) == r.pc = "save init" /\ r.state.deal = s

\* Setups do not share mints, nor do init-streams share the success of one
\* transaction.
MintsApart ==
  /\ \A s \in Streams \ minted : UnknownTo(Procs, s)
  /\ \A p \in Procs, s \in Streams :
       proc[p].pc = "save setup" /\ proc[p].state.deal = s => UnknownTo(Procs \ {p}, s)
  /\ \A p, q \in Procs, s \in Streams :
       Saves(proc[p], s) /\ Saves(proc[q], s) => p = q

\* What is left to say while nothing has failed: with one setup, nobody else writes
\* the file while the process that created the stream does.
NothingLost ==
  faults = 0 =>
    /\ pending = {}
    /\ \A p \in Procs, s \in Streams :
         minted \subseteq {s} /\ Saves(proc[p], s) /\ proc[p].open => file = Unreadable
    /\ OnlySetupForgets

-----------------------------------------------------------------------------
(* What the client does to the chain *)

\* A transaction of init-stream that lands is an ordinary initialize.
LEMMA LandFacts ==
  ASSUME NEW s \in Streams, Land(s)
  PROVE  /\ Initialize(s, TOTAL, CHUNK, 0, 0)
         /\ TOTAL \in Totals /\ CHUNK \in Chunks /\ 0 \in Starts /\ 0 \in Intervals
BY InitArgsFacts, ClientAssumption DEF Land

\* And a round of run is an ordinary release, with the index that it read.
LEMMA RoundFacts ==
  ASSUME ClientTyped, NEW p \in Procs, Round(p)
  PROVE  LET s == proc[p].state.deal
         IN  /\ s \in Streams
             /\ Release(s, s, RecipientOf[s], stream[s].executed_chunks)
             /\ UNCHANGED cvars
<1> DEFINE s == proc[p].state.deal
<1>1. s \in Streams
  BY DEF Round, ClientTyped, Shaped, Holders, LocalState
<1>2. stream[s] \in Stream(Accounts)
  BY <1>1 DEF ClientTyped, IInv, TypeOK
<1>3. ChunkIndex(Account(p)) = stream[s].executed_chunks
  BY <1>2, PackFacts DEF Account
<1>4. QED
  BY <1>1, <1>3, ReleaseDataFacts DEF Round

\* Every step of the client leaves the chain alone or is one of these.
LEMMA ChainSteps ==
  ASSUME ClientTyped, [CNext]_allvars
  PROVE  \/ UNCHANGED vars
         \/ \E s \in Streams : Initialize(s, TOTAL, CHUNK, 0, 0)
         \/ \E s \in Streams : Release(s, s, RecipientOf[s], stream[s].executed_chunks)
<1>1. ASSUME NEW p \in Procs, Step(p) PROVE
           \/ UNCHANGED vars
           \/ SendInit(p)
           \/ Round(p)
  BY <1>1 DEF Step, LoadKey, GenerateKey, WriteKey, Fund, OpenFile, SaveSetup,
              LoadForInit, InitFails, SaveInit, LoadForRun, RunRefuses, KeeperUnfunded, RunEnds, LoadFails
<1>2. ASSUME NEW p \in Procs, SendInit(p)
      PROVE  \E s \in Streams : Initialize(s, TOTAL, CHUNK, 0, 0)
  BY <1>2, LandFacts DEF SendInit, ClientTyped, Shaped, Holders, LocalState
<1>3. ASSUME NEW p \in Procs, Round(p)
      PROVE  \E s \in Streams : Release(s, s, RecipientOf[s], stream[s].executed_chunks)
  BY <1>3, RoundFacts
<1>4. ASSUME NEW p \in Procs,
             \/ \E command \in CommandNames : Start(p, command)
             \/ LoseAnswer(p) \/ Crash(p)
      PROVE  UNCHANGED vars
  BY <1>4 DEF Start, LoseAnswer, Crash
<1>5. ASSUME NEW n \in KeyFiles, LoseKey(n) PROVE UNCHANGED vars
  BY <1>5 DEF LoseKey
<1>6. ASSUME NEW s \in Streams, PendingLands(s) \/ PendingFails(s)
      PROVE  UNCHANGED vars \/ Initialize(s, TOTAL, CHUNK, 0, 0)
  BY <1>6, LandFacts DEF PendingLands, PendingFails
<1>7. QED
  BY <1>1, <1>2, <1>3, <1>4, <1>5, <1>6 DEF CNext, allvars

\* So the client is one of the programs that NativeStream allows for.
LEMMA ChainNext ==
  ASSUME ClientTyped, [CNext]_allvars
  PROVE  [Next]_vars /\ IInv'
<1>1. ASSUME NEW s \in Streams, Initialize(s, TOTAL, CHUNK, 0, 0) PROVE Next
  BY <1>1, ClientAssumption DEF Next, InitializeBySender
<1>2. ASSUME NEW s \in Streams, Release(s, s, RecipientOf[s], stream[s].executed_chunks)
      PROVE  Next
  <2>1. stream[s] \in Stream(Accounts) /\ validate_invariants(stream[s])
    BY <1>2, ReleaseFacts, Seeds DEF ClientTyped
  <2>2. stream[s].executed_chunks \in 0..stream[s].max_chunks
    BY <2>1, Fields DEF validate_invariants, AmountsValid
  <2>3. ReleaseByAnyone(s)
    BY <1>2, <2>2, Seeds DEF ReleaseByAnyone
  <2>4. QED
    BY <2>3 DEF Next
<1>3. [Next]_vars
  BY <1>1, <1>2, ChainSteps
<1>4. QED
  BY <1>3, NextIInv DEF ClientTyped

\* A stream that exists goes on existing, with the amounts it was given; one that
\* appears has the amounts that the client asks for.
LEMMA StreamSteps ==
  ASSUME ClientTyped, [CNext]_allvars, NEW t \in Streams
  PROVE  /\ stream[t].status # "Uninitialized" =>
              /\ stream'[t].status # "Uninitialized"
              /\ stream'[t].total_amount = stream[t].total_amount
              /\ stream'[t].chunk_amount = stream[t].chunk_amount
         /\ stream[t].status = "Uninitialized" /\ stream'[t].status # "Uninitialized" =>
              /\ stream'[t].total_amount = TOTAL
              /\ stream'[t].chunk_amount = CHUNK
<1>1. IInv /\ stream \in [Streams -> Stream(Accounts)]
  BY DEF ClientTyped, IInv, TypeOK
<1>2. CASE UNCHANGED vars
  BY <1>2 DEF vars
<1>3. ASSUME NEW s \in Streams, NEW st \in Stream(Accounts),
             stream' = [stream EXCEPT ![s] = st]
      PROVE  stream'[s] = st /\ (t # s => stream'[t] = stream[t])
  BY <1>1, <1>3
<1>4. ASSUME NEW s \in Streams, Initialize(s, TOTAL, CHUNK, 0, 0)
      PROVE  /\ stream[s].status = "Uninitialized"
             /\ stream'[s].total_amount = TOTAL /\ stream'[s].chunk_amount = CHUNK
             /\ t # s => stream'[t] = stream[t]
  <2> DEFINE st == Initialized(s, TOTAL, CHUNK, 0, 0)
  <2>1. /\ stream[s] = Blank(s) /\ st \in Stream(Accounts)
        /\ st.total_amount = TOTAL /\ st.chunk_amount = CHUNK
        /\ stream' = [stream EXCEPT ![s] = st]
    BY <1>1, <1>4, ClientAssumption, InitializeFacts
  <2> HIDE DEF st
  <2>2. QED
    BY <1>3, <2>1, BlankFacts
<1>5. ASSUME NEW s \in Streams, Release(s, s, RecipientOf[s], stream[s].executed_chunks)
      PROVE  /\ stream[s].status # "Uninitialized" /\ stream'[s].status # "Uninitialized"
             /\ stream'[s].total_amount = stream[s].total_amount
             /\ stream'[s].chunk_amount = stream[s].chunk_amount
             /\ t # s => stream'[t] = stream[t]
  <2> DEFINE st == stream[s]
  <2>1. /\ st \in Stream(Accounts) /\ validate_invariants(st) /\ st.status = "Active"
        /\ CanAdvance(st) /\ stream' = [stream EXCEPT ![s] = Released(st)]
    BY <1>1, <1>5, ReleaseFacts, Seeds
  <2>2. /\ Released(st) \in Stream(Accounts) /\ validate_invariants(Released(st))
        /\ Released(st).total_amount = st.total_amount
        /\ Released(st).chunk_amount = st.chunk_amount
    BY <2>1, ReleasedFacts
  <2>3. Released(st).status # "Uninitialized"
    BY <2>2, BlankFacts
  <2>4. QED
    BY <1>3, <2>1, <2>2, <2>3
<1>6. QED
  BY <1>2, <1>4, <1>5, ChainSteps

-----------------------------------------------------------------------------
(* Types, and where a process goes *)

\* What process q may do next, in whatever command.
ProcessStep(q) ==
  \/ \E command \in CommandNames : Start(q, command)
  \/ Step(q) \/ LoseAnswer(q) \/ Crash(q)

\* A process that waits for a key, before and after loadOrCreate takes a step.
AtKeySteps ==
  { <<"init key", "init key">>, <<"init key", "send">>,
    <<"run key", "run key">>, <<"run key", "loop">> }

\* Where a step other than Round takes process q: it holds no copy of the file; or
\* it has just got one; or it goes on with the one it had.
Goes(q, r) ==
  \/ Holds(r) = {}
  \/ /\ Fund(q)
     /\ r.pc = "save setup"
     /\ r.state.deal \in Streams \ minted
     /\ minted' = minted \cup {r.state.deal}
  \/ LoadForInit(q) /\ r.pc = "init key" /\ r.state = file
  \/ LoadForRun(q) /\ r.pc = "run key" /\ r.state = file
  \/ SendInit(q) /\ r.pc = "save init" /\ r.state = proc[q].state /\ ~ r.open
  \/ OpenFile(q) /\ r.pc = proc[q].pc /\ r.state = proc[q].state
  \/ /\ LoadKey(q) \/ GenerateKey(q) \/ WriteKey(q)
     /\ <<proc[q].pc, r.pc>> \in AtKeySteps
     /\ r.state = proc[q].state

LEMMA ProcessFacts ==
  ASSUME ClientTyped, NEW p \in Procs
  PROVE  /\ proc[p] \in Process /\ Shaped(proc[p])
         /\ proc[p].demo \in BOOLEAN /\ proc[p].keeper \in Nat /\ proc[p].made \in Nat
         /\ proc[p].state \in LocalState \cup Partial
         /\ Off \in Process /\ Shaped(Off) /\ Holds(Off) = {} /\ Unreadable \in Partial
         /\ CanLoad => file \in LocalState
<1>1. proc[p] \in Process /\ Shaped(proc[p])
  BY DEF ClientTyped, CTypeOK
<1>2. Off \in Process /\ Shaped(Off) /\ Holds(Off) = {} /\ Unreadable \in Partial
  BY DEF Off, Process, Shaped, Holders, Holds, Unreadable, Partial
<1>3. CanLoad => file \in LocalState
  BY DEF CanLoad, ClientTyped, CTypeOK
<1>4. QED
  BY <1>1, <1>2, <1>3 DEF Process

\* Only process p moves on.
LEMMA BecomeFacts ==
  ASSUME ClientTyped, NEW p \in Procs, NEW r, Become(p, r)
  PROVE  proc'[p] = r /\ \A q \in Procs \ {p} : proc'[q] = proc[q]
BY DEF Become, ClientTyped, CTypeOK

\* loadOrCreate has returned key k to process q.
LEMMA GotFacts ==
  ASSUME ClientTyped, NEW q \in Procs, NEW k \in Nat, Got(q, k)
  PROVE  \E r \in Process :
           /\ Become(q, r) /\ Shaped(r)
           /\ \/ Holds(r) = {}
              \/ <<proc[q].pc, r.pc>> \in AtKeySteps /\ r.state = proc[q].state
<1> DEFINE b == [proc[q] EXCEPT !.made = 0]
<1>1. /\ b \in Process /\ b.pc = proc[q].pc /\ b.state = proc[q].state
      /\ b.open = proc[q].open /\ Shaped(b) /\ b.state \in LocalState \cup Partial
  BY ProcessFacts DEF Process, Shaped
<1>2. \/ /\ b.pc = "sender key"
         /\ Become(q, [b EXCEPT !.pc = "keeper key", !.state.sender = k])
      \/ b.pc = "keeper key" /\ Become(q, [b EXCEPT !.pc = "fund", !.keeper = k])
      \/ /\ b.pc = "init key"
         /\ Become(q, IF k = b.state.sender THEN [b EXCEPT !.pc = "send"] ELSE Off)
      \/ b.pc = "run key" /\ Become(q, [b EXCEPT !.pc = "loop", !.keeper = k])
  BY DEF Got
<1> HIDE DEF b
<1>3. CASE b.pc = "sender key" /\ Become(q, [b EXCEPT !.pc = "keeper key", !.state.sender = k])
  <2> DEFINE t == [b.state EXCEPT !.sender = k]
             r == [b EXCEPT !.pc = "keeper key", !.state = t]
  <2>1. [b EXCEPT !.pc = "keeper key", !.state.sender = k] = r
    BY <1>1 DEF Process
  <2>2. t \in Partial
    BY <1>1, <1>3 DEF Shaped, Partial
  <2>3. r \in Process /\ Shaped(r) /\ Holds(r) = {}
    BY <1>1, <1>3, <2>2 DEF Process, AtKey, Shaped, Holders, Holds
  <2> HIDE DEF r
  <2>4. QED
    BY <1>3, <2>1, <2>3
<1>4. CASE b.pc = "keeper key" /\ Become(q, [b EXCEPT !.pc = "fund", !.keeper = k])
  <2> DEFINE r == [b EXCEPT !.pc = "fund", !.keeper = k]
  <2>1. r \in Process /\ Shaped(r) /\ Holds(r) = {}
    BY <1>1, <1>4 DEF Process, Shaped, Holders, Holds
  <2> HIDE DEF r
  <2>2. QED
    BY <1>4, <2>1 DEF r
<1>5. CASE /\ b.pc = "init key"
           /\ Become(q, IF k = b.state.sender THEN [b EXCEPT !.pc = "send"] ELSE Off)
  <2> DEFINE r == [b EXCEPT !.pc = "send"]
  <2>1. r \in Process /\ Shaped(r) /\ r.pc = "send" /\ r.state = proc[q].state
    BY <1>1, <1>5 DEF Process, Shaped, Holders
  <2>2. Become(q, r) \/ Become(q, Off)
    BY <1>5
  <2>3. <<proc[q].pc, r.pc>> \in AtKeySteps
    BY <1>1, <1>5, <2>1 DEF AtKeySteps
  <2> HIDE DEF r
  <2>4. QED
    BY <2>1, <2>2, <2>3, ProcessFacts
<1>6. CASE b.pc = "run key" /\ Become(q, [b EXCEPT !.pc = "loop", !.keeper = k])
  <2> DEFINE r == [b EXCEPT !.pc = "loop", !.keeper = k]
  <2>1. r \in Process /\ Shaped(r) /\ r.pc = "loop" /\ r.state = proc[q].state
    BY <1>1, <1>6 DEF Process, Shaped, Holders
  <2>2. <<proc[q].pc, r.pc>> \in AtKeySteps
    BY <1>1, <1>6, <2>1 DEF AtKeySteps
  <2> HIDE DEF r
  <2>3. QED
    BY <1>6, <2>1, <2>2 DEF r
<1>7. QED
  BY <1>2, <1>3, <1>4, <1>5, <1>6

\* A command goes on to the next one, or ends.
LEMMA GoOnFacts ==
  ASSUME ClientTyped, NEW q \in Procs, NEW pc \in {"init", "run"}, GoOn(q, pc)
  PROVE  \E r \in Process : Become(q, r) /\ Shaped(r) /\ Holds(r) = {}
<1> DEFINE t == [Off EXCEPT !.pc = pc, !.demo = TRUE]
<1>1. t \in Process /\ Shaped(t) /\ Holds(t) = {}
  BY DEF Off, Process, Shaped, Holders, Holds, Unreadable, Partial
<1>2. Become(q, t) \/ Become(q, Off)
  BY DEF GoOn
<1> HIDE DEF t
<1>3. QED
  BY <1>1, <1>2, ProcessFacts

\* Where every step but Round takes its process.
LEMMA GoesFacts ==
  ASSUME ClientTyped, NEW q \in Procs, ProcessStep(q), ~ Round(q)
  PROVE  \E r \in Process : Become(q, r) /\ Shaped(r) /\ Goes(q, r)
<1>1. /\ proc[q] \in Process /\ Shaped(proc[q])
      /\ proc[q].state \in LocalState \cup Partial /\ proc[q].made \in Nat
  BY ProcessFacts
<1>2. KeyFile(q) \in KeyFiles /\ key[KeyFile(q)] \in Nat /\ generated[KeyFile(q)] \in Nat
  <2>1. KeyFile(q) \in KeyFiles
    BY DEF KeyFile, KeyFiles
  <2>2. QED
    BY <2>1 DEF ClientTyped, CTypeOK
<1>3. ASSUME NEW r \in Process, Become(q, r), Shaped(r), Goes(q, r)
      PROVE  \E t \in Process : Become(q, t) /\ Shaped(t) /\ Goes(q, t)
  BY <1>3
<1>4. ASSUME Become(q, Off) PROVE \E r \in Process : Become(q, r) /\ Shaped(r) /\ Goes(q, r)
  BY <1>4, ProcessFacts DEF Goes
<1>5. CASE \E command \in CommandNames : Start(q, command)
  <2>1. PICK command \in CommandNames, pc \in {"init", "run", "sender key"} :
          Become(q, [Off EXCEPT !.pc = pc, !.demo = command = "demo"])
    BY <1>5 DEF Start
  <2> DEFINE r == [Off EXCEPT !.pc = pc, !.demo = command = "demo"]
  <2>2. r \in Process /\ Shaped(r) /\ Holds(r) = {}
    BY DEF Off, Process, AtKey, Shaped, Holders, Holds, Unreadable, Partial
  <2>3. Become(q, r)
    BY <2>1
  <2> HIDE DEF r
  <2>4. QED
    BY <1>3, <2>2, <2>3 DEF Goes
<1>6. CASE LoadKey(q)
  <2>1. Got(q, key[KeyFile(q)])
    BY <1>6 DEF LoadKey
  <2>2. QED
    BY <1>2, <1>6, <2>1, GotFacts DEF Goes
<1>7. CASE WriteKey(q)
  <2>1. Got(q, proc[q].made)
    BY <1>7 DEF WriteKey
  <2>2. QED
    BY <1>1, <1>7, <2>1, GotFacts DEF Goes
<1>8. CASE GenerateKey(q)
  <2> DEFINE k == generated[KeyFile(q)] + 1
             r == [proc[q] EXCEPT !.made = k]
  <2>1. Become(q, r) /\ proc[q].pc \in AtKey /\ k \in Nat
    BY <1>2, <1>8 DEF GenerateKey
  <2> HIDE DEF k
  <2>2. /\ r \in Process /\ r.pc = proc[q].pc /\ r.state = proc[q].state
        /\ r.open = proc[q].open
    BY <1>1, <2>1 DEF Process
  <2> HIDE DEF r
  <2>3. Shaped(r)
    BY <1>1, <2>2 DEF Shaped
  <2>4. Holds(r) = {} \/ <<proc[q].pc, r.pc>> \in AtKeySteps
    BY <2>1, <2>2 DEF AtKey, Holds, Holders, AtKeySteps
  <2>5. QED
    BY <1>3, <1>8, <2>1, <2>2, <2>3, <2>4 DEF Goes
<1>9. CASE Fund(q)
  <2> DEFINE s == CHOOSE s \in Streams : s \notin minted
  <2>1. /\ proc[q].pc = "fund" /\ minted # Streams /\ minted' = minted \cup {s}
        /\ Become(q, [proc[q] EXCEPT !.pc = "save setup", !.state.deal = s, !.keeper = 0])
    BY <1>9 DEF Fund
  <2>2. s \in Streams \ minted
    BY <2>1 DEF ClientTyped, CTypeOK
  <2> HIDE DEF s
  <2> DEFINE t == [proc[q].state EXCEPT !.deal = s]
             r == [proc[q] EXCEPT !.pc = "save setup", !.state = t, !.keeper = 0]
  <2>3. [proc[q] EXCEPT !.pc = "save setup", !.state.deal = s, !.keeper = 0] = r
    BY <1>1 DEF Process
  <2>4. t \in LocalState /\ ~ t.recorded /\ t.deal = s
    BY <1>1, <2>1, <2>2 DEF Shaped, Partial, LocalState
  <2> HIDE DEF t
  <2>5. r \in Process /\ Shaped(r) /\ r.pc = "save setup" /\ r.state.deal = s
    BY <1>1, <2>1, <2>4 DEF Process, Shaped, Holders
  <2> HIDE DEF r
  <2>6. QED
    BY <1>3, <1>9, <2>1, <2>2, <2>3, <2>5 DEF Goes
<1>10. CASE OpenFile(q)
  <2> DEFINE r == [proc[q] EXCEPT !.open = TRUE]
  <2>1. /\ Become(q, r) /\ r \in Process /\ r.pc = proc[q].pc /\ r.state = proc[q].state
        /\ proc[q].pc \in {"save setup", "save init"}
    BY <1>1, <1>10 DEF OpenFile, Process
  <2> HIDE DEF r
  <2>2. Shaped(r)
    BY <1>1, <2>1 DEF Shaped
  <2>3. QED
    BY <1>3, <1>10, <2>1, <2>2 DEF Goes
<1>11. CASE SaveSetup(q)
  BY <1>11, GoOnFacts DEF SaveSetup, Goes
<1>12. CASE SaveInit(q)
  BY <1>12, GoOnFacts DEF SaveInit, Goes
<1>13. CASE LoadForInit(q)
  <2> DEFINE r == [proc[q] EXCEPT !.pc = "init key", !.state = file]
  <2>1. file \in LocalState /\ Become(q, r)
    BY <1>13, ProcessFacts DEF LoadForInit
  <2>2. r \in Process /\ Shaped(r) /\ r.pc = "init key" /\ r.state = file
    BY <1>1, <1>13, <2>1 DEF LoadForInit, Process, AtKey, Shaped, Holders
  <2> HIDE DEF r
  <2>3. QED
    BY <1>3, <1>13, <2>1, <2>2 DEF Goes
<1>14. CASE LoadForRun(q)
  <2> DEFINE r == [proc[q] EXCEPT !.pc = "run key", !.state = file]
  <2>1. file \in LocalState /\ Become(q, r)
    BY <1>14, ProcessFacts DEF LoadForRun
  <2>2. r \in Process /\ Shaped(r) /\ r.pc = "run key" /\ r.state = file
    BY <1>1, <1>14, <2>1 DEF LoadForRun, Process, AtKey, Shaped, Holders
  <2> HIDE DEF r
  <2>3. QED
    BY <1>3, <1>14, <2>1, <2>2 DEF Goes
<1>15. CASE SendInit(q)
  <2> DEFINE r == [proc[q] EXCEPT !.pc = "save init"]
  <2>1. Become(q, r) /\ proc[q].pc = "send"
    BY <1>15 DEF SendInit
  <2>2. /\ r \in Process /\ Shaped(r) /\ r.pc = "save init" /\ r.state = proc[q].state
        /\ ~ r.open
    BY <1>1, <2>1 DEF Process, Shaped, Holders
  <2> HIDE DEF r
  <2>3. QED
    BY <1>3, <1>15, <2>1, <2>2 DEF Goes
<1>16. CASE \/ InitFails(q) \/ RunRefuses(q) \/ KeeperUnfunded(q) \/ RunEnds(q)
            \/ LoadFails(q) \/ LoseAnswer(q) \/ Crash(q)
  BY <1>4, <1>16
     DEF InitFails, RunRefuses, KeeperUnfunded, RunEnds, LoadFails, LoseAnswer, Crash
<1>17. QED
  BY <1>5, <1>6, <1>7, <1>8, <1>9, <1>10, <1>11, <1>12, <1>13, <1>14, <1>15, <1>16
     DEF ProcessStep, Step

\* What happens without a process.
Elsewhere ==
  \/ \E n \in KeyFiles : LoseKey(n)
  \/ \E t \in Streams : PendingLands(t) \/ PendingFails(t)
  \/ UNCHANGED allvars

LEMMA StepCases ==
  ASSUME [CNext]_allvars
  PROVE  \/ \E q \in Procs : Round(q) /\ UNCHANGED cvars
         \/ \E q \in Procs : ProcessStep(q) /\ ~ Round(q)
         \/ Elsewhere /\ UNCHANGED <<file, proc, minted>>
<1>1. \A q \in Procs : Round(q) => UNCHANGED cvars
  BY DEF Round
<1>2. Elsewhere => UNCHANGED <<file, proc, minted>>
  BY DEF Elsewhere, LoseKey, PendingLands, PendingFails, allvars, cvars
<1>3. QED
  BY <1>1, <1>2 DEF CNext, ProcessStep, Elsewhere

\* The file changes by being emptied or written, and the chain by a process only
\* in SendInit and Round.
LEMMA FileFacts ==
  ASSUME NEW q \in Procs, ProcessStep(q), ~ Round(q)
  PROVE  /\ \/ UNCHANGED file
            \/ OpenFile(q) /\ file' = Unreadable
            \/ SaveSetup(q) /\ Write(proc[q].state)
            \/ SaveInit(q) /\ Write([proc[q].state EXCEPT !.recorded = TRUE])
         /\ UNCHANGED vars \/ SendInit(q)
         /\ pending' \subseteq pending \/ LoseAnswer(q)
         /\ UNCHANGED minted \/ Fund(q)
         /\ UNCHANGED faults \/ LoseAnswer(q) \/ Crash(q)
<1>1. CASE Start(q, "setup") \/ Start(q, "init-stream") \/ Start(q, "run") \/ Start(q, "demo")
  BY <1>1 DEF Start
<1>2. CASE \/ LoadKey(q) \/ GenerateKey(q) \/ WriteKey(q)
  BY <1>2 DEF LoadKey, GenerateKey, WriteKey
<1>3. CASE Fund(q) \/ OpenFile(q) \/ SaveSetup(q) \/ SaveInit(q)
  BY <1>3 DEF Fund, OpenFile, SaveSetup, SaveInit
<1>4. CASE LoadForInit(q) \/ SendInit(q) \/ InitFails(q) \/ LoadForRun(q) \/ RunRefuses(q)
  BY <1>4 DEF LoadForInit, SendInit, InitFails, LoadForRun, RunRefuses
<1>5. CASE KeeperUnfunded(q) \/ RunEnds(q) \/ LoadFails(q) \/ LoseAnswer(q) \/ Crash(q)
  BY <1>5 DEF KeeperUnfunded, RunEnds, LoadFails, LoseAnswer, Crash
<1>6. QED
  BY <1>1, <1>2, <1>3, <1>4, <1>5 DEF ProcessStep, Step, CommandNames

\* The types that a step has to respect besides those of its process.
RestTyped ==
  /\ file \in LocalState \cup {Unreadable}
  /\ key \in [KeyFiles -> Nat]
  /\ readable \subseteq KeyFiles
  /\ generated \in [KeyFiles -> Nat]
  /\ minted \subseteq Streams
  /\ airdropped \subseteq Nat
  /\ pending \subseteq Streams
  /\ faults \in 0..MaxFaults

LEMMA RestFacts == ClientTyped => RestTyped
BY DEF ClientTyped, CTypeOK, RestTyped

\* What a process saves has the type of the file.
LEMMA WriteFacts ==
  ASSUME ClientTyped, NEW r \in LocalState, Write(r)
  PROVE  file' \in LocalState \cup {Unreadable}
BY DEF Write

LEMMA RestStep ==
  ASSUME ClientTyped, [CNext]_allvars
  PROVE  RestTyped'
<1>1. RestTyped
  BY RestFacts
<1>2. CASE UNCHANGED allvars
  BY <1>1, <1>2 DEF allvars, cvars, keys, RestTyped
<1>3. ASSUME NEW p \in Procs, LoadKey(p) \/ GenerateKey(p) \/ WriteKey(p) PROVE RestTyped'
  <2>1. /\ KeyFile(p) \in KeyFiles /\ generated[KeyFile(p)] + 1 \in Nat /\ proc[p].made \in Nat
    <3>1. KeyFile(p) \in KeyFiles
      BY DEF KeyFile, KeyFiles
    <3>2. QED
      BY <1>1, <3>1, ProcessFacts DEF RestTyped
  <2>2. CASE LoadKey(p)
    BY <1>1, <2>2 DEF LoadKey, RestTyped, keys
  <2>3. CASE GenerateKey(p)
    BY <1>1, <2>1, <2>3 DEF GenerateKey, RestTyped
  <2>4. CASE WriteKey(p)
    BY <1>1, <2>1, <2>4 DEF WriteKey, RestTyped
  <2>5. QED
    BY <1>3, <2>2, <2>3, <2>4
<1>4. ASSUME NEW p \in Procs, Fund(p) PROVE RestTyped'
  <2> DEFINE s == CHOOSE s \in Streams : s \notin minted
  <2>1. minted # Streams /\ minted' = minted \cup {s}
    BY <1>4 DEF Fund
  <2>2. s \in Streams
    BY <1>1, <2>1 DEF RestTyped
  <2> HIDE DEF s
  <2>3. QED
    BY <1>1, <1>4, <2>1, <2>2, ProcessFacts DEF Fund, RestTyped, keys
<1>5. ASSUME NEW p \in Procs, OpenFile(p) \/ SaveSetup(p) \/ SaveInit(p) PROVE RestTyped'
  <2>1. file' \in LocalState \cup {Unreadable}
    <3>1. CASE OpenFile(p)
      BY <3>1 DEF OpenFile
    <3>2. CASE SaveSetup(p)
      BY <3>2, ProcessFacts, WriteFacts DEF SaveSetup, Shaped, Holders
    <3>3. CASE SaveInit(p)
      <4>1. [proc[p].state EXCEPT !.recorded = TRUE] \in LocalState
        BY <3>3, ProcessFacts DEF SaveInit, Shaped, Holders, LocalState
      <4>2. QED
        BY <3>3, <4>1, WriteFacts DEF SaveInit
    <3>4. QED
      BY <1>5, <3>1, <3>2, <3>3
  <2>2. QED
    BY <1>1, <1>5, <2>1 DEF OpenFile, SaveSetup, SaveInit, RestTyped, keys
<1>6. ASSUME NEW p \in Procs,
             \/ LoadForInit(p) \/ SendInit(p) \/ InitFails(p) \/ LoadForRun(p)
             \/ RunRefuses(p) \/ KeeperUnfunded(p) \/ RunEnds(p) \/ LoadFails(p)
             \/ \E command \in CommandNames : Start(p, command)
      PROVE  RestTyped'
  BY <1>1, <1>6
     DEF LoadForInit, SendInit, InitFails, LoadForRun, RunRefuses, KeeperUnfunded, RunEnds,
         LoadFails, Start, RestTyped, keys
<1>7. ASSUME NEW p \in Procs, Round(p) PROVE RestTyped'
  BY <1>1, <1>7 DEF Round, cvars, keys, RestTyped
<1>8. ASSUME Fault PROVE faults' \in 0..MaxFaults
  BY <1>1, <1>8, ClientAssumption DEF Fault, RestTyped
<1>9. ASSUME NEW p \in Procs, LoseAnswer(p) PROVE RestTyped'
  <2>1. proc[p].state.deal \in Streams
    BY <1>9, ProcessFacts DEF LoseAnswer, Shaped, Holders, LocalState
  <2>2. QED
    BY <1>1, <1>8, <1>9, <2>1 DEF LoseAnswer, RestTyped, keys
<1>10. ASSUME NEW p \in Procs, Crash(p) PROVE RestTyped'
  BY <1>1, <1>8, <1>10 DEF Crash, RestTyped, keys
<1>11. ASSUME NEW n \in KeyFiles, LoseKey(n) PROVE RestTyped'
  BY <1>1, <1>8, <1>11 DEF LoseKey, RestTyped
<1>12. ASSUME NEW s \in Streams, PendingLands(s) \/ PendingFails(s) PROVE RestTyped'
  BY <1>1, <1>12 DEF PendingLands, PendingFails, RestTyped, keys
<1>13. QED
  BY <1>2, <1>3, <1>4, <1>5, <1>6, <1>7, <1>9, <1>10, <1>11, <1>12 DEF CNext, Step

\* Every step respects the types.
LEMMA TypedStep ==
  ASSUME ClientTyped, [CNext]_allvars
  PROVE  ClientTyped'
<1>1. RestTyped' /\ IInv'
  BY RestStep, ChainNext
<1>2. ASSUME proc' \in [Procs -> Process], \A p \in Procs : Shaped(proc'[p])
      PROVE  ClientTyped'
  <2>1. \A p \in Procs :
          proc'[p].pc \in {"init key", "send", "save init", "run key", "loop"} =>
            proc'[p].state \in LocalState
    BY <1>2 DEF Shaped, Holders
  <2>2. QED
    BY <1>1, <1>2, <2>1 DEF ClientTyped, RestTyped, CTypeOK, IInv
<1>3. CASE UNCHANGED proc
  BY <1>2, <1>3 DEF ClientTyped, CTypeOK
<1>4. CASE \E q \in Procs : ProcessStep(q) /\ ~ Round(q)
  <2>1. PICK q \in Procs, r \in Process : Become(q, r) /\ Shaped(r)
    BY <1>4, GoesFacts
  <2>2. proc' \in [Procs -> Process]
    BY <2>1 DEF Become, ClientTyped, CTypeOK
  <2>3. \A p \in Procs : Shaped(proc'[p])
    BY <2>1, BecomeFacts DEF ClientTyped
  <2>4. QED
    BY <1>2, <2>2, <2>3
<1>5. QED
  BY <1>3, <1>4, StepCases DEF cvars

LEMMA InitTyped == CInit => ClientTyped
<1> SUFFICES ASSUME CInit PROVE ClientTyped
  OBVIOUS
<1>1. IInv /\ TypeOK
  BY InitIInv DEF CInit, IInv
<1>2. MaxFaults \in Nat
  BY ClientAssumption
<1>3. Off \in Process /\ Shaped(Off) /\ Off.pc = "off"
  BY DEF Off, Process, Shaped, Holders, Unreadable, Partial
<1>4. proc \in [Procs -> Process] /\ \A p \in Procs : proc[p] = Off
  BY <1>3 DEF CInit
<1>5. /\ key \in [KeyFiles -> Nat] /\ generated \in [KeyFiles -> Nat]
      /\ faults \in 0..MaxFaults
  BY <1>2 DEF CInit
<1>6. CTypeOK
  BY <1>1, <1>3, <1>4, <1>5 DEF CInit, CTypeOK
<1>7. QED
  BY <1>1, <1>3, <1>4, <1>6 DEF ClientTyped

LEMMA TypedInvariance == CSpec => []ClientTyped
BY InitTyped, TypedStep, PTL DEF CSpec

\* The variables have their types, and a command that goes on works on a state file
\* that could be read, whoever else was writing it.
THEOREM ClientTypes == CSpec => []CTypeOK
<1>1. ClientTyped => CTypeOK
  BY DEF ClientTyped
<1>2. QED
  BY <1>1, TypedInvariance, PTL

\* Seen from the chain, the commands are one of the many senders and runners that
\* NativeStream allows for: all its theorems hold of them.
THEOREM ClientUsesChain == CSpec => Spec
<1>1. CInit => Init
  BY DEF CInit
<1>2. ClientTyped /\ [CNext]_allvars => [Next]_vars
  BY ChainNext
<1>3. QED
  BY <1>1, <1>2, TypedInvariance, PTL DEF CSpec, Spec

\* Client and program agree on every byte of every account that the program ever
\* stores.
THEOREM WireAgreement == CSpec => []WireAgrees
<1>1. ClientTyped => WireAgrees
  BY PackFacts DEF ClientTyped, CTypeOK, TypeOK, WireAgrees
<1>2. QED
  BY <1>1, TypedInvariance, PTL

-----------------------------------------------------------------------------
(* Copies that name a stream *)

\* A stream that has been created stays so, and nothing else ever appears.
LEMMA CreatedSteps ==
  ASSUME ClientTyped, CopiesTrue, [CNext]_allvars, NEW t \in Streams
  PROVE  /\ Created(t) => Created(t)'
         /\ stream'[t].status # "Uninitialized" => Created(t)'
BY StreamSteps DEF CopiesTrue, Created

\* The stream of a transaction that lands exists afterwards and did not before; the
\* others are as they were.
LEMMA LandedFacts ==
  ASSUME ClientTyped, NEW s \in Streams, Land(s)
  PROVE  /\ stream[s].status = "Uninitialized"
         /\ stream'[s].status # "Uninitialized"
         /\ \A t \in Streams \ {s} : stream'[t] = stream[t]
<1>1. stream' = [stream EXCEPT ![s] = Initialized(s, TOTAL, CHUNK, 0, 0)]
  BY LandFacts DEF Initialize
<1>2. stream \in [Streams -> Stream(Accounts)]
  BY DEF ClientTyped, CTypeOK, TypeOK
<1>3. Initialized(s, TOTAL, CHUNK, 0, 0).status = "Active"
  BY DEF Initialized
<1>4. stream[s].status = "Uninitialized"
  BY LandFacts, InitializeFacts, BlankFacts DEF ClientTyped
<1>5. QED
  BY <1>1, <1>2, <1>3, <1>4

LEMMA CopiesStep ==
  ASSUME ClientTyped, CopiesTrue, [CNext]_allvars
  PROVE  CopiesTrue'
<1>1. ASSUME UNCHANGED <<file, proc>> PROVE CopiesTrue'
  BY <1>1, CreatedSteps DEF CopiesTrue
<1>2. ASSUME NEW q \in Procs, ProcessStep(q), ~ Round(q) PROVE CopiesTrue'
  <2>1. PICK r \in Process : Become(q, r) /\ Shaped(r) /\ Goes(q, r)
    BY <1>2, GoesFacts
  <2>2. proc'[q] = r /\ \A p \in Procs \ {q} : proc'[p] = proc[p]
    BY <2>1, BecomeFacts
  <2>3. ASSUME NEW t \in Streams, file'.recorded, file'.deal = t PROVE Created(t)'
    <3>1. ~ Unreadable.recorded
      BY DEF Unreadable
    <3>2. CASE UNCHANGED file
      BY <2>3, <3>2, CreatedSteps DEF CopiesTrue
    <3>3. CASE SaveSetup(q) /\ Write(proc[q].state)
      BY <2>3, <3>1, <3>3, ProcessFacts DEF SaveSetup, Write, Shaped
    <3>4. CASE SaveInit(q) /\ Write([proc[q].state EXCEPT !.recorded = TRUE])
      <4>1. proc[q].state.deal = t /\ proc[q].pc = "save init"
        BY <2>3, <3>1, <3>4, ProcessFacts DEF SaveInit, Write, Shaped, Holders, LocalState
      <4>2. QED
        BY <4>1, CreatedSteps DEF CopiesTrue, Trusts
    <3>5. QED
      BY <1>2, <2>3, <3>1, <3>2, <3>3, <3>4, FileFacts
  <2>4. ASSUME NEW t \in Streams, Trusts(r, t) PROVE Created(t)'
    <3>1. r.pc \in {"save init", "run key", "loop"} /\ r.state.deal = t /\ Holds(r) # {}
      BY <2>4 DEF Trusts, Holds, Holders
    <3>2. CASE LoadForRun(q) /\ r.state = file
      <4>1. file.recorded /\ file.deal = t
        BY <3>1, <3>2 DEF LoadForRun
      <4>2. QED
        BY <4>1, CreatedSteps DEF CopiesTrue
    <3>3. CASE SendInit(q) /\ r.state = proc[q].state
      BY <3>1, <3>3, LandedFacts, CreatedSteps DEF SendInit
    <3>4. CASE r.state = proc[q].state /\ (r.pc = proc[q].pc \/ proc[q].pc = "run key")
      BY <3>1, <3>4, CreatedSteps DEF CopiesTrue, Trusts
    <3>5. QED
      BY <2>1, <3>1, <3>2, <3>3, <3>4 DEF Goes, AtKeySteps
  <2>5. \A p \in Procs, t \in Streams : Trusts(proc'[p], t) => Created(t)'
    BY <2>2, <2>4, CreatedSteps DEF CopiesTrue
  <2>6. QED
    BY <2>3, <2>5, CreatedSteps DEF CopiesTrue
<1>3. QED
  BY <1>1, <1>2, StepCases DEF cvars

LEMMA CopiesInvariance == CSpec => []CopiesTrue
<1>1. CInit => CopiesTrue
  <2> SUFFICES ASSUME CInit PROVE CopiesTrue
    OBVIOUS
  <2>1. \A t \in Streams : stream[t].status = "Uninitialized"
    BY DEF CInit, Init, Blank
  <2>2. \A p \in Procs : proc[p].pc = "off"
    BY DEF CInit, Off
  <2>3. QED
    BY <2>1, <2>2 DEF CInit, CopiesTrue, Trusts, Unreadable
<1>2. ClientTyped /\ CopiesTrue /\ [CNext]_allvars => CopiesTrue'
  BY CopiesStep
<1>3. QED
  BY <1>1, <1>2, TypedInvariance, PTL DEF CSpec

\* The state file, and the copy that run works on, never name a stream that is not
\* on the chain.
THEOREM FileBehind == CSpec => []FileNeverAhead
<1>1. ClientTyped /\ CopiesTrue => FileNeverAhead
  <2> SUFFICES ASSUME ClientTyped, CopiesTrue PROVE FileNeverAhead
    OBVIOUS
  <2>1. file.recorded => file.deal \in Streams
    <3>1. file \in LocalState \/ file = Unreadable
      BY DEF ClientTyped, CTypeOK
    <3>2. QED
      BY <3>1 DEF LocalState, Unreadable
  <2>2. ASSUME NEW p \in Procs, proc[p].pc \in {"run key", "loop"}
        PROVE  Created(proc[p].state.deal)
    <3>1. proc[p].state.deal \in Streams
      BY <2>2, ProcessFacts DEF Shaped, Holders, LocalState
    <3>2. QED
      BY <2>2, <3>1 DEF CopiesTrue, Trusts
  <2>3. QED
    BY <2>1, <2>2 DEF CopiesTrue, FileNeverAhead
<1>2. QED
  BY <1>1, TypedInvariance, CopiesInvariance, PTL

-----------------------------------------------------------------------------
(* Mints that nobody shares *)

\* A stream that does not exist is not changed by run.
LEMMA RoundKeeps ==
  ASSUME ClientTyped, NEW q \in Procs, Round(q), NEW s \in Streams,
         stream[s].status = "Uninitialized"
  PROVE  stream'[s] = stream[s] /\ UNCHANGED cvars
<1> DEFINE t == proc[q].state.deal
<1>1. /\ t \in Streams /\ UNCHANGED cvars
      /\ Release(t, t, RecipientOf[t], stream[t].executed_chunks)
  BY RoundFacts
<1>2. stream' = [stream EXCEPT ![t] = Released(stream[t])] /\ stream[t].status = "Active"
  BY <1>1 DEF Release, CanRelease, IndexCurrent
<1> HIDE DEF t
<1>3. QED
  BY <1>1, <1>2 DEF ClientTyped, CTypeOK, TypeOK

\* Processes that have not heard of a stream do not hear of it from one another,
\* nor from the file or the chain: only setup can pick it.
LEMMA UnknownStep ==
  ASSUME ClientTyped, NEW P \in SUBSET Procs, NEW s \in Streams, UnknownTo(P, s),
         s \in minted \/ s \notin minted', NEW q \in P, ProcessStep(q), ~ Round(q)
  PROVE  UnknownTo(P, s)'
<1>1. /\ stream[s].status = "Uninitialized" /\ file.deal # s /\ s \notin pending
      /\ s \notin Holds(proc[q]) /\ Unreadable.deal # s
  BY ClientAssumption DEF UnknownTo, Unreadable
<1>2. q \in Procs /\ Shaped(proc[q])
  BY ProcessFacts
<1>3. PICK r \in Process : Become(q, r) /\ Goes(q, r)
  BY <1>2, GoesFacts
<1>4. proc'[q] = r /\ \A p \in Procs \ {q} : proc'[p] = proc[p]
  BY <1>2, <1>3, BecomeFacts
<1>5. ASSUME proc[q].pc \in Holders PROVE proc[q].state.deal # s
  BY <1>1, <1>5 DEF Holds
<1>6. s \notin Holds(r)
  <2>1. CASE Fund(q) /\ r.state.deal \notin minted /\ minted' = minted \cup {r.state.deal}
    BY <2>1 DEF Holds
  <2>2. CASE r.state = file
    BY <1>1, <2>2 DEF Holds
  <2>3. CASE r.state = proc[q].state /\ proc[q].pc \in Holders
    BY <1>5, <2>3 DEF Holds
  <2>4. CASE Holds(r) = {}
    BY <2>4
  <2>5. QED
    BY <1>3, <2>1, <2>2, <2>3, <2>4 DEF Goes, SendInit, OpenFile, AtKeySteps, Holders
<1>7. \A p \in P : s \notin Holds(proc'[p])
  BY <1>4, <1>6 DEF UnknownTo
<1>8. file'.deal # s
  <2>1. CASE SaveSetup(q) /\ Write(proc[q].state)
    BY <1>1, <1>5, <2>1 DEF SaveSetup, Write, Holders
  <2>2. CASE SaveInit(q) /\ Write([proc[q].state EXCEPT !.recorded = TRUE])
    <3>1. proc[q].state \in LocalState /\ proc[q].state.deal # s
      BY <1>2, <1>5, <2>2 DEF SaveInit, Shaped, Holders
    <3>2. [proc[q].state EXCEPT !.recorded = TRUE].deal # s
      BY <3>1 DEF LocalState
    <3>3. QED
      BY <1>1, <2>2, <3>2 DEF Write
  <2>3. QED
    BY <1>1, <1>2, <2>1, <2>2, FileFacts
<1>9. s \notin pending'
  <2>1. ASSUME LoseAnswer(q) PROVE s \notin pending'
    BY <1>1, <1>5, <2>1 DEF LoseAnswer, Holders
  <2>2. QED
    BY <1>1, <1>2, <2>1, FileFacts
<1>10. stream'[s] = stream[s]
  <2>1. ASSUME SendInit(q) PROVE stream'[s] = stream[s]
    <3>1. /\ proc[q].state.deal \in Streams \ {s}
          /\ Land(proc[q].state.deal)
      BY <1>2, <1>5, <2>1 DEF SendInit, Shaped, Holders, LocalState
    <3>2. QED
      BY <3>1, LandedFacts
  <2>2. QED
    BY <1>2, <2>1, FileFacts DEF vars
<1>11. QED
  BY <1>1, <1>7, <1>8, <1>9, <1>10 DEF UnknownTo

\* Nor do they from run, or from what happens without them.
LEMMA UnknownRest ==
  ASSUME ClientTyped, NEW P \in SUBSET Procs, NEW s \in Streams, UnknownTo(P, s),
         (\E q \in Procs : Round(q)) \/ Elsewhere
  PROVE  UnknownTo(P, s)'
<1>1. UNCHANGED <<file, proc>> /\ pending' \subseteq pending
  BY DEF Elsewhere, Round, LoseKey, PendingLands, PendingFails, allvars, cvars
<1>2. ASSUME NEW t \in Streams, PendingLands(t) PROVE stream'[s] = stream[s]
  BY <1>2, LandedFacts DEF PendingLands, UnknownTo
<1>3. stream'[s] = stream[s]
  BY <1>2, RoundKeeps DEF Elsewhere, LoseKey, PendingFails, allvars, vars, UnknownTo
<1>4. QED
  BY <1>1, <1>3 DEF UnknownTo

\* Mints are only ever used up.
LEMMA MintedGrows ==
  ASSUME [CNext]_allvars
  PROVE  minted \subseteq minted'
<1>1. ASSUME NEW q \in Procs, ProcessStep(q), ~ Round(q) PROVE minted \subseteq minted'
  BY <1>1, FileFacts DEF Fund
<1>2. QED
  BY <1>1, StepCases DEF cvars

\* The copies that processes hold are of streams with a mint.
LEMMA HeldIsMinted ==
  ASSUME MintsApart, NEW q \in Procs, proc[q].pc \in Holders, proc[q].state.deal \in Streams
  PROVE  proc[q].state.deal \in minted
BY DEF MintsApart, UnknownTo, Holds

\* A process is about to record a stream because it was already, or because its
\* transaction has just created it, and then nobody else is.
LEMMA SavesFacts ==
  ASSUME ClientTyped, CopiesTrue, NEW q \in Procs, NEW r \in Process, Goes(q, r),
         NEW s \in Streams, Saves(r, s)
  PROVE  \/ Saves(proc[q], s) /\ OpenFile(q)
         \/ SendInit(q) /\ ~ r.open /\ \A p \in Procs : ~ Saves(proc[p], s)
<1>1. r.pc = "save init" /\ r.state.deal = s /\ Holds(r) # {}
  BY DEF Saves, Holds, Holders
<1>2. CASE SendInit(q) /\ r.state = proc[q].state /\ ~ r.open
  <2>1. stream[s].status = "Uninitialized"
    BY <1>1, <1>2, LandedFacts DEF SendInit
  <2>2. \A p \in Procs : ~ Saves(proc[p], s)
    BY <2>1 DEF CopiesTrue, Trusts, Saves, Created
  <2>3. QED
    BY <1>2, <2>2
<1>3. QED
  BY <1>1, <1>2 DEF Goes, AtKeySteps, Saves

LEMMA MintsStep ==
  ASSUME ClientTyped, CopiesTrue, MintsApart, [CNext]_allvars
  PROVE  MintsApart'
<1>1. minted \subseteq minted'
  BY MintedGrows
<1>2. ASSUME NEW s \in Streams, s \notin minted' PROVE UnknownTo(Procs, s)'
  <2>1. UnknownTo(Procs, s)
    BY <1>1, <1>2 DEF MintsApart
  <2>2. QED
    BY <1>2, <2>1, StepCases, UnknownStep, UnknownRest
<1>3. ASSUME NEW p \in Procs, NEW s \in Streams,
             proc'[p].pc = "save setup", proc'[p].state.deal = s
      PROVE  UnknownTo(Procs \ {p}, s)'
  <2>1. CASE ProcessStep(p) /\ ~ Round(p)
    <3>1. PICK r \in Process : Become(p, r) /\ Goes(p, r)
      BY <2>1, GoesFacts
    <3>2. proc'[p] = r /\ \A q \in Procs \ {p} : proc'[q] = proc[q]
      BY <3>1, BecomeFacts
    <3>3. r.pc = "save setup" /\ r.state.deal = s /\ Holds(r) # {}
      BY <1>3, <3>2 DEF Holds, Holders
    <3>4. CASE Fund(p) /\ s \notin minted
      <4>1. UnknownTo(Procs, s) /\ UNCHANGED <<stream, file, pending>>
        BY <3>4 DEF MintsApart, Fund, vars
      <4>2. QED
        BY <3>2, <4>1 DEF UnknownTo
    <3>5. CASE OpenFile(p) /\ proc[p].pc = "save setup" /\ proc[p].state.deal = s
      <4>1. /\ UnknownTo(Procs \ {p}, s) /\ UNCHANGED <<stream, pending>>
            /\ file'.deal # s
        BY <3>5, ClientAssumption DEF MintsApart, OpenFile, vars, Unreadable
      <4>2. QED
        BY <3>2, <4>1 DEF UnknownTo
    <3>6. QED
      BY <3>1, <3>3, <3>4, <3>5 DEF Goes, AtKeySteps
  <2>2. CASE ~ (ProcessStep(p) /\ ~ Round(p))
    <3>1. proc'[p] = proc[p]
      <4>1. ASSUME NEW q \in Procs, ProcessStep(q), ~ Round(q) PROVE proc'[p] = proc[p]
        BY <2>2, <4>1, GoesFacts, BecomeFacts
      <4>2. QED
        BY <4>1, StepCases DEF cvars
    <3>2. UnknownTo(Procs \ {p}, s) /\ s \in minted
      BY <1>3, <3>1, HeldIsMinted DEF MintsApart, Holders
    <3>3. Procs \ {p} \in SUBSET Procs
      OBVIOUS
    <3>4. \/ \E q \in Procs \ {p} : ProcessStep(q) /\ ~ Round(q)
          \/ (\E q \in Procs : Round(q)) \/ Elsewhere
      BY <2>2, StepCases
    <3>5. QED
      BY <3>2, <3>3, <3>4, UnknownStep, UnknownRest
  <2>3. QED
    BY <2>1, <2>2
<1>4. ASSUME NEW p \in Procs, NEW q \in Procs, NEW s \in Streams,
             Saves(proc'[p], s), Saves(proc'[q], s)
      PROVE  p = q
  <2>1. CASE UNCHANGED proc
    BY <1>4, <2>1 DEF MintsApart
  <2>2. ASSUME NEW u \in Procs, ProcessStep(u), ~ Round(u) PROVE p = q
    <3>1. PICK r \in Process : Become(u, r) /\ Goes(u, r)
      BY <2>2, GoesFacts
    <3>2. proc'[u] = r /\ \A v \in Procs \ {u} : proc'[v] = proc[v]
      BY <3>1, BecomeFacts
    <3>3. Saves(r, s) => Saves(proc[u], s) \/ \A v \in Procs : ~ Saves(proc[v], s)
      BY <3>1, SavesFacts
    <3>4. QED
      BY <1>4, <3>2, <3>3 DEF MintsApart
  <2>3. QED
    BY <2>1, <2>2, StepCases DEF cvars
<1>5. QED
  BY <1>2, <1>3, <1>4 DEF MintsApart, Saves

LEMMA MintsInvariance == CSpec => []MintsApart
<1>1. CInit => MintsApart
  <2> SUFFICES ASSUME CInit PROVE MintsApart
    OBVIOUS
  <2>1. \A s \in Streams : stream[s].status = "Uninitialized" /\ file.deal # s
    BY ClientAssumption DEF CInit, Init, Blank, Unreadable
  <2>2. \A p \in Procs : proc[p].pc = "off" /\ Holds(proc[p]) = {}
    BY DEF CInit, Off, Holds, Holders
  <2>3. QED
    BY <2>1, <2>2 DEF CInit, MintsApart, UnknownTo, Saves
<1>2. ClientTyped /\ CopiesTrue /\ MintsApart /\ [CNext]_allvars => MintsApart'
  BY MintsStep
<1>3. QED
  BY <1>1, <1>2, TypedInvariance, CopiesInvariance, PTL DEF CSpec

-----------------------------------------------------------------------------
(* What is remembered while nothing fails *)

\* Without faults, a step is one of a process, or none at all.
LEMMA FaultSteps ==
  ASSUME ClientTyped, NothingLost, [CNext]_allvars, faults' = 0
  PROVE  /\ faults = 0 /\ pending = {} /\ pending' = {}
         /\ \/ UNCHANGED allvars
            \/ \E q \in Procs : Round(q)
            \/ \E q \in Procs : /\ ProcessStep(q) /\ ~ Round(q)
                                /\ ~ LoseAnswer(q) /\ ~ Crash(q)
<1>1. faults \in Nat
  BY RestFacts, ClientAssumption DEF RestTyped
<1>2. ~ Fault
  BY <1>1 DEF Fault
<1>3. \A q \in Procs : ~ LoseAnswer(q) /\ ~ Crash(q)
  BY <1>2 DEF LoseAnswer, Crash
<1>4. \A n \in KeyFiles : ~ LoseKey(n)
  BY <1>2 DEF LoseKey
<1>5. faults = 0
  BY <1>3, <1>4, StepCases, FileFacts DEF Elsewhere, PendingLands, PendingFails, cvars, allvars
<1>6. pending = {}
  BY <1>5 DEF NothingLost
<1>7. Elsewhere => UNCHANGED allvars
  BY <1>4, <1>6 DEF Elsewhere, PendingLands, PendingFails
<1>8. \/ UNCHANGED allvars
      \/ \E q \in Procs : Round(q)
      \/ \E q \in Procs : ProcessStep(q) /\ ~ Round(q) /\ ~ LoseAnswer(q) /\ ~ Crash(q)
  BY <1>3, <1>7, StepCases
<1>9. pending' = {}
  <2>1. ASSUME NEW q \in Procs, ProcessStep(q), ~ Round(q) PROVE pending' \subseteq pending
    BY <1>3, <2>1, FileFacts
  <2>2. QED
    BY <1>6, <1>8, <2>1 DEF Round, cvars, allvars
<1>10. QED
  BY <1>5, <1>6, <1>8, <1>9

\* A process that is about to record a stream does just that, or dies.
LEMMA SaverSteps ==
  ASSUME ClientTyped, NEW q \in Procs, ProcessStep(q), proc[q].pc = "save init"
  PROVE  OpenFile(q) \/ SaveInit(q) \/ Crash(q)
<1>1. ~ LoadKey(q) /\ ~ GenerateKey(q) /\ ~ WriteKey(q)
  BY ProcessFacts DEF LoadKey, GenerateKey, WriteKey, Got, AtKey, Process
<1>2. /\ ~ Fund(q) /\ ~ SaveSetup(q) /\ ~ LoadForInit(q) /\ ~ SendInit(q) /\ ~ InitFails(q)
      /\ ~ LoadForRun(q) /\ ~ RunRefuses(q) /\ ~ Round(q) /\ ~ KeeperUnfunded(q)
      /\ ~ RunEnds(q) /\ ~ LoadFails(q) /\ ~ LoseAnswer(q)
      /\ ~ \E command \in CommandNames : Start(q, command)
  BY DEF Fund, SaveSetup, LoadForInit, SendInit, InitFails, LoadForRun, RunRefuses, Round,
         KeeperUnfunded, RunEnds, LoadFails, LoseAnswer, Start
<1>3. QED
  BY <1>1, <1>2 DEF ProcessStep, Step

\* With one setup, the only process that writes the state file after the stream was
\* created is the one that created it.
LEMMA OneSetup ==
  ASSUME ClientTyped, CopiesTrue, MintsApart, NEW s \in Streams, minted \subseteq {s},
         NEW q \in Procs, ProcessStep(q), ~ Round(q), ~ UNCHANGED file,
         Created(s) \/ \E p \in Procs : Saves(proc[p], s)
  PROVE  /\ Saves(proc[q], s)
         /\ \/ OpenFile(q) /\ file' = Unreadable
            \/ SaveInit(q) /\ proc[q].open /\ Write([proc[q].state EXCEPT !.recorded = TRUE])
<1>1. \/ OpenFile(q) /\ file' = Unreadable
      \/ SaveSetup(q) /\ Write(proc[q].state)
      \/ SaveInit(q) /\ Write([proc[q].state EXCEPT !.recorded = TRUE])
  BY FileFacts
<1>2. proc[q].pc \in {"save setup", "save init"}
  BY <1>1 DEF OpenFile, SaveSetup, SaveInit
<1>3. proc[q].state.deal \in Streams
  BY <1>2, ProcessFacts DEF Shaped, Holders, LocalState
<1>4. proc[q].state.deal = s
  BY <1>2, <1>3, HeldIsMinted DEF Holders
<1>5. proc[q].pc # "save setup"
  <2>1. Created(s)
    BY DEF CopiesTrue, Saves, Trusts
  <2>2. QED
    BY <1>4, <2>1 DEF MintsApart, UnknownTo, Created
<1>6. QED
  BY <1>1, <1>2, <1>4, <1>5 DEF Saves, SaveSetup, SaveInit

LEMMA LostStep ==
  ASSUME ClientTyped, CopiesTrue, MintsApart, NothingLost, [CNext]_allvars
  PROVE  NothingLost'
<1> SUFFICES ASSUME faults' = 0
             PROVE  /\ pending' = {}
                    /\ \A p \in Procs, s \in Streams :
                         minted' \subseteq {s} /\ Saves(proc'[p], s) /\ proc'[p].open
                           => file' = Unreadable
                    /\ \A s \in Streams :
                         Created(s)' /\ minted' \subseteq {s} => Remembered(s)'
  BY DEF NothingLost, OnlySetupForgets, Saves
<1>1. faults = 0 /\ pending' = {} /\ minted \subseteq minted'
  BY FaultSteps, MintedGrows
<1>2. ASSUME NEW p \in Procs, NEW s \in Streams,
             minted' \subseteq {s}, Saves(proc'[p], s), proc'[p].open
      PROVE  file' = Unreadable
  <2>1. CASE UNCHANGED <<file, proc>>
    BY <1>1, <1>2, <2>1 DEF NothingLost
  <2>2. ASSUME NEW q \in Procs, ProcessStep(q), ~ Round(q) PROVE file' = Unreadable
    <3>1. PICK r \in Process : Become(q, r) /\ Goes(q, r)
      BY <2>2, GoesFacts
    <3>2. proc'[q] = r /\ \A v \in Procs \ {q} : proc'[v] = proc[v]
      BY <3>1, BecomeFacts
    <3>3. CASE p = q
      <4>1. OpenFile(q)
        BY <1>2, <3>1, <3>2, <3>3, SavesFacts
      <4>2. QED
        BY <4>1 DEF OpenFile
    <3>4. CASE p # q
      <4>1. Saves(proc[p], s) /\ proc[p].open /\ minted \subseteq {s}
        BY <1>1, <1>2, <3>2, <3>4
      <4>2. file = Unreadable /\ ~ Saves(proc[q], s)
        BY <1>1, <3>4, <4>1 DEF NothingLost, MintsApart
      <4>3. QED
        BY <2>2, <4>1, <4>2, OneSetup
    <3>5. QED
      BY <3>3, <3>4
  <2>3. QED
    BY <2>1, <2>2, StepCases DEF cvars
<1>3. ASSUME NEW s \in Streams, Created(s)', minted' \subseteq {s}, Created(s)
      PROVE  Remembered(s)'
  <2>1. Remembered(s) /\ minted \subseteq {s}
    BY <1>1, <1>3 DEF NothingLost, OnlySetupForgets
  <2>2. CASE UNCHANGED <<file, proc>>
    BY <2>1, <2>2 DEF Remembered
  <2>3. ASSUME NEW q \in Procs, ProcessStep(q), ~ Round(q), ~ LoseAnswer(q), ~ Crash(q)
        PROVE  Remembered(s)'
    <3>1. PICK r \in Process : Become(q, r) /\ Goes(q, r)
      BY <2>3, GoesFacts
    <3>2. proc'[q] = r /\ \A v \in Procs \ {q} : proc'[v] = proc[v]
      BY <3>1, BecomeFacts
    <3>3. CASE Saves(proc[q], s)
      <4>1. OpenFile(q) \/ SaveInit(q)
        BY <2>3, <3>3, SaverSteps DEF Saves
      <4>2. CASE OpenFile(q)
        <5> DEFINE x == [proc[q] EXCEPT !.open = TRUE]
        <5>1. Become(q, x) /\ x.pc = proc[q].pc /\ x.state = proc[q].state
          BY <4>2, ProcessFacts DEF OpenFile, Process
        <5> HIDE DEF x
        <5>2. proc'[q] = x
          BY <5>1, BecomeFacts
        <5>3. QED
          BY <3>3, <5>1, <5>2 DEF Saves, Remembered
      <4>3. CASE SaveInit(q)
        <5>1. file = Unreadable
          BY <1>1, <2>1, <3>3, <4>3 DEF NothingLost, SaveInit
        <5>2. file' = [proc[q].state EXCEPT !.recorded = TRUE]
          BY <4>3, <5>1 DEF SaveInit, Write
        <5>3. proc[q].state \in LocalState /\ proc[q].state.deal = s
          BY <3>3, ProcessFacts DEF Saves, Shaped, Holders
        <5>4. file'.recorded /\ file'.deal = s
          BY <5>2, <5>3 DEF LocalState
        <5>5. QED
          BY <5>4 DEF Remembered
      <4>4. QED
        BY <4>1, <4>2, <4>3
    <3>4. CASE ~ Saves(proc[q], s)
      <4>1. UNCHANGED file
        BY <1>3, <2>1, <2>3, <3>4, OneSetup
      <4>2. QED
        BY <2>1, <3>2, <3>4, <4>1 DEF Remembered, Saves
    <3>5. QED
      BY <3>3, <3>4
  <2>4. QED
    BY <2>2, <2>3, FaultSteps DEF Round, cvars, allvars
<1>4. ASSUME NEW s \in Streams, Created(s)', minted' \subseteq {s}, ~ Created(s)
      PROVE  Remembered(s)'
  <2>1. stream[s].status = "Uninitialized" /\ stream'[s] # stream[s]
    BY <1>4 DEF CopiesTrue, Created
  <2>2. PICK q \in Procs : SendInit(q)
    <3>1. ~ UNCHANGED vars /\ ~ \E q \in Procs : Round(q)
      BY <2>1, RoundKeeps DEF vars
    <3>2. QED
      BY <3>1, FaultSteps, FileFacts DEF allvars
  <2> DEFINE r == [proc[q] EXCEPT !.pc = "save init"]
             t == proc[q].state.deal
  <2>3. Become(q, r) /\ r.pc = "save init" /\ r.state.deal = t
    BY <2>2, ProcessFacts DEF SendInit, Process
  <2>4. t \in Streams /\ Land(t)
    BY <2>2, ProcessFacts DEF SendInit, Shaped, Holders, LocalState
  <2> HIDE DEF r, t
  <2>5. t = s
    BY <2>1, <2>4, LandedFacts
  <2>6. proc'[q] = r
    BY <2>3, BecomeFacts
  <2>7. QED
    BY <2>3, <2>5, <2>6 DEF Remembered
<1>5. QED
  BY <1>1, <1>2, <1>3, <1>4

LEMMA LostInvariance == CSpec => []NothingLost
<1>1. CInit => NothingLost
  <2> SUFFICES ASSUME CInit PROVE NothingLost
    OBVIOUS
  <2>1. \A s \in Streams : stream[s].status = "Uninitialized"
    BY DEF CInit, Init, Blank
  <2>2. \A p \in Procs : proc[p].pc = "off"
    BY DEF CInit, Off
  <2>3. QED
    BY <2>1, <2>2 DEF CInit, NothingLost, OnlySetupForgets, Created, Saves
<1>2. ClientTyped /\ CopiesTrue /\ MintsApart /\ NothingLost /\ [CNext]_allvars => NothingLost'
  BY LostStep
<1>3. QED
  BY <1>1, <1>2, TypedInvariance, CopiesInvariance, MintsInvariance, PTL DEF CSpec

\* As long as nothing fails, only another setup makes the file forget a stream that
\* init-stream has created, whatever else overlaps.
THEOREM NothingForgotten == CSpec => []OnlySetupForgets
<1>1. ASSUME NothingLost PROVE OnlySetupForgets
  BY <1>1 DEF NothingLost, OnlySetupForgets
<1>2. QED
  BY <1>1, LostInvariance, PTL
=============================================================================
