--------------------------- MODULE MagicClientProofs ---------------------------
(***************************************************************************)
(* Theorems about MagicClient, for all amounts and numbers of faults,      *)
(* streams and payments by others.  watch knows a stream by one balance    *)
(* that was read before the stream existed, so the invariant says what     *)
(* that balance is worth: ChainAligned, that payments come in order;       *)
(* AsksFresh, of balances that were read and not used yet; CopiesBooked,   *)
(* of those that were saved; WatchTrue, of what watch makes of them.       *)
(***************************************************************************)
EXTENDS MagicClient, MagicStreamProofs, BytesProofs

-----------------------------------------------------------------------------
(* The wire *)

\* The handlers that the client and release address by their tags.
LEMMA Tags ==
  ASSUME NEW data
  PROVE  /\ Read(data, 0, 8) = 0 => decode(data) = {"Initialize"}
         /\ Read(data, 0, 8) = 4 => decode(data) = {"SettleChunk"}
         /\ Read(data, 0, 8) = 5 => decode(data) = {"Finalize"}
<1> DEFINE tag == Read(data, 0, 8)
           hits == {j \in StreamInstruction : j[1] = tag}
<1>1. StreamInstruction =
        { <<0, "Initialize">>, <<1, "Delegate">>, <<2, "Schedule">>, <<3, "Release">>,
          <<4, "SettleChunk">>, <<5, "Finalize">>, <<6, "UndelegateCallback">> }
  BY DEF StreamInstruction, INITIALIZE_STREAM, DELEGATE_STREAM, SCHEDULE_STREAM,
         RELEASE_CHUNK, SETTLE_CHUNK, FINALIZE_STREAM, UNDELEGATION_CALLBACK
<1>2. decode(data) = {i[2] : i \in hits}
  BY DEF decode
<1> HIDE DEF tag
<1>3. tag = 0 => hits = {<<0, "Initialize">>}
  BY <1>1
<1>4. tag = 4 => hits = {<<4, "SettleChunk">>}
  BY <1>1
<1>5. tag = 5 => hits = {<<5, "Finalize">>}
  BY <1>1
<1> HIDE DEF hits
<1>6. ASSUME NEW t, NEW name, hits = {<<t, name>>} PROVE decode(data) = {name}
  <2>1. <<t, name>>[2] = name
    OBVIOUS
  <2>2. \A i : i \in hits <=> i = <<t, name>>
    BY <1>6
  <2>3. QED
    BY <1>2, <2>1, <2>2
<1>7. QED
  BY <1>3, <1>4, <1>5, <1>6 DEF tag

\* What initialize decodes is what init-stream asked for.
LEMMA InitDataFacts ==
  ASSUME NEW c
  PROVE  /\ IsInitialize(Data(c))
         /\ InitializeArgs(Data(c)) =
              [ total_amount |-> c.total_amount, chunk_amount |-> c.chunk_amount,
                interval_ms |-> 1, fee_reserve_lamports |-> 1,
                bump |-> Bump, escrow_bump |-> EscrowBump ]
<1> DEFINE data  == Data(c)
           total == c.total_amount
           chunk == c.chunk_amount
           cells == { <<0, 8, 0>>, <<8, 8, total>>, <<16, 8, chunk>>, <<24, 8, 1>>,
                      <<32, 8, 1>>, <<40, 1, Bump>>, <<41, 1, EscrowBump>> }
<1>1. data.len = 42 /\ data.cells = cells
  <2> DEFINE amounts == Put(Put(Tagged(0), 8, total), 8, chunk)
             times   == Put(Put(amounts, 8, 1), 8, 1)
  <2>1. data = Put(Put(times, 1, Bump), 1, EscrowBump)
    BY DEF Data, initializeStream
  <2>2. amounts.len = 24 /\ amounts.cells = {<<0, 8, 0>>, <<8, 8, total>>, <<16, 8, chunk>>}
    BY DEF Put, Tagged, Empty
  <2> HIDE DEF amounts
  <2>3. times.len = 40 /\ times.cells = amounts.cells \cup {<<24, 8, 1>>, <<32, 8, 1>>}
    BY <2>2 DEF Put
  <2> HIDE DEF times
  <2>4. /\ data.len = 42
        /\ data.cells = times.cells \cup {<<40, 1, Bump>>, <<41, 1, EscrowBump>>}
    BY <2>1, <2>3 DEF Put
  <2>5. QED
    BY <2>2, <2>3, <2>4
<1> HIDE DEF data, total, chunk
<1>2. Written(data, 0, 8, 0) /\ Written(data, 8, 8, total)
  BY <1>1 DEF Written
<1>3. Written(data, 16, 8, chunk) /\ Written(data, 24, 8, 1)
  BY <1>1 DEF Written
<1>4. Written(data, 32, 8, 1) /\ Written(data, 40, 1, Bump)
  BY <1>1 DEF Written
<1>5. Written(data, 41, 1, EscrowBump)
  BY <1>1 DEF Written
<1> HIDE DEF cells
<1>6. /\ Read(data, 0, 8) = 0 /\ Read(data, 8, 8) = total /\ Read(data, 16, 8) = chunk
      /\ Read(data, 24, 8) = 1 /\ Read(data, 32, 8) = 1 /\ Read(data, 40, 1) = Bump
      /\ Read(data, 41, 1) = EscrowBump
  BY <1>2, <1>3, <1>4, <1>5, ReadBack
<1>7. QED
  BY <1>1, <1>6, Tags DEF IsInitialize, InitializeArgs, Payload, data, total, chunk

\* settle_chunk and finalize read the action that release wrote.
LEMMA ActionDataFacts ==
  ASSUME NEW a \in Action
  PROVE  IsAction(action_data(a)) /\ ActionArgs(action_data(a)) = a
<1> DEFINE data == action_data(a)
           tag  == IF a.kind = "finalize" THEN 5 ELSE 4
<1>1. /\ data.len = 24
      /\ data.cells = {<<0, 8, tag>>, <<8, 8, a.amount>>, <<16, 8, a.expected_sent>>}
  BY DEF action_data, FINALIZE_STREAM, SETTLE_CHUNK, Tagged, Put, Empty
<1> HIDE DEF data, tag
<1>2. /\ Written(data, 0, 8, tag) /\ Written(data, 8, 8, a.amount)
      /\ Written(data, 16, 8, a.expected_sent)
  BY <1>1 DEF Written
<1>3. /\ Read(data, 0, 8) = tag /\ Read(data, 8, 8) = a.amount
      /\ Read(data, 16, 8) = a.expected_sent
  BY <1>2, ReadBack
<1>4. /\ a.kind = "finalize" => decode(data) = {"Finalize"}
      /\ a.kind = "settle" => decode(data) = {"SettleChunk"}
  BY <1>3, Tags DEF tag
<1>5. /\ a.kind \in {"settle", "finalize"}
      /\ a = [kind |-> a.kind, amount |-> a.amount, expected_sent |-> a.expected_sent]
  BY DEF Action
<1>6. {"Finalize"} # {"SettleChunk"}
  OBVIOUS
<1>7. QED
  BY <1>1, <1>3, <1>4, <1>5, <1>6 DEF IsAction, ActionArgs, Payload, data

\* Either chain reads the account that the other one packed.
LEMMA AccountFacts ==
  ASSUME NEW st \in StreamState
  PROVE  CanUnpack(pack(st)) /\ unpack(pack(st)) = st
<1> DEFINE data == pack(st)
           act  == write_bool(st.active)
           sch  == write_bool(st.scheduled)
<1> USE DEF VERSION_OFFSET, TOTAL_OFFSET, CHUNK_OFFSET, SENT_OFFSET, ACTIVE_OFFSET,
            SCHEDULED_OFFSET
<1>1. /\ data.len = STREAM_STATE_LEN
      /\ data.cells =
           { <<0, 8, "USDCSTRM">>, <<8, 1, 1>>, <<233, 8, st.total_amount>>,
             <<241, 8, st.chunk_amount>>, <<249, 8, st.sent_amount>>, <<265, 1, act>>,
             <<268, 1, sch>> }
  BY DEF pack
<1> HIDE DEF data, act, sch
<1>2. Written(data, 0, 8, "USDCSTRM") /\ Written(data, 8, 1, 1)
  BY <1>1 DEF Written
<1>3. Written(data, 233, 8, st.total_amount) /\ Written(data, 241, 8, st.chunk_amount)
  BY <1>1 DEF Written
<1>4. /\ Written(data, 249, 8, st.sent_amount) /\ Written(data, 265, 1, act)
      /\ Written(data, 268, 1, sch)
  BY <1>1 DEF Written
<1>5. /\ Read(data, 0, 8) = "USDCSTRM" /\ Read(data, 8, 1) = 1
      /\ Read(data, 233, 8) = st.total_amount /\ Read(data, 241, 8) = st.chunk_amount
      /\ Read(data, 249, 8) = st.sent_amount /\ Read(data, 265, 1) = act
      /\ Read(data, 268, 1) = sch
  BY <1>2, <1>3, <1>4, ReadBack
<1>6. /\ st.active \in BOOLEAN /\ st.scheduled \in BOOLEAN
      /\ st = [ total_amount |-> st.total_amount, chunk_amount |-> st.chunk_amount,
                sent_amount |-> st.sent_amount, active |-> st.active,
                scheduled |-> st.scheduled ]
  BY DEF StreamState
<1>7. /\ act \in {0, 1} /\ (act = 1) = st.active
      /\ sch \in {0, 1} /\ (sch = 1) = st.scheduled
  BY <1>6 DEF act, sch, write_bool
<1>8. QED
  BY <1>1, <1>5, <1>6, <1>7 DEF CanUnpack, unpack, data

\* A transaction of init-stream creates the stream that was asked for.
LEMMA TransactionFacts ==
  ASSUME NEW c, Transaction(c)
  PROVE  /\ Create(c.total_amount, c.chunk_amount, "dlp")
         /\ count' = count + 1
         /\ UNCHANGED <<recipient, foreign>>
BY InitDataFacts DEF Transaction

-----------------------------------------------------------------------------
(* Types, and payments in order *)

\* The chains as the client meets them: nobody else pays into the escrow, which
\* holds what is left of the deal; what is paid is a number of chunks, unless it
\* is all.
ChainAligned ==
  /\ gifts = 0
  /\ owner = "none" => escrow = 0
  /\ owner # "none" =>
       /\ 0 < escrow
       /\ escrow <= base.total_amount
       /\ (base.total_amount - escrow) % base.chunk_amount = 0
       /\ count > 0

\* A configuration that init-stream accepts.
Chosen(c) ==
  /\ c \in Saved
  /\ c.total_amount \in Totals
  /\ c.chunk_amount \in Chunks
  /\ 0 < c.chunk_amount
  /\ c.chunk_amount <= c.total_amount

\* A process of init-stream that has looked at its arguments and is not done.
Runs(r) == r.pc \notin {"new", "ended"}

ConfigsChosen ==
  /\ config = NothingSaved \/ Chosen(config)
  /\ \A i \in Inits : Runs(init[i]) => Chosen(init[i].config)
  /\ watch.pc # "off" => Chosen(watch.config)
  /\ \A c \in pending : Chosen(c)

ClientTyped == MInv /\ CTypeOK /\ ChainAligned /\ ConfigsChosen

\* What the processes of init-stream hold at the given lines.
Held(f, pcs) == {f[i].config : i \in {j \in Inits : f[j].pc \in pcs}}

\* Configurations that may still create a stream, and those that speak of one.
Asks   == pending \cup Held(init, {"send"})
Copies == {config, watch.config} \cup Held(init, {"save", "write"})

\* What a step may be to the chains and the recipient's account: a transaction
\* of c, a payment, or something that at most somebody else had a part in.
Lands(c) ==
  /\ Create(c.total_amount, c.chunk_amount, "dlp")
  /\ count' = count + 1
  /\ UNCHANGED <<recipient, foreign>>

Pays(a) ==
  /\ SettleChunk(a) \/ Finalize(a)
  /\ recipient' = recipient + (escrow - escrow')
  /\ UNCHANGED <<count, foreign>>

Idle ==
  /\ DealKept
  /\ UNCHANGED <<escrow, gifts, count>>
  /\ UNCHANGED <<recipient, foreign>> \/ foreign' = foreign + 1

Calm == Idle \/ \E a \in Action : Pays(a)

LEMMA NothingTyped == NothingSaved \in Saved
BY WidthAssumption DEF NothingSaved, Saved, U64

\* The amounts of a configuration that was accepted.
LEMMA ChosenFacts ==
  ASSUME NEW c, Chosen(c)
  PROVE  /\ c.total_amount \in Nat /\ c.chunk_amount \in Nat
         /\ 0 < c.chunk_amount /\ c.chunk_amount <= c.total_amount
         /\ c.initial \in Nat /\ c.over \in Nat /\ c.foreign \in Nat /\ c.stream \in Nat
BY WidthAssumption DEF Chosen, Saved, U64

\* Numbers of the base layer.
LEMMA BaseFacts ==
  ASSUME ClientTyped
  PROVE  /\ base \in StreamState /\ base.total_amount \in Nat /\ base.chunk_amount \in Nat
         /\ escrow \in Nat /\ authorized \in Nat
         /\ recipient \in Nat /\ count \in Nat /\ foreign \in Nat
         /\ owner # "none" => base.chunk_amount > 0
BY StateFields, WidthAssumption, ClientAssumption
   DEF ClientTyped, MInv, MTyped, BaseLinked, CTypeOK, U64

\* What the chains do, and what the recipient receives by it.
LEMMA ChainsCalm ==
  ASSUME ClientTyped, Chains
  PROVE  Calm
<1>1. /\ recipient' = recipient + (escrow - escrow') /\ UNCHANGED <<count, foreign>>
      /\ Rollup \/ Committor \/ FaultyStep
  BY DEF Chains
<1>2. CASE \E a \in Action : SettleChunk(a) \/ Finalize(a)
  BY <1>1, <1>2 DEF Calm, Pays
<1>3. CASE DealKept /\ UNCHANGED <<escrow, gifts>>
  <2>1. recipient' = recipient
    BY <1>1, <1>3, BaseFacts
  <2>2. QED
    BY <1>1, <1>3, <2>1 DEF Calm, Idle
<1>4. QED
  BY <1>1, <1>2, <1>3, ChainSteps DEF ClientTyped

\* A step that leaves the deal alone.
LEMMA KeptCalm ==
  ASSUME ClientTyped,
         UNCHANGED <<owner, base, escrow, gifts, transfers, authorized, count>>,
         UNCHANGED <<recipient, foreign>> \/ foreign' = foreign + 1
  PROVE  Calm
BY BaseFacts DEF Calm, Idle, DealKept

\* One process of init-stream goes on.
LEMMA OneInit ==
  ASSUME init \in [Inits -> InitState], NEW i \in Inits, NEW r, Become(i, r)
  PROVE  /\ init'[i] = r
         /\ \A j \in Inits : j # i => init'[j] = init[j]
         /\ r \in InitState => init' \in [Inits -> InitState]
BY DEF Become

\* Nothing but what it holds now is added to what is held.
LEMMA OneHeld ==
  ASSUME init \in [Inits -> InitState], NEW i \in Inits, NEW r, Become(i, r), NEW pcs
  PROVE  \A c \in Held(init', pcs) : c \in Held(init, pcs) \/ (r.pc \in pcs /\ c = r.config)
<1> SUFFICES ASSUME NEW c \in Held(init', pcs)
             PROVE  c \in Held(init, pcs) \/ (r.pc \in pcs /\ c = r.config)
  OBVIOUS
<1>1. PICK j \in Inits : init'[j].pc \in pcs /\ c = init'[j].config
  BY DEF Held
<1>2. CASE j = i
  BY <1>1, <1>2, OneInit
<1>3. CASE j # i
  <2>1. init[j].pc \in pcs /\ c = init[j].config
    BY <1>1, <1>3, OneInit
  <2>2. QED
    BY <2>1 DEF Held
<1>4. QED
  BY <1>2, <1>3

\* Every step: one that asks for a stream, one that creates it, or a calm one
\* in which configurations are copied or forgotten.
LEMMA ClientSteps ==
  ASSUME ClientTyped, [CNext]_allvars
  PROVE  \/ \E i \in Inits : AskRecipient(i)
         \/ \E c \in Asks : /\ Lands(c)
                            /\ Asks' \subseteq Asks
                            /\ Copies' \subseteq Copies \cup {[c EXCEPT !.stream = count + 1]}
         \/ /\ Calm
            /\ Asks' \subseteq Asks
            /\ Copies' \subseteq Copies \cup {NothingSaved}
<1> DEFINE Moves == Asks' \subseteq Asks /\ Copies' \subseteq Copies \cup {NothingSaved}
<1>1. UNCHANGED clientvars => Moves
  BY DEF clientvars, conf, Asks, Copies, Held
<1>2. UNCHANGED <<vars, world>> => Calm
  BY KeptCalm DEF vars, world, basevars, ervars
<1>3. CASE UNCHANGED allvars
  BY <1>1, <1>2, <1>3 DEF allvars
<1>4. CASE InitUsdc
  BY <1>1, <1>4, KeptCalm DEF InitUsdc, world, ervars
<1>5. CASE Chains
  BY <1>1, <1>5, ChainsCalm DEF Chains
<1>6. CASE Recreate
  BY <1>1, <1>6, KeptCalm DEF Recreate, CreateTokenAccount, world, ervars
<1>7. CASE OtherPayment
  BY <1>1, <1>7, KeptCalm DEF OtherPayment, Foreign, vars, basevars, ervars
<1>8. CASE Close
  <2>1. UNCHANGED <<recipient, foreign>> \/ foreign' = foreign + 1
    BY <1>8 DEF Close, Foreign
  <2>2. QED
    BY <1>1, <1>8, <2>1, KeptCalm DEF Close, CloseDestination, ervars
<1>9. CASE InitStream
  <2>1. init \in [Inits -> InitState]
    BY DEF ClientTyped, CTypeOK
  <2>2. ASSUME NEW i \in Inits, NEW r, Become(i, r), ~ (r.pc \in {"send", "save", "write"})
        PROVE  /\ Held(init', {"send"}) \subseteq Held(init, {"send"})
               /\ Held(init', {"save", "write"}) \subseteq Held(init, {"save", "write"})
    BY <2>1, <2>2, OneHeld
  <2>3. ASSUME NEW i \in Inits, NEW total \in Totals, NEW chunk \in Chunks,
               AskSender(i, total, chunk)
        PROVE  Moves /\ Calm
    <3>1. Held(init', {"send"}) \subseteq Held(init, {"send"})
          /\ Held(init', {"save", "write"}) \subseteq Held(init, {"save", "write"})
      BY <2>2, <2>3 DEF AskSender
    <3>2. QED
      BY <1>2, <2>3, <3>1 DEF AskSender, conf, Asks, Copies
  <2>4. ASSUME NEW i \in Inits, SendInit(i)
        PROVE  \E c \in Asks : /\ Lands(c)
                              /\ Asks' \subseteq Asks
                              /\ Copies' \subseteq Copies \cup {[c EXCEPT !.stream = count + 1]}
    <3> DEFINE c == init[i].config
               new == [c EXCEPT !.stream = count + 1]
               r == [pc |-> "save", config |-> new]
    <3>1. c \in Asks /\ Lands(c)
      BY <2>4, TransactionFacts DEF SendInit, Asks, Held, Lands
    <3>2. Become(i, r) /\ UNCHANGED <<conf, watch, pending>>
      BY <2>4 DEF SendInit
    <3>3. r.pc = "save" /\ r.config = new
      OBVIOUS
    <3> HIDE DEF c, new, r
    <3>4. Held(init', {"send"}) \subseteq Held(init, {"send"})
      BY <2>1, <3>2, <3>3, OneHeld
    <3>5. Held(init', {"save", "write"}) \subseteq Held(init, {"save", "write"}) \cup {new}
      BY <2>1, <3>2, <3>3, OneHeld
    <3>6. Asks' \subseteq Asks /\ Copies' \subseteq Copies \cup {new}
      BY <3>2, <3>4, <3>5 DEF Asks, Copies, conf
    <3>7. QED
      BY <3>1, <3>6 DEF new
  <2>5. ASSUME NEW c \in pending, PendingLands(c)
        PROVE  c \in Asks /\ Lands(c) /\ Asks' \subseteq Asks /\ Copies' = Copies
    BY <2>5, TransactionFacts DEF PendingLands, Asks, Copies, Lands, Held, conf
  <2>6. ASSUME NEW c \in pending, PendingFails(c) PROVE Moves /\ Calm
    BY <1>2, <2>6 DEF PendingFails, Asks, Copies, Held, conf
  <2>7. ASSUME NEW i \in Inits, InitFails(i) \/ LoseAnswer(i) \/ Crash(i) PROVE Moves /\ Calm
    <3>1. Calm
      BY <1>2, <2>7, KeptCalm DEF InitFails, LoseAnswer, Crash, basevars, ervars, world
    <3>2. Become(i, Ended) /\ UNCHANGED <<conf, watch>>
      BY <2>7 DEF InitFails, LoseAnswer, Crash
    <3>3. /\ Held(init', {"send"}) \subseteq Held(init, {"send"})
          /\ Held(init', {"save", "write"}) \subseteq Held(init, {"save", "write"})
      BY <2>2, <3>2 DEF Ended
    <3>4. pending' \subseteq pending \cup Held(init, {"send"})
      BY <2>7 DEF InitFails, LoseAnswer, Crash, Held
    <3>5. QED
      BY <3>1, <3>2, <3>3, <3>4 DEF Asks, Copies, conf
  <2>8. ASSUME NEW i \in Inits, OpenConfig(i) PROVE Moves /\ Calm
    <3> DEFINE r == [init[i] EXCEPT !.pc = "write"]
    <3>1. /\ init[i].pc = "save" /\ Become(i, r) /\ config' = NothingSaved
          /\ UNCHANGED <<vars, watch, pending, world>>
      BY <2>8 DEF OpenConfig
    <3>2. r.pc = "write" /\ r.config = init[i].config
      BY <2>1 DEF InitState
    <3>3. init[i].config \in Held(init, {"save", "write"})
      BY <3>1 DEF Held
    <3> HIDE DEF r
    <3>4. /\ Held(init', {"send"}) \subseteq Held(init, {"send"})
          /\ Held(init', {"save", "write"}) \subseteq Held(init, {"save", "write"})
      BY <2>1, <3>1, <3>2, <3>3, OneHeld
    <3>5. QED
      BY <1>2, <3>1, <3>4 DEF Asks, Copies
  <2>9. ASSUME NEW i \in Inits, SaveConfig(i) PROVE Moves /\ Calm
    <3>1. /\ init[i].pc = "write" /\ Become(i, Ended)
          /\ config' \in {init[i].config, NothingSaved}
          /\ UNCHANGED <<vars, watch, pending, world>>
      BY <2>9 DEF SaveConfig
    <3>2. /\ Held(init', {"send"}) \subseteq Held(init, {"send"})
          /\ Held(init', {"save", "write"}) \subseteq Held(init, {"save", "write"})
      BY <2>2, <3>1 DEF Ended
    <3>3. init[i].config \in Held(init, {"save", "write"})
      BY <3>1 DEF Held
    <3>4. QED
      BY <1>2, <3>1, <3>2, <3>3 DEF Asks, Copies
  <2>10. QED
    BY <1>9, <2>3, <2>4, <2>5, <2>6, <2>7, <2>8, <2>9 DEF InitStream
<1>10. CASE Watch
  <2>1. CASE StartWatch
    BY <1>2, <2>1 DEF StartWatch, Asks, Copies, Held, conf
  <2>2. CASE Poll
    <3>1. watch'.config = watch.config
      BY <2>2 DEF Poll, ClientTyped, CTypeOK, WatchState
    <3>2. QED
      BY <1>2, <2>2, <3>1 DEF Poll, Asks, Copies, Held, conf
  <2>3. CASE TimeOut
    BY <1>2, <2>3 DEF TimeOut, Asks, Copies, Held, conf
  <2>4. QED
    BY <1>10, <2>1, <2>2, <2>3 DEF Watch
<1>11. QED
  BY <1>3, <1>4, <1>5, <1>6, <1>7, <1>8, <1>9, <1>10 DEF CNext

\* The chains' own invariant, when the client initializes and delegates in one
\* transaction.
LEMMA ClientMInv ==
  ASSUME ClientTyped, [CNext]_allvars
  PROVE  MInv'
<1>1. MInv
  BY DEF ClientTyped
<1>2. faults \in Nat /\ MaxFaults \in Nat
  BY <1>1, MagicAssumption DEF MInv, MTyped
<1>3. CASE UNCHANGED vars
  BY <1>1, <1>3, NextMInv
<1>4. CASE UNCHANGED <<basevars, ervars, queues>> /\ ClientFault
  <2>1. faults' \in 0..MaxFaults
    BY <1>2, <1>4 DEF ClientFault
  <2>2. QED
    BY <1>1, <1>4, <2>1
       DEF MInv, MTyped, BaseLinked, RollupLinked, basevars, ervars, queues
<1>5. ASSUME NEW c, Chosen(c), Transaction(c) PROVE MInv'
  BY <1>1, <1>5, TransactionFacts, CreateStep DEF Chosen
<1>6. CASE InitUsdc
  BY <1>1, <1>6
     DEF InitUsdc, MInv, MTyped, BaseLinked, RollupLinked, ervars, queues
<1>7. CASE Chains \/ Recreate \/ Close
  BY <1>1, <1>7, NextMInv DEF Chains, Recreate, Close, Next, Tokens
<1>8. CASE InitStream
  <2>1. ASSUME NEW i \in Inits, SendInit(i) PROVE MInv'
    BY <1>5, <2>1 DEF SendInit, ClientTyped, ConfigsChosen, Runs
  <2>2. ASSUME NEW c \in pending, PendingLands(c) PROVE MInv'
    BY <1>5, <2>2 DEF PendingLands, ClientTyped, ConfigsChosen
  <2>3. ASSUME NEW i \in Inits, LoseAnswer(i) \/ Crash(i) PROVE MInv'
    BY <1>4, <2>3 DEF LoseAnswer, Crash
  <2>4. QED
    BY <1>3, <1>8, <2>1, <2>2, <2>3
       DEF InitStream, AskSender, AskRecipient, InitFails, OpenConfig, SaveConfig,
           PendingFails
<1>9. CASE Watch \/ OtherPayment \/ UNCHANGED allvars
  BY <1>3, <1>9 DEF Watch, StartWatch, Poll, TimeOut, OtherPayment, allvars
<1>10. QED
  BY <1>6, <1>7, <1>8, <1>9 DEF CNext

\* Tokens of a deal that remain when an action was called, told by the chunk it
\* ends at.
LEMMA PaysFacts ==
  ASSUME ClientTyped, NEW a \in Action, Pays(a)
  PROVE  /\ owner # "none" /\ escrow' \in Nat /\ escrow' < escrow
         /\ recipient' \in Nat /\ recipient' = recipient + (escrow - escrow')
         /\ UNCHANGED <<count, foreign, gifts>>
         /\ \/ /\ UNCHANGED <<owner, base>>
               /\ 0 < escrow' /\ (base.total_amount - escrow') % base.chunk_amount = 0
            \/ owner' = "none" /\ escrow' = 0
<1>1. recipient' = recipient + (escrow - escrow') /\ UNCHANGED <<count, foreign>> /\ MInv
  BY DEF Pays, ClientTyped
<1>2. CASE SettleChunk(a)
  <2>1. /\ owner = "dlp" /\ a.expected_sent \in Nat /\ a.expected_sent < base.total_amount
        /\ a.amount \in Nat /\ a.amount > 0
        /\ escrow = base.total_amount - (a.expected_sent - a.amount)
        /\ escrow' = base.total_amount - a.expected_sent
        /\ UNCHANGED <<owner, base, gifts>>
    BY <1>1, <1>2, SettleFacts
  <2>2. a.expected_sent % base.chunk_amount = 0
    BY <1>2 DEF SettleChunk, CanSettle, Settles
  <2>3. base.total_amount - escrow' = a.expected_sent
    BY <2>1, BaseFacts
  <2>4. escrow' \in Nat /\ 0 < escrow' /\ escrow' < escrow
    BY <2>1, BaseFacts
  <2>5. recipient' \in Nat
    BY <1>1, <2>4, BaseFacts
  <2>6. QED
    BY <1>1, <2>1, <2>2, <2>3, <2>4, <2>5
<1>3. CASE Finalize(a)
  <2>1. /\ owner = "program" /\ owner' = "none" /\ escrow' = 0 /\ escrow > 0
        /\ UNCHANGED gifts
    BY <1>1, <1>3, FinalizeFacts
  <2>2. QED
    BY <1>1, <2>1, BaseFacts
<1>4. QED
  BY <1>2, <1>3 DEF Pays

LEMMA ClientAligned ==
  ASSUME ClientTyped, [CNext]_allvars
  PROVE  ChainAligned'
<1>1. ChainAligned
  BY DEF ClientTyped
<1>2. ASSUME NEW c, Chosen(c), Lands(c) PROVE ChainAligned'
  <2>1. /\ c.total_amount \in Nat /\ c.chunk_amount \in Nat
        /\ 0 < c.chunk_amount /\ c.chunk_amount <= c.total_amount
    BY <1>2, ChosenFacts
  <2>2. /\ gifts' = 0 /\ owner' = "dlp" /\ escrow' = c.total_amount
        /\ base'.total_amount = c.total_amount /\ base'.chunk_amount = c.chunk_amount
        /\ count' = count + 1
    BY <1>2 DEF Lands, Create, Initialized
  <2>3. (base'.total_amount - escrow') % base'.chunk_amount = 0
    <3>1. base'.total_amount - escrow' = 0
      BY <2>1, <2>2
    <3>2. 0 % c.chunk_amount = 0
      BY <2>1
    <3>3. QED
      BY <2>2, <3>1, <3>2
  <2>4. QED
    BY <2>1, <2>2, <2>3, BaseFacts DEF ChainAligned
<1>3. ASSUME NEW a \in Action, Pays(a) PROVE ChainAligned'
  <2>1. CASE owner' = "none" /\ escrow' = 0
    BY <1>1, <1>3, <2>1, PaysFacts DEF ChainAligned
  <2>2. CASE UNCHANGED <<owner, base>> /\ 0 < escrow'
              /\ (base.total_amount - escrow') % base.chunk_amount = 0
    <3>1. /\ escrow' \in Nat /\ escrow' < escrow /\ owner # "none"
          /\ UNCHANGED <<count, gifts>>
      BY <1>3, PaysFacts
    <3>2. escrow' <= base.total_amount
      BY <1>1, <3>1, BaseFacts DEF ChainAligned
    <3>3. QED
      BY <1>1, <2>2, <3>1, <3>2 DEF ChainAligned
  <2>3. QED
    BY <1>3, <2>1, <2>2, PaysFacts
<1>4. CASE Idle
  BY <1>1, <1>4 DEF ChainAligned, Idle, DealKept
<1>5. CASE \E i \in Inits : AskRecipient(i)
  BY <1>1, <1>5 DEF AskRecipient, ChainAligned, vars, basevars, world
<1>6. \A c \in Asks : Chosen(c)
  BY DEF Asks, Held, ClientTyped, ConfigsChosen, Runs
<1>7. QED
  BY <1>2, <1>3, <1>4, <1>5, <1>6, ClientSteps DEF Calm

\* A quotient and its divisor.
LEMMA Quotient ==
  ASSUME NEW v \in Nat, NEW c \in Nat, c > 0, NEW n, n = v \div c
  PROVE  n \in Nat /\ n * c \in Nat /\ n * c <= v
<1> DEFINE e == v % c
<1>1. n \in Nat /\ e \in 0..(c - 1) /\ v = c * n + e
  OBVIOUS
<1> HIDE DEF e
<1>2. n * c = c * n /\ c * n \in Nat
  BY <1>1
<1>3. QED
  BY <1>1, <1>2

\* watch infers no more executions than the tokens that arrived can pay for, or
\* than the stream has.
LEMMA ExecutionsFacts ==
  ASSUME ClientTyped, Chosen(watch.config), Explained
  PROVE  LET n == executionsForReceived(watch.config)
             c == watch.config.chunk_amount
             t == watch.config.total_amount
         IN  /\ received \in Nat /\ received <= t
             /\ n \in Nat /\ n * c \in Nat
             /\ n * c < t + c
             /\ Lesser(n * c, t) <= received
<1> DEFINE c == watch.config.chunk_amount
           t == watch.config.total_amount
           r == received
<1>1. c \in Nat /\ t \in Nat /\ c > 0 /\ r \in Nat /\ r <= t
  BY BaseFacts, ChosenFacts DEF Explained, received
<1>2. executionsForReceived(watch.config) = IF r = t THEN (t + c - 1) \div c ELSE r \div c
  BY DEF executionsForReceived, ceilDiv
<1> HIDE DEF c, t, r
<1> DEFINE n == executionsForReceived(watch.config)
           p == n * c
<1>3. n \in Nat /\ p \in Nat /\ p < t + c /\ Lesser(p, t) <= r
  <2> HIDE DEF n
  <2>1. CASE r = t
    <3> DEFINE v == t + c - 1
    <3>1. v \in Nat /\ v < t + c
      BY <1>1
    <3>2. n = v \div c
      BY <1>2, <2>1 DEF n
    <3> HIDE DEF v
    <3>3. n \in Nat /\ p \in Nat /\ p <= v
      BY <1>1, <3>1, <3>2, Quotient
    <3> HIDE DEF p
    <3>4. QED
      BY <1>1, <2>1, <3>1, <3>3 DEF Lesser
  <2>2. CASE r # t
    <3>1. n = r \div c
      BY <1>2, <2>2 DEF n
    <3>2. n \in Nat /\ p \in Nat /\ p <= r
      BY <1>1, <3>1, Quotient
    <3> HIDE DEF p
    <3>3. QED
      BY <1>1, <3>2 DEF Lesser
  <2>3. QED
    BY <2>1, <2>2
<1> HIDE DEF n
<1>4. QED
  BY <1>1, <1>3 DEF c, t, r, n

\* The client only ever holds configurations that it accepted, and only the
\* history of what it accepted is filled in later.
LEMMA ConfigSteps ==
  ASSUME ClientTyped, [CNext]_allvars
  PROVE  /\ config' \in Saved /\ intact' \in BOOLEAN
         /\ init' \in [Inits -> InitState] /\ pending' \subseteq Saved
         /\ config' = NothingSaved \/ Chosen(config')
         /\ \A i \in Inits : Runs(init'[i]) => Chosen(init'[i].config)
         /\ \A c \in pending' : Chosen(c)
<1> DEFINE Good(i, r) == r \in InitState /\ (Runs(r) => Chosen(r.config))
           Inited == /\ init' \in [Inits -> InitState]
                     /\ \A i \in Inits : Runs(init'[i]) => Chosen(init'[i].config)
           Filed  == /\ config' \in Saved /\ intact' \in BOOLEAN
                     /\ config' = NothingSaved \/ Chosen(config')
           Sent   == pending' \subseteq Saved /\ \A c \in pending' : Chosen(c)
<1>1. /\ config = NothingSaved \/ Chosen(config)
      /\ \A i \in Inits : Runs(init[i]) => Chosen(init[i].config)
      /\ \A c \in pending : Chosen(c)
      /\ config \in Saved /\ intact \in BOOLEAN /\ pending \subseteq Saved
      /\ init \in [Inits -> InitState]
  BY DEF ClientTyped, CTypeOK, ConfigsChosen
<1>2. ASSUME NEW i \in Inits, NEW r, Become(i, r), Good(i, r) PROVE Inited
  <2>1. init'[i] = r /\ init' \in [Inits -> InitState]
        /\ \A j \in Inits : j # i => init'[j] = init[j]
    BY <1>1, <1>2, OneInit
  <2>2. ASSUME NEW j \in Inits, Runs(init'[j]) PROVE Chosen(init'[j].config)
    <3>1. CASE j = i
      BY <1>2, <2>1, <2>2, <3>1
    <3>2. CASE j # i
      BY <1>1, <2>1, <2>2, <3>2
    <3>3. QED
      BY <3>1, <3>2
  <2>3. QED
    BY <2>1, <2>2
<1>3. UNCHANGED init => Inited
  BY <1>1
<1>4. UNCHANGED conf => Filed
  BY <1>1 DEF conf
<1>5. UNCHANGED pending => Sent
  BY <1>1
<1>6. \A i : Good(i, Ended)
  BY NothingTyped DEF InitState, Ended, Runs
<1> HIDE DEF Inited, Filed, Sent
<1>7. ASSUME NEW i \in Inits, NEW total \in Totals, NEW chunk \in Chunks,
             AskSender(i, total, chunk)
      PROVE  Inited /\ Filed /\ Sent
  <2> DEFINE new == [NothingSaved EXCEPT !.total_amount = total, !.chunk_amount = chunk]
             r == [pc |-> "balance", config |-> new]
  <2>1. total \in U64 /\ chunk \in U64 /\ 0 < chunk /\ chunk <= total
    BY <1>7, MagicAssumption DEF AskSender
  <2>2. new \in Saved /\ new.total_amount = total /\ new.chunk_amount = chunk
    BY <2>1, NothingTyped DEF Saved
  <2>3. Chosen(new)
    BY <2>1, <2>2 DEF Chosen
  <2>4. Become(i, r) /\ UNCHANGED <<conf, pending>>
    BY <1>7 DEF AskSender
  <2> HIDE DEF new
  <2>5. Good(i, r)
    BY <2>2, <2>3 DEF InitState
  <2> HIDE DEF r
  <2>6. QED
    BY <1>2, <1>4, <1>5, <2>4, <2>5
<1>8. ASSUME NEW i \in Inits, AskRecipient(i) PROVE Inited /\ Filed /\ Sent
  <2> DEFINE c == init[i].config
             new == [c EXCEPT !.initial = recipient, !.over = Over, !.foreign = foreign]
             r == [pc |-> "send", config |-> new]
  <2>1. Over \in Nat
    BY BaseFacts DEF Over, ClientTyped, ChainAligned
  <2>2. Chosen(c) /\ c \in Saved
    BY <1>1, <1>8 DEF AskRecipient, Runs, Chosen
  <2>3. Become(i, r) /\ UNCHANGED <<conf, pending>>
    BY <1>8 DEF AskRecipient
  <2> HIDE DEF c
  <2>4. new \in Saved /\ Chosen(new)
    BY <2>1, <2>2, BaseFacts DEF Chosen, Saved
  <2> HIDE DEF new
  <2>5. Good(i, r)
    BY <2>4 DEF InitState
  <2> HIDE DEF r
  <2>6. QED
    BY <1>2, <1>4, <1>5, <2>3, <2>5
<1>9. ASSUME NEW i \in Inits, SendInit(i) PROVE Inited /\ Filed /\ Sent
  <2> DEFINE c == init[i].config
             new == [c EXCEPT !.stream = count + 1]
             r == [pc |-> "save", config |-> new]
  <2>1. Chosen(c) /\ c \in Saved
    BY <1>1, <1>9 DEF SendInit, Runs, Chosen
  <2>2. Become(i, r) /\ UNCHANGED <<conf, pending>>
    BY <1>9 DEF SendInit
  <2> HIDE DEF c
  <2>3. new \in Saved /\ Chosen(new)
    BY <2>1, BaseFacts DEF Chosen, Saved
  <2> HIDE DEF new
  <2>4. Good(i, r)
    BY <2>3 DEF InitState
  <2> HIDE DEF r
  <2>5. QED
    BY <1>2, <1>4, <1>5, <2>2, <2>4
<1>10. ASSUME NEW i \in Inits, InitFails(i) \/ Crash(i) PROVE Inited /\ Filed /\ Sent
  BY <1>2, <1>4, <1>5, <1>6, <1>10 DEF InitFails, Crash
<1>11. ASSUME NEW i \in Inits, LoseAnswer(i) PROVE Inited /\ Filed /\ Sent
  <2>1. Chosen(init[i].config) /\ pending' = pending \cup {init[i].config}
    BY <1>1, <1>11 DEF LoseAnswer, Runs
  <2>2. Sent
    BY <1>1, <2>1 DEF Sent, Chosen
  <2>3. QED
    BY <1>2, <1>4, <1>6, <1>11, <2>2 DEF LoseAnswer
<1>12. ASSUME NEW i \in Inits, OpenConfig(i) PROVE Inited /\ Filed /\ Sent
  <2> DEFINE r == [init[i] EXCEPT !.pc = "write"]
  <2>1. /\ init[i].pc = "save" /\ Become(i, r) /\ config' = NothingSaved
        /\ intact' = FALSE /\ UNCHANGED pending
    BY <1>12 DEF OpenConfig
  <2>2. Chosen(init[i].config)
    BY <1>1, <2>1 DEF Runs
  <2>3. r \in InitState /\ r.config = init[i].config
    BY <1>1 DEF InitState
  <2> HIDE DEF r
  <2>4. Filed
    BY <2>1, NothingTyped DEF Filed
  <2>5. QED
    BY <1>2, <1>5, <2>1, <2>2, <2>3, <2>4
<1>13. ASSUME NEW i \in Inits, SaveConfig(i) PROVE Inited /\ Filed /\ Sent
  <2>1. /\ init[i].pc = "write" /\ Become(i, Ended) /\ intact' \in BOOLEAN
        /\ config' = init[i].config \/ config' = NothingSaved
        /\ UNCHANGED pending
    BY <1>13 DEF SaveConfig
  <2>2. Chosen(init[i].config)
    BY <1>1, <2>1 DEF Runs
  <2>3. Filed
    BY <2>1, <2>2, NothingTyped DEF Filed, Chosen
  <2>4. QED
    BY <1>2, <1>5, <1>6, <2>1, <2>3
<1>14. ASSUME NEW c \in pending, PendingLands(c) \/ PendingFails(c)
       PROVE  Inited /\ Filed /\ Sent
  <2>1. Sent
    BY <1>1, <1>14 DEF PendingLands, PendingFails, Sent
  <2>2. QED
    BY <1>3, <1>4, <1>14, <2>1 DEF PendingLands, PendingFails
<1>15. ASSUME UNCHANGED clientvars \/ Watch PROVE Inited /\ Filed /\ Sent
  BY <1>3, <1>4, <1>5, <1>15 DEF clientvars, Watch, StartWatch, Poll, TimeOut
<1>16. ASSUME InitStream PROVE Inited /\ Filed /\ Sent
  BY <1>7, <1>8, <1>9, <1>10, <1>11, <1>12, <1>13, <1>14, <1>16 DEF InitStream
<1>17. Inited /\ Filed /\ Sent
  BY <1>15, <1>16 DEF CNext, InitUsdc, Chains, Recreate, OtherPayment, Close, allvars
<1>18. QED
  BY <1>17 DEF Inited, Filed, Sent

\* What watch holds after a step.
LEMMA WatchSteps ==
  ASSUME ClientTyped, [CNext]_allvars
  PROVE  /\ watch' \in WatchState
         /\ watch'.pc # "off" => Chosen(watch'.config)
         /\ watch'.printed * watch'.config.chunk_amount
              < watch'.config.total_amount + watch'.config.chunk_amount \/ watch'.printed = 0
<1> DEFINE Goal == /\ watch' \in WatchState
                   /\ watch'.pc # "off" => Chosen(watch'.config)
                   /\ \/ watch'.printed * watch'.config.chunk_amount
                           < watch'.config.total_amount + watch'.config.chunk_amount
                      \/ watch'.printed = 0
<1>1. /\ watch \in WatchState /\ config \in Saved
      /\ config = NothingSaved \/ Chosen(config)
      /\ watch.pc # "off" => Chosen(watch.config)
      /\ \/ watch.printed * watch.config.chunk_amount
              < watch.config.total_amount + watch.config.chunk_amount
         \/ watch.printed = 0
  BY DEF ClientTyped, CTypeOK, ConfigsChosen
<1>2. CASE UNCHANGED watch
  BY <1>1, <1>2
<1>3. CASE StartWatch
  <2>1. watch' = [pc |-> "start", config |-> config, printed |-> 0] /\ Chosen(config)
    BY <1>1, <1>3 DEF StartWatch
  <2>2. QED
    BY <1>1, <2>1 DEF WatchState
<1>4. CASE TimeOut
  <2>1. watch' = [pc |-> "off", config |-> NothingSaved, printed |-> 0]
    BY <1>4 DEF TimeOut
  <2>2. QED
    BY <2>1, NothingTyped DEF WatchState
<1>5. CASE Poll
  <2> DEFINE n == executionsForReceived(watch.config)
  <2>1. Chosen(watch.config) /\ watch.pc \in {"start", "wait"}
    BY <1>1, <1>5 DEF Poll
  <2>2. CASE ~ Explained
    <3>1. watch' = [watch EXCEPT !.pc = "threw"]
      BY <1>5, <2>2 DEF Poll
    <3>2. /\ watch' \in WatchState /\ watch'.config = watch.config
          /\ watch'.printed = watch.printed
      BY <1>1, <3>1 DEF WatchState
    <3>3. QED
      BY <1>1, <2>1, <3>2
  <2>3. CASE Explained
    <3>1. n \in Nat /\ n * watch.config.chunk_amount
                         < watch.config.total_amount + watch.config.chunk_amount
      BY <2>1, <2>3, ExecutionsFacts
    <3>2. watch' = [watch EXCEPT !.printed = IF n > @ THEN n ELSE @,
                                 !.pc = IF received = watch.config.total_amount
                                          THEN "done" ELSE "wait"]
      BY <1>5, <2>3 DEF Poll
    <3> HIDE DEF n
    <3>3. /\ watch' \in WatchState /\ watch'.config = watch.config
          /\ watch'.printed = n \/ watch'.printed = watch.printed
      BY <1>1, <3>1, <3>2 DEF WatchState
    <3>4. CASE watch'.printed = n
      BY <2>1, <3>1, <3>3, <3>4
    <3>5. CASE watch'.printed = watch.printed
      BY <1>1, <2>1, <3>3, <3>5
    <3>6. QED
      BY <3>3, <3>4, <3>5
  <2>4. QED
    BY <2>2, <2>3
<1>6. QED
  BY <1>2, <1>3, <1>4, <1>5
     DEF CNext, Watch, InitStream, AskSender, AskRecipient, SendInit, InitFails, LoseAnswer,
         OpenConfig, SaveConfig, Crash, PendingLands, PendingFails, InitUsdc, Chains,
         Recreate, OtherPayment, Close, allvars, clientvars

\* What the recipient has, and how often it was touched.
LEMMA WorldSteps ==
  ASSUME ClientTyped, [CNext]_allvars
  PROVE  recipient' \in Nat /\ count' \in Nat /\ foreign' \in 0..MaxForeign
<1>1. /\ recipient \in Nat /\ count \in Nat /\ foreign \in 0..MaxForeign
      /\ MaxForeign \in Nat
  BY ClientAssumption DEF ClientTyped, CTypeOK
<1>2. CASE UNCHANGED world
  BY <1>1, <1>2 DEF world
<1>3. ASSUME NEW c, Transaction(c)
      PROVE  recipient' \in Nat /\ count' \in Nat /\ foreign' \in 0..MaxForeign
  BY <1>1, <1>3, TransactionFacts
<1>4. CASE OtherPayment \/ Close
  BY <1>1, <1>4 DEF OtherPayment, Close, Foreign
<1>5. CASE Chains
  <2>1. recipient' \in Nat
    <3>1. CASE Idle
      <4>1. recipient' = recipient + (escrow - escrow') /\ escrow' = escrow
        BY <1>5, <3>1 DEF Chains, Idle
      <4>2. QED
        BY <4>1, BaseFacts
    <3>2. QED
      BY <1>5, <3>1, ChainsCalm, PaysFacts DEF Calm
  <2>2. QED
    BY <1>1, <1>5, <2>1 DEF Chains
<1>6. QED
  BY <1>2, <1>3, <1>4, <1>5
     DEF CNext, Watch, StartWatch, Poll, TimeOut, InitStream, AskSender, AskRecipient,
         SendInit, InitFails, LoseAnswer, OpenConfig, SaveConfig, Crash, PendingLands,
         PendingFails, InitUsdc, Recreate, allvars

LEMMA ClientTypedInit == CInit => ClientTyped
<1> SUFFICES ASSUME CInit PROVE ClientTyped
  OBVIOUS
<1>1. MInv
  BY InitMInv DEF CInit
<1>2. CTypeOK
  BY NothingTyped, ClientAssumption DEF CInit, CTypeOK, InitState, WatchState, New
<1>3. ChainAligned /\ ConfigsChosen
  BY DEF CInit, Init, ChainAligned, ConfigsChosen, Runs, New
<1>4. QED
  BY <1>1, <1>2, <1>3 DEF ClientTyped

LEMMA ClientTypedNext == ClientTyped /\ [CNext]_allvars => ClientTyped'
<1> SUFFICES ASSUME ClientTyped, [CNext]_allvars PROVE ClientTyped'
  OBVIOUS
<1>1. CTypeOK'
  BY ConfigSteps, WatchSteps, WorldSteps DEF CTypeOK
<1>2. ConfigsChosen'
  BY ConfigSteps, WatchSteps DEF ConfigsChosen
<1>3. QED
  BY <1>1, <1>2, ClientMInv, ClientAligned DEF ClientTyped

LEMMA ClientTypedInvariance == CSpec => []ClientTyped
BY ClientTypedInit, ClientTypedNext, PTL DEF CSpec

-----------------------------------------------------------------------------
(* What configurations are worth *)

\* A balance that was read when no stream was there is still the recipient's as
\* long as no stream was created since and nobody else touched the account.
Fresh(c) ==
  /\ c.over <= count
  /\ c.foreign <= foreign
  /\ c.over = count /\ c.foreign = foreign => owner = "none" /\ recipient = c.initial

\* A configuration that was saved speaks of a stream that was created, of its
\* amounts as long as no other one was, and, by the recipient's balance, of what
\* it has paid as long as nobody else touched the account.
Booked(c) ==
  /\ c = NothingSaved \/ c.stream >= 1
  /\ c.stream <= count
  /\ c.foreign <= foreign
  /\ c.stream = count /\ owner # "none" =>
       /\ base.total_amount = c.total_amount
       /\ base.chunk_amount = c.chunk_amount
  /\ Meant(c) => recipient = c.initial + PaidOf(c)

AsksFresh    == \A c \in Asks : Fresh(c)
CopiesBooked == \A c \in Copies : Booked(c)

ClientKnows == ClientTyped /\ AsksFresh /\ CopiesBooked

LEMMA SavedFacts ==
  ASSUME NEW c \in Saved
  PROVE  /\ c.total_amount \in Nat /\ c.chunk_amount \in Nat /\ c.initial \in Nat
         /\ c.over \in Nat /\ c.foreign \in Nat /\ c.stream \in Nat
BY WidthAssumption DEF Saved, U64

\* Nothing saved speaks of no stream.
LEMMA NothingMeant == ~ Meant(NothingSaved)
BY DEF Meant, NothingSaved

LEMMA FreshStays ==
  ASSUME ClientTyped, NEW c \in Saved, Fresh(c), Calm \/ \E d : Lands(d)
  PROVE  Fresh(c)'
<1>1. c.over \in Nat /\ c.foreign \in Nat /\ count \in Nat /\ foreign \in Nat
  BY SavedFacts, BaseFacts
<1>2. CASE \E d : Lands(d)
  BY <1>1, <1>2 DEF Lands, Fresh
<1>3. CASE Idle
  BY <1>1, <1>3 DEF Idle, DealKept, Fresh
<1>4. ASSUME NEW a \in Action, Pays(a) PROVE Fresh(c)'
  BY <1>4, PaysFacts DEF Fresh
<1>5. QED
  BY <1>2, <1>3, <1>4 DEF Calm

\* What happens to a stream that a configuration speaks of: it is not replaced
\* by another one unnoticed, and what it has paid only grows.
LEMMA MeantStays ==
  ASSUME ClientTyped, NEW c \in Saved, Booked(c), Calm \/ \E d : Lands(d), Meant(c)'
  PROVE  /\ Meant(c)
         /\ recipient' = c.initial + PaidOf(c)'
         /\ PaidOf(c) <= PaidOf(c)'
         /\ owner' # "none" => /\ base'.total_amount = c.total_amount
                               /\ base'.chunk_amount = c.chunk_amount
         /\ owner = "none" => owner' = "none" /\ escrow' = escrow
<1>1. /\ c.total_amount \in Nat /\ c.initial \in Nat /\ c.stream \in Nat /\ c.foreign \in Nat
      /\ c.stream <= count /\ c.foreign <= foreign
      /\ count \in Nat /\ foreign \in Nat /\ escrow \in Nat /\ base.total_amount \in Nat
      /\ recipient \in Nat
  BY SavedFacts, BaseFacts DEF Booked
<1>2. c.stream = count' /\ c.stream = c.over + 1 /\ c.foreign = foreign'
  BY DEF Meant
<1>3. Calm /\ UNCHANGED <<count, foreign>>
  <2>1. ~ \E d : Lands(d)
    BY <1>1, <1>2 DEF Lands
  <2>2. CASE Idle
    <3>1. foreign' # foreign + 1
      BY <1>1, <1>2
    <3>2. QED
      BY <2>2, <3>1 DEF Idle, Calm
  <2>3. CASE \E a \in Action : Pays(a)
    BY <2>3 DEF Pays, Calm
  <2>4. QED
    BY <2>1, <2>2, <2>3 DEF Calm
<1>4. Meant(c)
  BY <1>2, <1>3 DEF Meant
<1>5. /\ recipient = c.initial + PaidOf(c)
      /\ owner # "none" => /\ base.total_amount = c.total_amount
                           /\ base.chunk_amount = c.chunk_amount
  BY <1>4 DEF Booked, Meant
<1>6. CASE Idle
  <2>1. recipient' = recipient
    BY <1>1, <1>3, <1>6 DEF Idle
  <2>2. /\ owner = "none" <=> owner' = "none"
        /\ base'.total_amount = base.total_amount /\ base'.chunk_amount = base.chunk_amount
        /\ escrow' = escrow
    BY <1>6 DEF Idle, DealKept
  <2>3. PaidOf(c)' = PaidOf(c) /\ PaidOf(c) \in Int
    BY <1>1, <2>2 DEF PaidOf
  <2>4. QED
    BY <1>4, <1>5, <2>1, <2>2, <2>3
<1>7. ASSUME NEW a \in Action, Pays(a)
      PROVE  /\ recipient' = c.initial + PaidOf(c)'
             /\ PaidOf(c) <= PaidOf(c)'
             /\ owner # "none"
             /\ owner' # "none" => /\ base'.total_amount = c.total_amount
                                   /\ base'.chunk_amount = c.chunk_amount
  <2>1. /\ owner # "none" /\ escrow' \in Nat /\ escrow' < escrow
        /\ recipient' = recipient + (escrow - escrow')
        /\ UNCHANGED <<owner, base>> \/ (owner' = "none" /\ escrow' = 0)
    BY <1>7, PaysFacts
  <2>2. PaidOf(c) = c.total_amount - escrow
    BY <1>5, <2>1 DEF PaidOf
  <2>3. PaidOf(c)' = c.total_amount - escrow'
    BY <1>1, <1>5, <2>1 DEF PaidOf
  <2>4. QED
    BY <1>1, <1>5, <2>1, <2>2, <2>3
<1>8. QED
  BY <1>3, <1>4, <1>6, <1>7 DEF Calm

LEMMA BookedStays ==
  ASSUME ClientTyped, NEW c \in Saved, Booked(c), Calm \/ \E d : Lands(d)
  PROVE  Booked(c)'
<1>1. /\ c.stream \in Nat /\ c.foreign \in Nat /\ count \in Nat /\ foreign \in Nat
      /\ c.stream <= count /\ c.foreign <= foreign
      /\ c = NothingSaved \/ c.stream >= 1
  BY SavedFacts, BaseFacts DEF Booked
<1>2. c.stream <= count' /\ c.foreign <= foreign'
  <2>1. count' \in {count, count + 1} /\ foreign' \in {foreign, foreign + 1}
    BY DEF Calm, Idle, Pays, Lands
  <2>2. QED
    BY <1>1, <2>1
<1>3. ASSUME c.stream = count', owner' # "none"
      PROVE  base'.total_amount = c.total_amount /\ base'.chunk_amount = c.chunk_amount
  <2>1. Calm
    BY <1>1, <1>3 DEF Lands
  <2>2. CASE Idle
    BY <1>3, <2>2 DEF Booked, Idle, DealKept
  <2>3. ASSUME NEW a \in Action, Pays(a)
        PROVE  base'.total_amount = c.total_amount /\ base'.chunk_amount = c.chunk_amount
    BY <1>3, <2>3, PaysFacts DEF Booked
  <2>4. QED
    BY <2>1, <2>2, <2>3 DEF Calm
<1>4. Meant(c)' => recipient' = c.initial + PaidOf(c)'
  BY MeantStays
<1>5. QED
  BY <1>1, <1>2, <1>3, <1>4 DEF Booked

\* The configuration that creates a stream speaks of it from then on.
LEMMA BookedAnew ==
  ASSUME ClientTyped, NEW c, NEW k, Chosen(c), Fresh(c), Lands(c), k = count + 1
  PROVE  Booked([c EXCEPT !.stream = k])'
<1>0. k \in Nat /\ count' = k /\ UNCHANGED <<recipient, foreign>>
  BY BaseFacts DEF Lands
<1> DEFINE new == [c EXCEPT !.stream = k]
<1>1. /\ new.stream = k /\ new.over = c.over /\ new.foreign = c.foreign
      /\ new.initial = c.initial /\ new.total_amount = c.total_amount
      /\ new.chunk_amount = c.chunk_amount
  BY DEF Chosen, Saved
<1> HIDE DEF new
<1>2. /\ owner' = "dlp" /\ escrow' = c.total_amount
      /\ base'.total_amount = c.total_amount /\ base'.chunk_amount = c.chunk_amount
  BY DEF Lands, Create, Initialized
<1>3. PaidOf(new)' = 0
  BY <1>2, ChosenFacts DEF PaidOf
<1>4. new.foreign <= foreign' /\ new.stream <= count' /\ new.stream >= 1
  BY <1>0, <1>1, BaseFacts DEF Fresh, Lands
<1>5. ASSUME Meant(new)' PROVE recipient' = new.initial
  <2>1. k = c.over + 1 /\ c.foreign = foreign
    BY <1>0, <1>1, <1>5 DEF Meant
  <2>2. c.over = count
    BY <2>1, BaseFacts, ChosenFacts
  <2>3. QED
    BY <1>0, <1>1, <2>1, <2>2 DEF Fresh
<1>6. new.initial + 0 = new.initial
  BY <1>1, ChosenFacts
<1>7. Booked(new)'
  BY <1>1, <1>2, <1>3, <1>4, <1>5, <1>6 DEF Booked
<1>8. QED
  BY <1>7 DEF new

LEMMA ClientKnowsInvariance == CSpec => []ClientKnows
<1>1. CInit => ClientKnows
  <2> SUFFICES ASSUME CInit PROVE AsksFresh /\ CopiesBooked
    BY ClientTypedInit DEF ClientKnows
  <2>1. /\ Asks = {} /\ Copies = {NothingSaved}
        /\ count = 0 /\ foreign = 0 /\ owner = "none"
    BY DEF CInit, Init, Asks, Copies, Held, New
  <2>2. Booked(NothingSaved)
    BY <2>1, NothingMeant DEF Booked, NothingSaved
  <2>3. QED
    BY <2>1, <2>2 DEF AsksFresh, CopiesBooked
<1>2. ClientKnows /\ [CNext]_allvars => ClientTyped'
  BY ClientTypedNext DEF ClientKnows
<1>3. ClientKnows /\ [CNext]_allvars => AsksFresh' /\ CopiesBooked'
  <2> SUFFICES ASSUME ClientTyped, AsksFresh, CopiesBooked, [CNext]_allvars
               PROVE  AsksFresh' /\ CopiesBooked'
    BY DEF ClientKnows
  <2>1. /\ \A c \in Asks : Chosen(c) /\ c \in Saved
        /\ \A c \in Copies : c \in Saved
    BY DEF Asks, Copies, Held, Runs, ClientTyped, ConfigsChosen, CTypeOK, InitState,
           WatchState, Chosen
  <2>2. ASSUME Calm \/ \E d : Lands(d), Asks' \subseteq Asks PROVE AsksFresh'
    BY <2>1, <2>2, FreshStays DEF AsksFresh
  <2>3. ASSUME Calm \/ \E d : Lands(d) PROVE \A c \in Copies : Booked(c)'
    BY <2>1, <2>3, BookedStays DEF CopiesBooked
  <2>4. Booked(NothingSaved)'
    BY ClientTypedNext, BaseFacts, NothingMeant
       DEF Booked, Meant, NothingSaved, ClientTyped, CTypeOK, ChainAligned
  <2>5. ASSUME NEW i \in Inits, AskRecipient(i) PROVE AsksFresh' /\ CopiesBooked'
    <3> DEFINE over == Over
               c0   == init[i].config
               new  == [c0 EXCEPT !.initial = recipient, !.over = over, !.foreign = foreign]
               r    == [pc |-> "send", config |-> new]
    <3>0. init \in [Inits -> InitState] /\ c0 \in Saved
      BY DEF ClientTyped, CTypeOK, InitState
    <3>1. Become(i, r) /\ UNCHANGED <<vars, conf, watch, pending, world>>
      BY <2>5 DEF AskRecipient
    <3>2. Calm
      BY <3>1, KeptCalm DEF vars, world, basevars, ervars
    <3>3. /\ over <= count /\ (over = count => owner = "none")
      BY BaseFacts DEF Over
    <3> HIDE DEF over, c0
    <3>4. /\ new.over = over /\ new.foreign = foreign /\ new.initial = recipient
      BY <3>0 DEF Saved
    <3> HIDE DEF new
    <3>41. r.pc = "send" /\ r.config = new
      OBVIOUS
    <3> HIDE DEF r
    <3>42. /\ Held(init', {"send"}) \subseteq Held(init, {"send"}) \cup {new}
           /\ Held(init', {"save", "write"}) \subseteq Held(init, {"save", "write"})
      BY <3>0, <3>1, <3>41, OneHeld
    <3>5. Asks' \subseteq Asks \cup {new} /\ Copies' \subseteq Copies
      BY <3>1, <3>42 DEF Asks, Copies, conf
    <3>6. \A c \in Asks : Fresh(c)'
      BY <2>1, <3>2, FreshStays DEF AsksFresh
    <3>7. ASSUME NEW c, c = new PROVE Fresh(c)'
      BY <3>1, <3>3, <3>4, <3>7, BaseFacts DEF Fresh, vars, world, basevars
    <3>8. QED
      BY <2>3, <3>2, <3>5, <3>6, <3>7 DEF AsksFresh, CopiesBooked
  <2>6. ASSUME NEW c \in Asks, Lands(c), Asks' \subseteq Asks,
               Copies' \subseteq Copies \cup {[c EXCEPT !.stream = count + 1]}
        PROVE  AsksFresh' /\ CopiesBooked'
    <3>1. Chosen(c) /\ Fresh(c)
      BY <2>1, <2>6 DEF AsksFresh
    <3>2. PICK k : k = count + 1
      OBVIOUS
    <3>3. Booked([c EXCEPT !.stream = k])'
      BY <2>6, <3>1, <3>2, BookedAnew
    <3>4. Copies' \subseteq Copies \cup {[c EXCEPT !.stream = k]}
      BY <2>6, <3>2
    <3>5. QED
      BY <2>2, <2>3, <2>6, <3>3, <3>4 DEF CopiesBooked
  <2>7. ASSUME Calm, Asks' \subseteq Asks, Copies' \subseteq Copies \cup {NothingSaved}
        PROVE  AsksFresh' /\ CopiesBooked'
    BY <2>2, <2>3, <2>4, <2>7 DEF CopiesBooked
  <2>8. QED
    BY <2>5, <2>6, <2>7, ClientSteps
<1>4. QED
  BY <1>1, <1>2, <1>3, PTL DEF CSpec, ClientKnows

-----------------------------------------------------------------------------
(* What watch makes of it *)

\* What watch may say when it has come as far as w: the three properties of the
\* runs about it, of which none can be kept without the others.
Truthful(w) ==
  Meant(w.config) =>
    /\ Lesser(w.printed * w.config.chunk_amount, w.config.total_amount) <= PaidOf(w.config)
    /\ w.pc # "threw"
    /\ w.pc = "done" => owner = "none" /\ escrow = 0

WatchTrue == Truthful(watch)

\* The balance shows watch what its stream has paid, and that it can explain.
LEMMA ReceivedFacts ==
  ASSUME ClientKnows, Chosen(watch.config), Meant(watch.config)
  PROVE  /\ received = PaidOf(watch.config)
         /\ Explained
         /\ received = watch.config.total_amount => owner = "none" /\ escrow = 0
<1> DEFINE c == watch.config
<1>1. ClientTyped /\ ChainAligned
  BY DEF ClientKnows, ClientTyped
<1>2. c.total_amount \in Nat /\ c.chunk_amount \in Nat /\ c.chunk_amount > 0 /\ c.initial \in Nat
  BY ChosenFacts
<1>3. /\ recipient = c.initial + PaidOf(c)
      /\ owner # "none" => /\ base.total_amount = c.total_amount
                           /\ base.chunk_amount = c.chunk_amount
  BY DEF ClientKnows, CopiesBooked, Copies, Booked, Meant
<1>4. received = recipient - c.initial
  BY DEF received
<1> HIDE DEF c
<1>5. CASE owner = "none"
  <2>1. PaidOf(c) = c.total_amount /\ received = c.total_amount
    BY <1>2, <1>3, <1>4, <1>5 DEF PaidOf
  <2>2. escrow = 0
    BY <1>1, <1>5 DEF ChainAligned
  <2>3. QED
    BY <1>2, <1>5, <2>1, <2>2 DEF Explained, c
<1>6. CASE owner # "none"
  <2>1. /\ 0 < escrow /\ escrow <= c.total_amount /\ escrow \in Nat
        /\ (c.total_amount - escrow) % c.chunk_amount = 0
    BY <1>1, <1>3, <1>6, BaseFacts DEF ChainAligned
  <2>2. PaidOf(c) = c.total_amount - escrow
    BY <1>3, <1>6 DEF PaidOf
  <2>3. received = c.total_amount - escrow
    BY <1>2, <1>3, <1>4, <2>1, <2>2
  <2>4. 0 <= received /\ received < c.total_amount
    BY <1>2, <2>1, <2>3
  <2>5. QED
    BY <1>2, <2>1, <2>2, <2>3, <2>4 DEF Explained, c
<1>7. QED
  BY <1>5, <1>6

\* Any step but watch's own leaves it right.
LEMMA TruthfulStays ==
  ASSUME ClientTyped, NEW w \in WatchState, Booked(w.config), Truthful(w),
         Calm \/ \E d : Lands(d)
  PROVE  Truthful(w)'
<1> DEFINE c == w.config
           p == Lesser(w.printed * c.chunk_amount, c.total_amount)
<1>1. c \in Saved
  BY DEF WatchState
<1>2. p \in Int
  <2>1. w.printed \in Nat /\ c.chunk_amount \in Nat /\ c.total_amount \in Nat
    BY <1>1, SavedFacts DEF WatchState
  <2>2. w.printed * c.chunk_amount \in Nat
    BY <2>1
  <2>3. QED
    BY <2>1, <2>2 DEF Lesser
<1> SUFFICES ASSUME Meant(c)'
             PROVE  /\ p <= PaidOf(c)'
                    /\ w.pc # "threw"
                    /\ w.pc = "done" => owner' = "none" /\ escrow' = 0
  BY DEF Truthful
<1>3. /\ Meant(c)
      /\ PaidOf(c) <= PaidOf(c)'
      /\ owner = "none" => owner' = "none" /\ escrow' = escrow
  BY <1>1, MeantStays
<1>4. /\ p <= PaidOf(c) /\ w.pc # "threw"
      /\ w.pc = "done" => owner = "none" /\ escrow = 0
  BY <1>3 DEF Truthful
<1> HIDE DEF p
<1>5. PaidOf(c) \in Int /\ PaidOf(c)' \in Int
  <2>1. /\ c.total_amount \in Int /\ escrow \in Int /\ base.total_amount \in Int
    BY <1>1, SavedFacts, BaseFacts
  <2>2. escrow' \in Int /\ (owner' # "none" => base'.total_amount = c.total_amount)
    <3>1. ASSUME NEW a \in Action, Pays(a) PROVE escrow' \in Int
      BY <3>1, PaysFacts
    <3>2. ASSUME Idle PROVE escrow' \in Int
      BY <2>1, <3>2 DEF Idle
    <3>3. ~ \E d : Lands(d)
      BY <1>1, SavedFacts, BaseFacts DEF Lands, Booked, Meant
    <3>4. QED
      BY <1>1, <3>1, <3>2, <3>3, MeantStays DEF Calm
  <2>3. QED
    BY <2>1, <2>2 DEF PaidOf
<1>6. QED
  BY <1>2, <1>3, <1>4, <1>5

LEMMA WatchInvariance == CSpec => []WatchTrue
<1>1. CInit => WatchTrue
  BY NothingMeant DEF CInit, WatchTrue, Truthful
<1>2. ClientKnows /\ WatchTrue /\ [CNext]_allvars => WatchTrue'
  <2> SUFFICES ASSUME ClientKnows, WatchTrue, [CNext]_allvars PROVE WatchTrue'
    OBVIOUS
  <2>1. /\ ClientTyped /\ ChainAligned /\ watch \in WatchState
        /\ config = NothingSaved \/ Chosen(config)
        /\ watch.pc # "off" => Chosen(watch.config)
        /\ Booked(watch.config) /\ Booked(config)
    BY DEF ClientKnows, ClientTyped, CTypeOK, ConfigsChosen, CopiesBooked, Copies
  <2>2. CASE UNCHANGED watch
    <3>1. Calm \/ \E d : Lands(d)
      <4>1. CASE \E i \in Inits : AskRecipient(i)
        BY <2>1, <4>1, KeptCalm DEF AskRecipient, vars, world, basevars, ervars
      <4>2. QED
        BY <2>1, <4>1, ClientSteps
    <3> SUFFICES ASSUME NEW w \in WatchState, w = watch PROVE WatchTrue'
      BY <2>1
    <3>2. Truthful(w)'
      BY <2>1, <3>1, TruthfulStays DEF WatchTrue
    <3>3. w = watch'
      BY <2>2
    <3>4. QED
      BY <3>2, <3>3 DEF WatchTrue, Truthful
  <2>3. CASE StartWatch
    <3>1. /\ watch' = [pc |-> "start", config |-> config, printed |-> 0]
          /\ Chosen(config) /\ UNCHANGED <<vars, world, config>>
      BY <2>1, <2>3 DEF StartWatch, conf
    <3> SUFFICES ASSUME NEW c, c = config, Meant(c)
                 PROVE  Lesser(0 * c.chunk_amount, c.total_amount) <= PaidOf(c)
      BY <3>1 DEF WatchTrue, Truthful, PaidOf, Meant, vars, basevars, world
    <3>2. /\ c.total_amount \in Nat /\ c.chunk_amount \in Nat
          /\ owner # "none" => base.total_amount = c.total_amount
      BY <2>1, <3>1, ChosenFacts DEF Booked, Meant
    <3>3. PaidOf(c) \in Nat
      BY <2>1, <3>2, BaseFacts DEF PaidOf, ChainAligned
    <3>4. Lesser(0 * c.chunk_amount, c.total_amount) = 0
      BY <3>2 DEF Lesser
    <3>5. QED
      BY <3>3, <3>4
  <2>4. CASE TimeOut
    <3>1. watch'.config = NothingSaved
      BY <2>4 DEF TimeOut
    <3>2. ~ Meant(watch.config)'
      BY <3>1 DEF Meant, NothingSaved
    <3>3. QED
      BY <3>2 DEF WatchTrue, Truthful
  <2>5. CASE Poll
    <3> DEFINE c == watch.config
               n == executionsForReceived(watch.config)
    <3>1. Chosen(c) /\ UNCHANGED <<vars, world>>
      BY <2>1, <2>5 DEF Poll
    <3>2. watch'.config = c
      BY <2>1, <2>5 DEF Poll, WatchState
    <3>3. CASE ~ Meant(c)
      BY <3>1, <3>2, <3>3 DEF WatchTrue, Truthful, Meant, world
    <3>4. CASE Meant(c)
      <4>1. /\ received = PaidOf(c) /\ Explained
            /\ received = c.total_amount => owner = "none" /\ escrow = 0
        BY <3>1, <3>4, ReceivedFacts
      <4>2. Lesser(n * c.chunk_amount, c.total_amount) <= PaidOf(c)
        BY <2>1, <3>1, <4>1, ExecutionsFacts
      <4>3. Lesser(watch.printed * c.chunk_amount, c.total_amount) <= PaidOf(c)
        BY <3>4 DEF WatchTrue, Truthful
      <4>4. watch' = [watch EXCEPT !.printed = IF n > @ THEN n ELSE @,
                                   !.pc = IF received = c.total_amount
                                            THEN "done" ELSE "wait"]
        BY <2>5, <4>1 DEF Poll
      <4> HIDE DEF n
      <4>5. /\ watch'.printed = n \/ watch'.printed = watch.printed
            /\ watch'.pc \in {"done", "wait"}
            /\ watch'.pc = "done" => received = c.total_amount
        BY <2>1, <4>4 DEF WatchState
      <4> HIDE DEF c
      <4>6. Lesser(watch'.printed * c.chunk_amount, c.total_amount) <= PaidOf(c)
        BY <4>2, <4>3, <4>5
      <4>7. PaidOf(watch.config)' = PaidOf(c) /\ UNCHANGED <<owner, escrow>>
        BY <3>1, <3>2 DEF PaidOf, vars, basevars
      <4>8. QED
        BY <3>2, <4>1, <4>5, <4>6, <4>7 DEF WatchTrue, Truthful
    <3>5. QED
      BY <3>3, <3>4
  <2>6. QED
    BY <2>2, <2>3, <2>4, <2>5
       DEF CNext, Watch, InitStream, AskSender, AskRecipient, SendInit, InitFails,
           LoseAnswer, OpenConfig, SaveConfig, Crash, PendingLands, PendingFails, InitUsdc,
           Chains, Recreate, OtherPayment, Close, allvars, clientvars
<1>3. QED
  BY <1>1, <1>2, ClientKnowsInvariance, PTL DEF CSpec

-----------------------------------------------------------------------------
(* Theorems *)

\* app.ts: every value that the client computes, saves or prints is of its type;
\* watch counts no more executions than the stream has.
THEOREM ClientTypes == CSpec => []CTypeOK
<1>1. ClientTyped => CTypeOK
  BY DEF ClientTyped
<1>2. QED
  BY <1>1, ClientTypedInvariance, PTL

\* app.ts:324: what watch has printed for its stream was paid.
THEOREM PrintedWasPaid == CSpec => []PrintedIsPaid
<1>1. WatchTrue => PrintedIsPaid
  BY DEF WatchTrue, Truthful, PrintedIsPaid
<1>2. QED
  BY <1>1, WatchInvariance, PTL

\* app.ts:318: watch never meets a balance that it cannot explain.
THEOREM NothingUnexplained == CSpec => []WatchExplains
<1>1. WatchTrue => WatchExplains
  BY DEF WatchTrue, Truthful, WatchExplains
<1>2. QED
  BY <1>1, WatchInvariance, PTL

\* app.ts:352: watch reports the end only of a stream that is closed.
THEOREM EndIsClosed == CSpec => []DoneMeansClosed
<1>1. WatchTrue => DoneMeansClosed
  BY DEF WatchTrue, Truthful, DoneMeansClosed
<1>2. QED
  BY <1>1, WatchInvariance, PTL

\* app.ts:275-277: config.json speaks of a stream only after its transaction has
\* executed, for any number of processes of init-stream, and of the amounts of the
\* stream that is there.
THEOREM SavedCreated == CSpec => []SavedIsCreated
<1>1. ClientKnows => SavedIsCreated
  <2> SUFFICES ASSUME ClientKnows, config # NothingSaved PROVE SavedIsCreated
    BY DEF SavedIsCreated
  <2>1. Booked(config) /\ config \in Saved /\ ClientTyped
    BY DEF ClientKnows, CopiesBooked, Copies, ClientTyped, CTypeOK
  <2>2. config.stream \in Nat /\ count \in Nat
    BY <2>1, SavedFacts, BaseFacts
  <2>3. QED
    BY <2>1, <2>2 DEF Booked, SavedIsCreated
<1>2. QED
  BY <1>1, ClientKnowsInvariance, PTL

\* wire.ts and state/mod.rs: the account and the actions are read as written.
THEOREM MagicWireAgreement == CSpec => []MagicWireAgrees
<1>1. ClientTyped => MagicWireAgrees
  BY AccountFacts, ActionDataFacts DEF ClientTyped, MInv, MTyped, MagicWireAgrees
<1>2. QED
  BY <1>1, ClientTypedInvariance, PTL

\* Driven by the client, which initializes and delegates in one transaction and
\* may crash or lose an answer at any point, the chains still implement the
\* promise of both programs.
THEOREM ClientRefinement == CSpec => ImplementsPaymentStream
<1>1. CInit => Abstract!Init
  BY DEF CInit, Init, Abstract!Init, Abstract!NoDeal, Deal
<1>2. ClientTyped /\ ClientTyped' /\ [CNext]_allvars
        => [Abstract!Next]_[s \in {"stream"} |-> Deal]
  <2> SUFFICES ASSUME ClientTyped, ClientTyped', [CNext]_allvars
               PROVE  [Abstract!Next]_DealOf
    BY DEF DealOf
  <2>1. MInv /\ gifts = 0 /\ gifts' = 0
    BY DEF ClientTyped, ChainAligned
  <2>2. ASSUME NEW c \in Asks, Lands(c) PROVE Abstract!Next
    <3>1. c.total_amount \in Totals /\ c.chunk_amount \in Chunks
      BY <2>2 DEF Asks, Held, Runs, ClientTyped, ConfigsChosen, Chosen
    <3>2. QED
      BY <2>1, <2>2, <3>1, DealSteps DEF Lands
  <2>3. CASE \E i \in Inits : AskRecipient(i)
    BY <2>3 DEF AskRecipient, vars, basevars, DealOf, Deal
  <2>4. ASSUME NEW a \in Action, Pays(a) PROVE Abstract!Next
    BY <2>1, <2>4, DealSteps DEF Pays
  <2>5. CASE Idle
    BY <2>1, <2>5, DealSteps DEF Idle, Unpaid
  <2>6. QED
    BY <2>2, <2>3, <2>4, <2>5, ClientSteps DEF Calm
<1>3. QED
  BY <1>1, <1>2, ClientTypedInvariance, PTL DEF CSpec, Abstract!Spec, ImplementsPaymentStream
=============================================================================
