------------------------------ MODULE MagicWire ------------------------------
(***************************************************************************)
(* The byte layouts of the MagicBlock program: the instruction data that   *)
(* the client writes, the action data that release writes on the rollup    *)
(* for settle_chunk and finalize to read on the base layer, and the stream *)
(* account, which travels between the two chains as bytes.                 *)
(*                                                                         *)
(* Source: magicblock/client/wire.ts; lib.rs, constants.rs, decode and     *)
(* read_u64 in instructions/mod.rs, the payloads of initialize.rs,         *)
(* release.rs, settle_chunk.rs and finalize.rs, pack and unpack in         *)
(* state/mod.rs.                                                           *)
(***************************************************************************)
EXTENDS MagicState, Bytes

\* The tags that decode knows, 8 bytes each.  The DLP's own tag is a large number;
\* all that matters is that it is none of the others.
INITIALIZE_STREAM     == 0
DELEGATE_STREAM       == 1
SCHEDULE_STREAM       == 2
RELEASE_CHUNK         == 3
SETTLE_CHUNK          == 4
FINALIZE_STREAM       == 5
UNDELEGATION_CALLBACK == 6

StreamInstruction ==
  { <<INITIALIZE_STREAM, "Initialize">>, <<DELEGATE_STREAM, "Delegate">>,
    <<SCHEDULE_STREAM, "Schedule">>, <<RELEASE_CHUNK, "Release">>,
    <<SETTLE_CHUNK, "SettleChunk">>, <<FINALIZE_STREAM, "Finalize">>,
    <<UNDELEGATION_CALLBACK, "UndelegateCallback">> }

\* The handler for the data; none for an unknown tag.
decode(data) == {i[2] : i \in {j \in StreamInstruction : j[1] = Read(data, 0, 8)}}

\* The payload follows the tag.
Payload == 8

Tagged(tag) == Put(Empty, 8, tag)

-----------------------------------------------------------------------------
(* Initialize *)

\* Bumps that give the stream's address and the escrow authority's.
Bump == 255
EscrowBump == 254

initializeStream(total, chunk, interval, reserve) ==
  LET amounts == Put(Put(Tagged(0), 8, total), 8, chunk)
      times   == Put(Put(amounts, 8, interval), 8, reserve)
  IN  Put(Put(times, 1, Bump), 1, EscrowBump)

IsInitialize(data) == decode(data) = {"Initialize"} /\ data.len = Payload + 34

InitializeArgs(data) ==
  [ total_amount         |-> Read(data, Payload, 8),
    chunk_amount         |-> Read(data, Payload + 8, 8),
    interval_ms          |-> Read(data, Payload + 16, 8),
    fee_reserve_lamports |-> Read(data, Payload + 24, 8),
    bump                 |-> Read(data, Payload + 32, 1),
    escrow_bump          |-> Read(data, Payload + 33, 1) ]

-----------------------------------------------------------------------------
(* Settle and finalize actions *)

\* (Mutated form: the two amounts change places.)
action_data_Swapped(a) ==
  LET tag == IF a.kind = "finalize" THEN FINALIZE_STREAM ELSE SETTLE_CHUNK
  IN  Put(Put(Tagged(tag), 8, a.expected_sent), 8, a.amount)

\* What release attaches to its intent.
action_data(a) ==
  LET tag == IF a.kind = "finalize" THEN FINALIZE_STREAM ELSE SETTLE_CHUNK
  IN  Put(Put(Tagged(tag), 8, a.amount), 8, a.expected_sent)

\* What settle_chunk and finalize make of it.
ActionArgs(data) ==
  [ kind          |-> IF decode(data) = {"Finalize"} THEN "finalize" ELSE "settle",
    amount        |-> Read(data, Payload, 8),
    expected_sent |-> Read(data, Payload + 8, 8) ]

IsAction(data) ==
  /\ decode(data) \in {{"SettleChunk"}, {"Finalize"}}
  /\ data.len = Payload + 16

-----------------------------------------------------------------------------
(* The stream account *)

STREAM_STATE_LEN == 277
VERSION_OFFSET   == 8
TOTAL_OFFSET     == 233
CHUNK_OFFSET     == 241
SENT_OFFSET      == 249
ACTIVE_OFFSET    == 265
SCHEDULED_OFFSET == 268

write_bool(b) == IF b THEN 1 ELSE 0

\* Addresses, interval, bumps and task id do not change and are left out.
pack(st) ==
  [ len   |-> STREAM_STATE_LEN,
    cells |->
      { <<0, 8, "USDCSTRM">>,
        <<VERSION_OFFSET, 1, 1>>,
        <<TOTAL_OFFSET, 8, st.total_amount>>,
        <<CHUNK_OFFSET, 8, st.chunk_amount>>,
        <<SENT_OFFSET, 8, st.sent_amount>>,
        <<ACTIVE_OFFSET, 1, write_bool(st.active)>>,
        <<SCHEDULED_OFFSET, 1, write_bool(st.scheduled)>> } ]

\* unpack does not reject the data.
CanUnpack(data) ==
  /\ data.len = STREAM_STATE_LEN
  /\ Read(data, 0, 8) = "USDCSTRM"
  /\ Read(data, VERSION_OFFSET, 1) = 1
  /\ Read(data, ACTIVE_OFFSET, 1) \in {0, 1}
  /\ Read(data, SCHEDULED_OFFSET, 1) \in {0, 1}

unpack(data) ==
  [ total_amount |-> Read(data, TOTAL_OFFSET, 8),
    chunk_amount |-> Read(data, CHUNK_OFFSET, 8),
    sent_amount  |-> Read(data, SENT_OFFSET, 8),
    active       |-> Read(data, ACTIVE_OFFSET, 1) = 1,
    scheduled    |-> Read(data, SCHEDULED_OFFSET, 1) = 1 ]
=============================================================================
