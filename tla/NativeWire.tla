----------------------------- MODULE NativeWire ------------------------------
(***************************************************************************)
(* The byte layouts that the native client and the native program share:   *)
(* instruction data, written by one and read by the other, and the stream  *)
(* account, which the client reads at fixed offsets.                       *)
(*                                                                         *)
(* Source: native/client/wire.ts and index.ts on one side; lib.rs,         *)
(* instructions/mod.rs, the payloads of initialize.rs and release.rs, and  *)
(* the offsets, pack and unpack of state/mod.rs on the other.              *)
(***************************************************************************)
EXTENDS NativeState, Bytes

-----------------------------------------------------------------------------
(* Instruction data, as the client writes it *)

\* The one stream_id that the client uses, and a bump that gives an address.
StreamId == 1
Bump == 255

Tagged(tag) == Put(Empty, 1, tag)

\* Start 0 and interval 0: every chunk is due at once.
initializeData(total, chunk, bump) ==
  LET head    == Put(Tagged(0), 8, StreamId)
      amounts == Put(Put(head, 8, total), 8, chunk)
      times   == Put(Put(amounts, 8, 0), 8, 0)
  IN  Put(times, 1, bump)

releaseData(index) == Put(Tagged(1), 8, index)

-----------------------------------------------------------------------------
(* Instruction data, as the program reads it *)

\* The payload follows the one-byte tag.
Payload == 1

IsInitialize(data) == Read(data, 0, 1) = 0 /\ data.len = Payload + 41

InitializeArgs(data) ==
  [ stream_id        |-> Read(data, Payload, 8),
    total_amount     |-> Read(data, Payload + 8, 8),
    chunk_amount     |-> Read(data, Payload + 16, 8),
    start_timestamp  |-> Read(data, Payload + 24, 8),
    interval_seconds |-> Read(data, Payload + 32, 8),
    stream_bump      |-> Read(data, Payload + 40, 1) ]

IsRelease(data) == Read(data, 0, 1) = 1 /\ data.len = Payload + 8

expected_chunk_index(data) == Read(data, Payload, 8)

-----------------------------------------------------------------------------
(* The stream account *)

STREAM_STATE_LEN       == 288
VERSION_OFFSET         == 8
STATUS_OFFSET          == 9
BUMP_OFFSET            == 10
RESERVED_OFFSET        == 11
STREAM_ID_OFFSET       == 16
RECIPIENT_TOKEN_OFFSET == 184
TOTAL_OFFSET           == 216
CHUNK_OFFSET           == 224
SENT_OFFSET            == 232
EXECUTED_OFFSET        == 240
MAX_CHUNKS_OFFSET      == 248
CREATED_AT_OFFSET      == 256
START_OFFSET           == 264
NEXT_RELEASE_OFFSET    == 272
INTERVAL_OFFSET        == 280

from_u8(value) ==
  CASE value = 0 -> "Uninitialized"
    [] value = 1 -> "Active"
    [] value = 2 -> "Completed"
    [] OTHER     -> Err

StatusByte(status) == CHOOSE value \in 0..2 : from_u8(value) = status

\* The addresses of sender, recipient, mint, source and vault, 32 bytes each
\* from offset 24, do not change after initialize and are left out.
pack(st) ==
  [ len   |-> STREAM_STATE_LEN,
    cells |->
      { <<0, 8, "NUSDCSTR">>,
        <<VERSION_OFFSET, 1, 1>>,
        <<STATUS_OFFSET, 1, StatusByte(st.status)>>,
        <<BUMP_OFFSET, 1, Bump>>,
        <<RESERVED_OFFSET, 5, 0>>,
        <<STREAM_ID_OFFSET, 8, StreamId>>,
        <<RECIPIENT_TOKEN_OFFSET, 32, st.route>>,
        <<TOTAL_OFFSET, 8, st.total_amount>>,
        <<CHUNK_OFFSET, 8, st.chunk_amount>>,
        <<SENT_OFFSET, 8, st.sent_amount>>,
        <<EXECUTED_OFFSET, 8, st.executed_chunks>>,
        <<MAX_CHUNKS_OFFSET, 8, st.max_chunks>>,
        <<CREATED_AT_OFFSET, 8, st.created_at>>,
        <<START_OFFSET, 8, st.start_timestamp>>,
        <<NEXT_RELEASE_OFFSET, 8, st.next_release_timestamp>>,
        <<INTERVAL_OFFSET, 8, st.interval_seconds>> } ]

\* The header that unpack requires before it reads the fields.
HeaderValid(data) ==
  /\ data.len = STREAM_STATE_LEN
  /\ Read(data, 0, 8) = "NUSDCSTR"
  /\ Read(data, VERSION_OFFSET, 1) = 1
  /\ Read(data, RESERVED_OFFSET, 5) = 0

unpack(data) ==
  [ status                 |-> from_u8(Read(data, STATUS_OFFSET, 1)),
    route                  |-> Read(data, RECIPIENT_TOKEN_OFFSET, 32),
    total_amount           |-> Read(data, TOTAL_OFFSET, 8),
    chunk_amount           |-> Read(data, CHUNK_OFFSET, 8),
    sent_amount            |-> Read(data, SENT_OFFSET, 8),
    executed_chunks        |-> Read(data, EXECUTED_OFFSET, 8),
    max_chunks             |-> Read(data, MAX_CHUNKS_OFFSET, 8),
    created_at             |-> Read(data, CREATED_AT_OFFSET, 8),
    start_timestamp        |-> Read(data, START_OFFSET, 8),
    next_release_timestamp |-> Read(data, NEXT_RELEASE_OFFSET, 8),
    interval_seconds       |-> Read(data, INTERVAL_OFFSET, 8) ]

-----------------------------------------------------------------------------
(* The stream account, as the client reads it *)

IsActive(data) == Read(data, 9, 1) = 1

\* (Mutated form: max_chunks is taken for executed_chunks.)
ChunkIndex_Max(data) == Read(data, 248, 8)

\* executed_chunks
ChunkIndex(data) == Read(data, 240, 8)

\* max_chunks
ChunkCount(data) == Read(data, 248, 8)
=============================================================================
