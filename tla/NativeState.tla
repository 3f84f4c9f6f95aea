----------------------------- MODULE NativeState -----------------------------
(***************************************************************************)
(* The stream account of the native program: its checked arithmetic and    *)
(* the invariants that every load (unpack) and every store (pack)          *)
(* re-validates.                                                           *)
(*                                                                         *)
(* Source: native/program/src/state/mod.rs.  The byte layout is left out:  *)
(* a decoded account is a record with the source's field names.  u64 and   *)
(* i64 keep a largest value each, U64Max and I64Max, so that a small       *)
(* instance overflows as the real widths do.                               *)
(***************************************************************************)
EXTENDS Integers

CONSTANTS U64Max, I64Max

ASSUME WidthAssumption ==
  /\ U64Max \in Nat
  /\ I64Max \in Nat
  /\ 0 < I64Max
  /\ I64Max <= U64Max

U64 == 0..U64Max
I64 == (-I64Max - 1)..I64Max

\* The None (or Err) of a checked operation.  Every good result is at least 0.
Err == -1

Lesser(a, b) == IF a <= b THEN a ELSE b

checked_add(a, b) == IF a + b <= U64Max THEN a + b ELSE Err

checked_sub(a, b) == IF b <= a THEN a - b ELSE Err

\* Overflow-safe ceiling division.
ceil_div(value, divisor) ==
  IF divisor = 0
    THEN Err
    ELSE checked_add(value \div divisor, IF value % divisor = 0 THEN 0 ELSE 1)

\* (Mutated form: the sum is not checked.)
next_release_timestamp_Unchecked(start, executed, interval) ==
  IF start < 0 \/ interval < 0 \/ executed > I64Max
    THEN Err
    ELSE start + executed * interval

\* Due time of chunk number `executed', derived from the original start.  The
\* last test covers both checked_mul and checked_add: start is not negative,
\* so the sum fits only if the product does.
next_release_timestamp(start, executed, interval) ==
  IF \/ start < 0
     \/ interval < 0
     \/ executed > I64Max
     \/ start + executed * interval > I64Max
    THEN Err
    ELSE start + executed * interval

-----------------------------------------------------------------------------

StreamStatus == {"Uninitialized", "Active", "Completed"}

\* The fields of Stream that the properties tell apart.  `route' stands for
\* recipient_token_account, the token account that initialize binds.
Stream(Accounts) ==
  [ status                 : StreamStatus,
    route                  : Accounts,
    total_amount           : U64,
    chunk_amount           : U64,
    sent_amount            : U64,
    executed_chunks        : U64,
    max_chunks             : U64,
    created_at             : I64,
    start_timestamp        : I64,
    next_release_timestamp : I64,
    interval_seconds       : I64 ]

\* Amount not yet released.
remaining(st) == checked_sub(st.total_amount, st.sent_amount)

\* The next chunk: min(remaining, chunk_amount).
next_amount(st) == Lesser(remaining(st), st.chunk_amount)

\* What sent_amount must be for the number of executed chunks.
ExpectedSent(st) ==
  IF st.executed_chunks = st.max_chunks
    THEN st.total_amount
    ELSE st.executed_chunks * st.chunk_amount

AmountsValid(st) ==
  /\ st.total_amount # 0
  /\ st.chunk_amount # 0
  /\ st.max_chunks = ceil_div(st.total_amount, st.chunk_amount)
  /\ st.sent_amount <= st.total_amount
  /\ st.executed_chunks <= st.max_chunks
  /\ ExpectedSent(st) <= U64Max
  /\ st.sent_amount = ExpectedSent(st)

StatusValid(st) ==
  \/ /\ st.status = "Active"
     /\ st.sent_amount < st.total_amount
     /\ st.executed_chunks < st.max_chunks
  \/ /\ st.status = "Completed"
     /\ st.sent_amount = st.total_amount
     /\ st.executed_chunks = st.max_chunks

\* (Mutated form: a stream may not start at once.)
TimesValid_Later(st) ==
  /\ 0 <= st.created_at
  /\ st.created_at < st.start_timestamp
  /\ 0 <= st.interval_seconds
  /\ st.next_release_timestamp # Err
  /\ st.next_release_timestamp
       = next_release_timestamp(st.start_timestamp, st.executed_chunks,
                                st.interval_seconds)

TimesValid(st) ==
  /\ 0 <= st.created_at
  /\ st.created_at <= st.start_timestamp
  /\ 0 <= st.interval_seconds
  /\ st.next_release_timestamp # Err
  /\ st.next_release_timestamp
       = next_release_timestamp(st.start_timestamp, st.executed_chunks,
                                st.interval_seconds)

\* Run by unpack on every load and by pack on every store.
validate_invariants(st) ==
  /\ AmountsValid(st)
  /\ StatusValid(st)
  /\ TimesValid(st)
=============================================================================
