------------------------------ MODULE MagicState ------------------------------
(***************************************************************************)
(* The stream account of the MagicBlock program and its arithmetic.        *)
(*                                                                         *)
(* Source: magicblock/program/src/state/mod.rs.  Unlike the native         *)
(* account it is stored and loaded without any validation of the amounts.  *)
(* The addresses and the task id do not change after initialize and are    *)
(* left out, and so is interval_ms: initialize has already bounded it by   *)
(* i64::MAX, so schedule's conversion of it cannot fail.                   *)
(***************************************************************************)
EXTENDS Integers

CONSTANTS U64Max, I64Max

ASSUME WidthAssumption ==
  /\ U64Max \in Nat
  /\ I64Max \in Nat
  /\ I64Max <= U64Max

U64 == 0..U64Max

\* The None of a checked operation.  Every good result is at least 0.
Err == -1

Lesser(a, b) == IF a <= b THEN a ELSE b

StreamState ==
  [ total_amount : U64,
    chunk_amount : U64,
    sent_amount  : U64,
    active       : BOOLEAN,
    scheduled    : BOOLEAN ]

\* No account.
NoState ==
  [ total_amount |-> 0, chunk_amount |-> 0, sent_amount |-> 0,
    active |-> FALSE, scheduled |-> FALSE ]

\* Amount not yet authorized by successful crank iterations.
remaining(st) ==
  IF st.sent_amount <= st.total_amount
    THEN st.total_amount - st.sent_amount
    ELSE Err

\* (Mutated form: the division is not rounded up.)
remaining_iterations_Floor(st) ==
  IF remaining(st) = Err \/ st.chunk_amount = 0
    THEN Err
    ELSE remaining(st) \div st.chunk_amount

\* Number of crank calls still needed.  The sum under the division is checked,
\* so it may fail although the quotient would fit.
remaining_iterations(st) ==
  IF \/ remaining(st) = Err
     \/ st.chunk_amount = 0
     \/ remaining(st) + (st.chunk_amount - 1) > U64Max
    THEN Err
    ELSE (remaining(st) + (st.chunk_amount - 1)) \div st.chunk_amount

\* (Mutated form: the last call is not smaller.)
next_amount_Whole(st) == st.chunk_amount

\* The amount of one crank call.
next_amount(st) == Lesser(remaining(st), st.chunk_amount)

\* (Mutated form: no last call if the chunks are all whole.)
final_chunk_Remainder(st) == st.total_amount % st.chunk_amount

\* The amount of the last call, as finalize computes it.
final_chunk(st) ==
  IF st.total_amount % st.chunk_amount = 0
    THEN st.chunk_amount
    ELSE st.total_amount % st.chunk_amount
=============================================================================
