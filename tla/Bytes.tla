-------------------------------- MODULE Bytes --------------------------------
(***************************************************************************)
(* Buffers of encoded values, for the byte layouts that clients and        *)
(* programs share.                                                         *)
(*                                                                         *)
(* A buffer is a length and a set of cells <<offset, width, value>>, one   *)
(* for each encoded value.  Reading finds a value only at the offset and   *)
(* width at which it was written; whatever else a misplaced read would     *)
(* give is Misread.                                                        *)
(***************************************************************************)
EXTENDS Integers

Misread == -1

Empty == [len |-> 0, cells |-> {}]

\* Buffer.concat with one more encoded value.
Put(buf, width, value) ==
  [ len   |-> buf.len + width,
    cells |-> buf.cells \cup {<<buf.len, width, value>>} ]

\* read_u64, read_i64, readBigUInt64LE (width 8) and indexing (width 1).
Read(buf, offset, width) ==
  LET hits == {c \in buf.cells : c[1] = offset /\ c[2] = width}
  IN  IF hits = {} THEN Misread ELSE (CHOOSE c \in hits : TRUE)[3]
=============================================================================
