----------------------------- MODULE BytesProofs -----------------------------
(***************************************************************************)
(* What Read returns.  The proofs about both programs' byte layouts rest   *)
(* on this alone.                                                          *)
(***************************************************************************)
EXTENDS Bytes, TLAPS

\* Value v is the only one in the buffer at offset o with width w.
Written(buf, o, w, v) == {c \in buf.cells : c[1] = o /\ c[2] = w} = {<<o, w, v>>}

\* It is the one that is read there.
LEMMA ReadBack ==
  ASSUME NEW buf, NEW o, NEW w, NEW v, Written(buf, o, w, v)
  PROVE  Read(buf, o, w) = v
<1> DEFINE hits == {c \in buf.cells : c[1] = o /\ c[2] = w}
<1>1. hits = {<<o, w, v>>}
  BY DEF Written
<1> DEFINE hit == CHOOSE c \in hits : TRUE
<1>2. hits # {} /\ hit = <<o, w, v>>
  BY <1>1
<1>3. Read(buf, o, w) = hit[3]
  BY <1>2 DEF Read
<1> HIDE DEF hit
<1>4. QED
  BY <1>2, <1>3
=============================================================================
