------------------------- MODULE PaymentStreamProofs --------------------------
(***************************************************************************)
(* What the promise of PaymentStream amounts to, for whatever implements   *)
(* it: a deal is never overpaid, and is at a whole number of chunks until  *)
(* it is paid in full.                                                     *)
(***************************************************************************)
EXTENDS PaymentStream, TLAPS

\* A deal is paid in whole chunks, or in full.
FullChunks(d) ==
  /\ d.paid <= d.total
  /\ d.paid = d.total \/ d.paid % d.chunk = 0

InFullChunks == \A s \in Streams : FullChunks(deal[s])

Deals == {NoDeal} \cup [total : Nat \ {0}, chunk : Nat \ {0}, paid : Nat]

\* One more payment leaves a deal at whole chunks, or pays the rest.
LEMMA PaymentFull ==
  ASSUME NEW d \in Deals, FullChunks(d), d.paid < d.total
  PROVE  LET e == [d EXCEPT !.paid = @ + Due(d)]
         IN  e \in Deals /\ FullChunks(e)
<1> DEFINE c == d.chunk
           p == d.paid
           t == d.total
           e == [d EXCEPT !.paid = @ + Due(d)]
<1>1. d \in [total : Nat \ {0}, chunk : Nat \ {0}, paid : Nat]
  BY DEF Deals, NoDeal
<1>2. t \in Nat /\ c \in Nat /\ c > 0 /\ p \in Nat /\ p < t /\ p % c = 0
  BY <1>1 DEF FullChunks
<1>3. Due(d) \in Nat /\ Due(d) = IF t - p <= c THEN t - p ELSE c
  BY <1>2 DEF Due
<1>4. e \in Deals /\ e.total = t /\ e.chunk = c /\ e.paid = p + Due(d)
  BY <1>1, <1>3 DEF Deals
<1> HIDE DEF e, c, p, t
<1>5. (p + c) % c = 0
  <2> DEFINE k == p \div c
  <2>1. k \in Nat /\ p = c * k
    BY <1>2
  <2> HIDE DEF k
  <2>2. p + c = c * (k + 1)
    BY <1>2, <2>1
  <2>3. QED
    BY <1>2, <2>1, <2>2
<1>6. FullChunks(e)
  BY <1>2, <1>3, <1>4, <1>5 DEF FullChunks
<1>7. QED
  BY <1>4, <1>6 DEF e

\* No deal is overpaid, and none is left between two chunks.
THEOREM PaidInFullChunks ==
  ASSUME Amounts \subseteq Nat \ {0}
  PROVE  Spec => []InFullChunks
<1> DEFINE Typed == deal \in [Streams -> Deals]
<1>1. NoDeal \in Deals /\ FullChunks(NoDeal)
  BY DEF NoDeal, Deals, FullChunks
<1>2. Init => Typed /\ InFullChunks
  BY <1>1 DEF Init, InFullChunks
<1>3. Typed /\ InFullChunks /\ [Next]_deal => Typed' /\ InFullChunks'
  <2> SUFFICES ASSUME Typed, InFullChunks, Next PROVE Typed' /\ InFullChunks'
    BY DEF InFullChunks
  <2>1. PICK s \in Streams : Fund(s) \/ Pay(s) \/ PayAndRetire(s)
    BY DEF Next
  <2>2. ASSUME NEW d \in Deals, FullChunks(d), deal' = [deal EXCEPT ![s] = d]
        PROVE  Typed' /\ InFullChunks'
    BY <2>1, <2>2 DEF InFullChunks
  <2>3. ASSUME NEW t \in Amounts, NEW c \in Amounts
        PROVE  LET d == [total |-> t, chunk |-> c, paid |-> 0]
               IN  d \in Deals /\ FullChunks(d)
    BY <2>3 DEF Deals, FullChunks
  <2>4. CASE Fund(s)
    BY <2>2, <2>3, <2>4 DEF Fund
  <2>5. CASE Pay(s)
    <3> DEFINE d == [deal[s] EXCEPT !.paid = @ + Due(deal[s])]
    <3>1. deal[s] \in Deals /\ FullChunks(deal[s]) /\ deal[s].paid < deal[s].total
      BY <2>1, <2>5 DEF Pay, InFullChunks
    <3>2. d \in Deals /\ FullChunks(d)
      BY <3>1, PaymentFull
    <3>3. deal' = [deal EXCEPT ![s] = d]
      BY <2>5 DEF Pay
    <3>4. QED
      BY <2>2, <3>2, <3>3
  <2>6. CASE PayAndRetire(s)
    BY <1>1, <2>2, <2>6 DEF PayAndRetire
  <2>7. QED
    BY <2>1, <2>4, <2>5, <2>6
<1>4. QED
  BY <1>2, <1>3, PTL DEF Spec
=============================================================================
