--------------------------- MODULE MagicSerialProofs ---------------------------
(***************************************************************************)
(* Theorems about MagicStream when the committor finishes one intent       *)
(* before it commits the next: then the exact checks of settle_chunk and   *)
(* finalize never strand a stream.  The invariant SInv follows an amount   *)
(* on its way from the rollup to the recipient: it is Covered if it is     *)
(* paid, or committed, or in the queue before whatever builds upon it.     *)
(* If the crank executes every iteration once, too, there is always        *)
(* something left to do for a scheduled stream, and ever less of it.       *)
(***************************************************************************)
EXTENDS MagicStreamProofs, FiniteSetTheorems

-----------------------------------------------------------------------------
(* Arithmetic *)

\* Of two multiples, the greater is at least a whole chunk greater.
LEMMA NextMultiple ==
  ASSUME NEW c \in Nat, c > 0, NEW x \in Nat, NEW y \in Nat,
         x % c = 0, y % c = 0, y < x
  PROVE  y + c <= x
<1> DEFINE m == x \div c
           k == y \div c
           d == m - (k + 1)
<1>1. m \in Nat /\ k \in Nat /\ x = c * m /\ y = c * k
  OBVIOUS
<1> HIDE DEF m, k
<1>2. k < m
  <2> SUFFICES ASSUME m <= k PROVE FALSE
    BY <1>1
  <2>1. (k - m) \in Nat /\ c * (k - m) \in Nat /\ c * k = c * m + c * (k - m)
    BY <1>1
  <2>2. QED
    BY <1>1, <2>1
<1>3. d \in Nat /\ c * d \in Nat /\ c * m = c * k + c + c * d
  BY <1>1, <1>2
<1>4. QED
  BY <1>1, <1>3

\* The sum of two multiples, and the last chunk after a multiple.
LEMMA AfterMultiple ==
  ASSUME NEW c \in Nat, c > 0, NEW y \in Nat, y % c = 0
  PROVE  /\ (y + c) % c = 0
         /\ \A r \in 1..c : (y + r) % c = IF r = c THEN 0 ELSE r
<1> DEFINE k == y \div c
<1>1. k \in Nat /\ y = c * k
  OBVIOUS
<1> HIDE DEF k
<1>2. y + c = c * (k + 1) /\ (y + c) % c = 0
  BY <1>1
<1>3. ASSUME NEW r \in 1..c, r # c PROVE (y + r) % c = r
  BY <1>1, <1>3
<1>4. QED
  BY <1>2, <1>3

-----------------------------------------------------------------------------
(* The invariant *)

\* What the theorem is about: the committor finishes one intent at a time and
\* loses no action, nobody else touches the two token accounts, and if actions
\* may be called twice, the sender cannot pay for a third stream.
OneAtATime ==
  /\ Serial
  /\ Gifts = {}
  /\ ~ DestinationCloses
  /\ "lost action" \notin Faults
  /\ "repeated action" \in Faults => \A t, u, v \in Totals \ {0} : t + u + v > Purse

\* What the recipient has been paid.
Paid == base.total_amount - escrow

\* An account is at a whole number of chunks, unless it is at the end.
Whole(st) == st.sent_amount = st.total_amount \/ st.sent_amount % st.chunk_amount = 0

\* The action that goes with an account as release left it, and the amount at
\* which release found it.
ActionAt(st) ==
  [ kind          |-> IF st.active THEN "settle" ELSE "finalize",
    amount        |-> IF st.active THEN st.chunk_amount ELSE final_chunk(st),
    expected_sent |-> st.sent_amount ]

Before(st) == st.sent_amount - ActionAt(st).amount

\* Amount x is paid when the action that is pending and the first n intents are
\* through.
Covered(x, n) ==
  \/ x <= Paid
  \/ base.active /\ x <= base.sent_amount
  \/ \E j \in 1..n : x <= intents[j].data.sent_amount

\* Both token accounts are there, the escrow has what is not paid, whole chunks
\* were paid, and there is a transfer for each.
FundsWhole ==
  owner # "none" =>
    /\ open = {"escrow", "destination"}
    /\ 0 < escrow
    /\ escrow <= base.total_amount
    /\ Paid % base.chunk_amount = 0
    /\ \A e \in U64 : 0 < e /\ e <= Paid /\ e % base.chunk_amount = 0 => transfers[e] # 0

\* Every intent, and whatever the rollup will authorize next, builds upon an
\* amount that is through before.
QueueCovered ==
  owner = "dlp" =>
    /\ \A i \in 1..Len(intents) :
         /\ Whole(intents[i].data)
         /\ intents[i].action = ActionAt(intents[i].data)
         /\ intents[i].committed => intents[i].action.kind = "finalize"
         /\ 0 <= Before(intents[i].data)
         /\ Covered(Before(intents[i].data), i - 1)
    /\ er # NoState => Whole(er) /\ Covered(er.sent_amount, Len(intents))

\* What is committed is paid once no action is pending; the last chunk is not
\* before the account is undelegated, and until then nothing follows it.
BaseSettled ==
  owner # "none" =>
    /\ Whole(base)
    /\ base.active /\ actions = {} => base.sent_amount <= Paid
    /\ ~ base.active /\ owner = "dlp" =>
          /\ actions = {}
          /\ IF intents = << >> THEN er = NoState ELSE intents[1].committed

\* The action that is pending is that of the committed account.  One that a
\* repetition of another stream's has overtaken stays when the account is closed.
ActionsTrue ==
  \A a \in actions :
    IF owner = "none"
      THEN transfers[a.expected_sent] = 1
      ELSE /\ base.active <=> owner = "dlp"
           /\ a = ActionAt(base)
           /\ 0 <= Before(base)
           /\ Before(base) <= Paid

\* The sender has paid for the stream, for one before it if there was a final
\* action, and for two if one was overtaken.
StreamsCounted ==
  /\ purse <= Purse
  /\ owner # "none" =>
       base.total_amount \in Totals \ {0} /\ base.total_amount <= Purse - purse
  /\ (\E a \in delivered : a.kind = "finalize") =>
       \E t \in Totals \ {0} :
          t + (IF owner = "none" THEN 0 ELSE base.total_amount) <= Purse - purse
  /\ owner = "none" /\ actions # {} =>
       /\ "repeated action" \in Faults
       /\ \E t, u \in Totals \ {0} : t + u <= Purse - purse

SInv == FundsWhole /\ QueueCovered /\ BaseSettled /\ ActionsTrue /\ StreamsCounted

\* What is known before a step: the invariants of the chains, with nothing that
\* others paid into the escrow.
Known == MInv /\ QueueSound /\ gifts = 0 /\ SInv

\* Numbers of the base layer while it has an account.
LEMMA SerialFields ==
  ASSUME Known, owner # "none"
  PROVE  /\ base \in StreamState
         /\ base.total_amount \in Nat /\ base.chunk_amount \in Nat /\ base.sent_amount \in Nat
         /\ 0 < base.chunk_amount /\ base.sent_amount <= base.total_amount
         /\ base.active <=> base.sent_amount < base.total_amount
         /\ base.active \in BOOLEAN /\ owner \in {"program", "dlp"}
         /\ base.sent_amount \in U64
         /\ escrow \in Nat /\ 0 < escrow /\ Paid \in Nat /\ Paid < base.total_amount
         /\ escrow = base.total_amount - Paid
         /\ Paid % base.chunk_amount = 0
         /\ transfers \in [U64 -> Nat]
<1>1. MInv /\ FundsWhole
  BY DEF Known, SInv
<1>2. base \in StreamState /\ base.sent_amount \in U64 /\ escrow \in Nat
      /\ owner \in {"program", "dlp"} /\ transfers \in [U64 -> Nat]
  BY <1>1, WidthAssumption DEF MInv, MTyped, Owners, U64, StreamState
<1>3. /\ 0 < base.chunk_amount /\ base.sent_amount <= base.total_amount
      /\ base.active <=> base.sent_amount < base.total_amount
  BY <1>1 DEF MInv, BaseLinked, Linked
<1>4. 0 < escrow /\ escrow <= base.total_amount /\ Paid % base.chunk_amount = 0
  BY <1>1 DEF FundsWhole
<1>5. QED
  BY <1>2, <1>3, <1>4, StateFields DEF Paid

\* An intent of the queue.
LEMMA IntentFacts ==
  ASSUME Known, owner = "dlp", NEW i \in 1..Len(intents)
  PROVE  LET st == intents[i].data
         IN  /\ st \in StreamState /\ st.sent_amount \in Nat
             /\ st.total_amount = base.total_amount /\ st.chunk_amount = base.chunk_amount
             /\ st.sent_amount <= base.total_amount
             /\ st.active <=> st.sent_amount < base.total_amount
             /\ Before(st) \in Nat /\ ActionAt(st).amount \in Nat
<1>1. intents \in Seq(LinkedIntents(base, authorized))
  BY DEF Known, MInv, RollupLinked
<1>2. intents[i] \in LinkedIntents(base, authorized)
  BY <1>1
<1> DEFINE st == intents[i].data
<1>3. /\ st \in StreamState
      /\ st.total_amount = base.total_amount /\ st.chunk_amount = base.chunk_amount
      /\ st.sent_amount <= base.total_amount
      /\ st.active <=> st.sent_amount < base.total_amount
  BY <1>2 DEF LinkedIntents, Intent, Linked
<1>4. ActionAt(st).amount \in Nat
  BY <1>3, SerialFields, StateFields, FinalChunkFacts DEF ActionAt
<1>5. 0 <= Before(st)
  BY DEF Known, SInv, QueueCovered
<1>6. QED
  BY <1>3, <1>4, <1>5, StateFields DEF Before

-----------------------------------------------------------------------------
(* What the invariant gives: a pending action pays *)

\* The pending action of a committed chunk finds exactly the balance it asks for,
\* or its chunk was paid by a repetition; the final one finds what is left.
LEMMA PendingPays ==
  ASSUME Known, owner # "none", NEW a \in actions
  PROVE  /\ base.active <=> owner = "dlp"
         /\ a = ActionAt(base)
         /\ owner = "dlp" => CanSettle(a) \/ /\ a.expected_sent <= Paid
                                             /\ transfers[a.expected_sent] # 0
         /\ owner = "program" => CanFinalize(a)
<1> DEFINE c == base.chunk_amount
           s == base.sent_amount
           t == base.total_amount
           f == final_chunk(base)
<1>1. /\ base.active <=> owner = "dlp"
      /\ a = ActionAt(base) /\ 0 <= Before(base) /\ Before(base) <= Paid
  BY DEF Known, SInv, ActionsTrue
<1>2. /\ t \in Nat /\ c \in Nat /\ c > 0 /\ s \in Nat /\ s <= t /\ s \in U64
      /\ base.active <=> s < t
      /\ Paid \in Nat /\ Paid < t /\ escrow = t - Paid /\ Paid % c = 0
      /\ base \in StreamState
  BY SerialFields
<1>3. /\ Whole(base) /\ TokenAccountsOpen
      /\ \A e \in U64 : 0 < e /\ e <= Paid /\ e % c = 0 => transfers[e] # 0
  BY DEF Known, SInv, FundsWhole, BaseSettled, TokenAccountsOpen
<1>4. CASE owner = "dlp"
  <2>1. /\ a.kind = "settle" /\ a.amount = c /\ a.expected_sent = s
        /\ Before(base) = s - c
    BY <1>1, <1>4 DEF ActionAt, Before
  <2>2. s < t /\ s % c = 0 /\ c <= s /\ s - c <= Paid
    BY <1>1, <1>2, <1>3, <1>4, <2>1 DEF Whole
  <2>3. CASE s <= Paid
    BY <1>1, <1>2, <1>3, <1>4, <2>1, <2>2, <2>3
  <2>4. CASE Paid < s
    <3>1. Paid + c <= s
      BY <1>2, <2>2, <2>4, NextMultiple
    <3>2. escrow = t - (s - c)
      BY <1>2, <2>2, <3>1
    <3>3. CanSettle(a)
      <4>1. Affords(a)
        BY <1>2, <2>1, <2>2, <3>2 DEF Affords
      <4>2. QED
        BY <1>1, <1>3, <1>4, <2>1, <2>2, <3>2, <4>1
           DEF CanSettle, Settles, EscrowBefore
    <3>4. QED
      BY <1>1, <1>4, <3>3
  <2>5. QED
    BY <1>2, <2>3, <2>4
<1>5. CASE owner = "program"
  <2>1. /\ a.kind = "finalize" /\ a.amount = f /\ a.expected_sent = s
        /\ Before(base) = s - f
    BY <1>1, <1>5 DEF ActionAt, Before
  <2>2. s = t /\ ~ base.active
    BY <1>1, <1>2, <1>5
  <2>3. f \in Nat /\ f <= c
    BY <1>2, FinalChunkFacts
  <2>4. escrow \in 1..c /\ Paid + escrow = t
    BY <1>1, <1>2, <2>1, <2>2, <2>3
  <2>5. t % c = IF escrow = c THEN 0 ELSE escrow
    <3>1. \A r \in 1..c : (Paid + r) % c = IF r = c THEN 0 ELSE r
      BY <1>2, AfterMultiple
    <3>2. QED
      BY <2>4, <3>1
  <2>6. escrow = f
    BY <1>2, <2>4, <2>5 DEF final_chunk
  <2>7. CanFinalize(a)
    <3>1. Emptied(a)
      BY <2>1, <2>3, <2>6 DEF Emptied
    <3>2. QED
      BY <1>3, <1>5, <2>1, <2>2, <2>6, <3>1 DEF CanFinalize, Finalizes
  <2>8. QED
    BY <1>1, <1>5, <2>7
<1>6. QED
  BY <1>4, <1>5, SerialFields

\* So no check strands the stream.
LEMMA SerialPays ==
  ASSUME Known, ActionTransfersOnce
  PROVE  DeliveredActionPays
<1> SUFFICES ASSUME NEW a \in actions
             PROVE  CanSettle(a) \/ CanFinalize(a) \/ transfers[a.expected_sent] = 1
  BY DEF DeliveredActionPays
<1>1. a.expected_sent \in U64 /\ transfers \in [U64 -> Nat]
  BY DEF Known, MInv, MTyped, Action
<1>2. transfers[a.expected_sent] # 0 => transfers[a.expected_sent] = 1
  BY <1>1 DEF Known, ActionTransfersOnce
<1>3. CASE owner = "none"
  BY <1>3 DEF Known, SInv, ActionsTrue
<1>4. CASE owner # "none"
  BY <1>2, <1>4, PendingPays, SerialFields
<1>5. QED
  BY <1>3, <1>4

-----------------------------------------------------------------------------
(* Every step preserves the invariant *)

\* Coverage is not lost when more is paid and intents are only added.
LEMMA CoveredKept ==
  ASSUME Known, owner = "dlp", base' = base, escrow' \in Nat, escrow' <= escrow,
         NEW n \in Nat, n <= Len(intents),
         \A j \in 1..n : intents'[j] = intents[j],
         NEW x \in Int, Covered(x, n)
  PROVE  Covered(x, n)'
<1>1. Paid \in Int /\ Paid' \in Int /\ Paid <= Paid'
  <2>1. base.total_amount \in Nat /\ escrow \in Nat
    BY SerialFields
  <2>2. QED
    BY <2>1 DEF Paid
<1>2. CASE x <= Paid
  BY <1>1, <1>2 DEF Covered
<1>3. CASE base.active /\ x <= base.sent_amount
  BY <1>3 DEF Covered
<1>4. CASE \E j \in 1..n : x <= intents[j].data.sent_amount
  BY <1>4 DEF Covered
<1>5. QED
  BY <1>2, <1>3, <1>4 DEF Covered

\* The queue and the rollup's copy, when only the escrow changes.
LEMMA QueueKept ==
  ASSUME Known, owner = "dlp", base' = base, escrow' \in Nat, escrow' <= escrow,
         UNCHANGED <<intents, er>>
  PROVE  QueueCovered'
<1>1. intents \in Seq(Intent) /\ er \in StreamState /\ Len(intents) \in Nat
  BY DEF Known, MInv, MTyped
<1>2. er.sent_amount \in Int
  BY <1>1, StateFields
<1>3. ASSUME NEW i \in 1..Len(intents)
      PROVE  /\ Whole(intents[i].data)
             /\ intents[i].action = ActionAt(intents[i].data)
             /\ intents[i].committed => intents[i].action.kind = "finalize"
             /\ 0 <= Before(intents[i].data)
             /\ Covered(Before(intents[i].data), i - 1)'
  <2>1. i - 1 \in Nat /\ i - 1 <= Len(intents)
    BY <1>1
  <2>2. Before(intents[i].data) \in Int
    BY <1>3, IntentFacts
  <2>3. Covered(Before(intents[i].data), i - 1)
    BY DEF Known, SInv, QueueCovered
  <2>4. Covered(Before(intents[i].data), i - 1)'
    BY <2>1, <2>2, <2>3, CoveredKept DEF Covered, Paid
  <2>5. QED
    BY <2>4 DEF Known, SInv, QueueCovered
<1>4. er # NoState => Whole(er) /\ Covered(er.sent_amount, Len(intents))'
  <2> SUFFICES ASSUME er # NoState PROVE Whole(er) /\ Covered(er.sent_amount, Len(intents))'
    OBVIOUS
  <2>1. Whole(er) /\ Covered(er.sent_amount, Len(intents))
    BY DEF Known, SInv, QueueCovered
  <2>2. QED
    BY <1>1, <1>2, <2>1, CoveredKept DEF Covered, Paid
<1>5. QED
  BY <1>3, <1>4 DEF QueueCovered

\* An action is called when its turn comes, or once more.
Called(a) ==
  \/ a \in actions /\ actions' = actions \ {a} /\ delivered' = delivered \cup {a}
  \/ a \in delivered /\ "repeated action" \in Faults /\ UNCHANGED <<actions, delivered>>

\* settle_chunk brings what is paid to what is committed.
LEMMA SettleKeeps ==
  ASSUME Known, NEW a \in Action, SettleChunk(a), Called(a), UNCHANGED <<intents, ervars>>
  PROVE  SInv'
<1> DEFINE c == base.chunk_amount
           t == base.total_amount
           s == a.expected_sent
<1>1. /\ owner = "dlp" /\ s \in U64 /\ s \in Nat /\ s = base.sent_amount /\ s < t
      /\ a.amount = c /\ c <= s /\ escrow = t - (s - c) /\ escrow' = t - s
      /\ transfers' = [transfers EXCEPT ![s] = @ + 1]
      /\ UNCHANGED <<owner, base, open, purse, gifts>>
  BY SettleFacts DEF Known
<1>2. s % c = 0 /\ base.active /\ a.kind = "settle"
  BY DEF SettleChunk, CanSettle, Settles
<1>3. /\ t \in Nat /\ c \in Nat /\ c > 0 /\ escrow \in Nat
      /\ Paid \in Nat /\ Paid = s - c /\ Paid % c = 0
      /\ transfers \in [U64 -> Nat]
  BY <1>1, SerialFields DEF Paid
<1>4. Paid' = s /\ escrow' \in Nat /\ 0 < escrow' /\ escrow' <= t /\ escrow' <= escrow
  BY <1>1, <1>3 DEF Paid
<1>5. FundsWhole'
  <2>1. ASSUME NEW e \in U64, 0 < e, e <= s, e % c = 0 PROVE transfers'[e] # 0
    <3>1. e \in Nat
      BY WidthAssumption DEF U64
    <3>2. CASE e <= Paid
      BY <1>1, <1>3, <2>1, <3>2 DEF Known, SInv, FundsWhole
    <3>3. CASE Paid < e
      <4>1. Paid + c <= e
        BY <1>3, <2>1, <3>1, <3>3, NextMultiple
      <4>2. e = s
        BY <1>1, <1>3, <2>1, <3>1, <4>1
      <4>3. QED
        BY <1>1, <1>3, <4>2
    <3>4. QED
      BY <1>3, <3>1, <3>2, <3>3
  <2>2. open = {"escrow", "destination"}
    BY <1>1 DEF Known, SInv, FundsWhole
  <2>3. QED
    BY <1>1, <1>2, <1>4, <2>1, <2>2 DEF FundsWhole
<1>6. QueueCovered'
  BY <1>1, <1>4, QueueKept DEF ervars
<1>7. BaseSettled'
  BY <1>1, <1>2, <1>3, <1>4 DEF Known, SInv, BaseSettled
<1>8. ActionsTrue'
  <2>1. actions' \subseteq actions
    BY DEF Called
  <2>2. ASSUME NEW b \in actions'
        PROVE  /\ base.active <=> owner = "dlp"
               /\ b = ActionAt(base) /\ 0 <= Before(base) /\ Before(base) <= Paid
    BY <1>1, <2>1 DEF Known, SInv, ActionsTrue
  <2>3. ASSUME actions' # {} PROVE Before(base) <= Paid'
    <3>1. Before(base) = s - c
      BY <1>1, <1>2 DEF Before, ActionAt
    <3>2. QED
      BY <1>1, <1>3, <1>4, <3>1
  <2>4. owner' # "none"
    BY <1>1
  <2>5. QED
    BY <1>1, <2>2, <2>3, <2>4 DEF ActionsTrue
<1>9. StreamsCounted'
  <2>1. (\E b \in delivered' : b.kind = "finalize") => \E b \in delivered : b.kind = "finalize"
    BY <1>2 DEF Called
  <2>2. QED
    BY <1>1, <2>1 DEF Known, SInv, StreamsCounted
<1>10. QED
  BY <1>5, <1>6, <1>7, <1>8, <1>9 DEF SInv

\* finalize closes the account.  The action that was pending is this one, or was
\* overtaken by a repetition of an equal one, and then this is a second stream.
LEMMA FinalizeKeeps ==
  ASSUME Known, ActionTransfersOnce', NEW a \in Action, Finalize(a), Called(a)
  PROVE  SInv'
<1>1. /\ owner = "program" /\ owner' = "none" /\ base \in StreamState
      /\ a.expected_sent \in U64 /\ a.expected_sent = base.total_amount
      /\ transfers' = [transfers EXCEPT ![a.expected_sent] = @ + 1]
      /\ UNCHANGED <<purse, gifts>>
  BY FinalizeFacts DEF Known
<1>2. base.sent_amount = base.total_amount /\ a.kind = "finalize"
  BY DEF Finalize, CanFinalize, Finalizes
<1>3. transfers \in [U64 -> Nat] /\ gifts' = 0
  BY <1>1 DEF Known, MInv, MTyped
<1>4. FundsWhole' /\ QueueCovered' /\ BaseSettled'
  BY <1>1 DEF FundsWhole, QueueCovered, BaseSettled
<1>5. ASSUME NEW b \in actions PROVE b = ActionAt(base)
  BY <1>1, <1>5 DEF Known, SInv, ActionsTrue
<1>6. ActionsTrue'
  <2>1. actions' \subseteq actions
    BY DEF Called
  <2>2. ASSUME NEW b \in actions' PROVE transfers'[b.expected_sent] = 1
    <3>1. b.expected_sent = a.expected_sent
      BY <1>1, <1>2, <1>5, <2>1 DEF ActionAt
    <3>2. transfers'[a.expected_sent] # 0
      BY <1>1, <1>3
    <3>3. transfers'[a.expected_sent] <= 1
      BY <1>1, <1>3 DEF ActionTransfersOnce
    <3>4. transfers'[a.expected_sent] \in Nat
      BY <1>1, <1>3
    <3>5. QED
      BY <3>1, <3>2, <3>3, <3>4
  <2>3. QED
    BY <1>1, <2>2 DEF ActionsTrue
<1>7. StreamsCounted'
  <2>1. base.total_amount \in Totals \ {0} /\ base.total_amount <= Purse - purse
    BY <1>1 DEF Known, SInv, StreamsCounted
  <2>2. base.total_amount + 0 <= Purse - purse
    BY <1>1, <2>1, StateFields
  <2>3. ASSUME actions' # {}
        PROVE  /\ "repeated action" \in Faults
               /\ \E t, u \in Totals \ {0} : t + u <= Purse - purse
    <3>1. CASE a \in actions /\ actions' = actions \ {a}
      BY <1>5, <2>3, <3>1
    <3>2. CASE a \in delivered /\ "repeated action" \in Faults
      <4>1. \E t \in Totals \ {0} : t + base.total_amount <= Purse - purse
        BY <1>1, <1>2, <3>2 DEF Known, SInv, StreamsCounted
      <4>2. QED
        BY <2>1, <3>2, <4>1
    <3>3. QED
      BY <3>1, <3>2 DEF Called
  <2>4. QED
    BY <1>1, <2>1, <2>2, <2>3 DEF Known, SInv, StreamsCounted
<1>8. QED
  BY <1>4, <1>6, <1>7 DEF SInv

\* A step that none of this is about.
LEMMA FrameKeeps ==
  ASSUME Known, UNCHANGED <<owner, base, escrow, open, purse, transfers>>,
         UNCHANGED <<intents, er, actions, delivered>>
  PROVE  SInv'
<1>1. FundsWhole' /\ QueueCovered'
  BY DEF Known, SInv, FundsWhole, QueueCovered, Covered, Paid
<1>2. BaseSettled' /\ ActionsTrue' /\ StreamsCounted'
  BY DEF Known, SInv, BaseSettled, ActionsTrue, StreamsCounted, Paid
<1>3. QED
  BY <1>1, <1>2 DEF SInv

\* An action that is called in vain had been paid before, or its stream is gone.
LEMMA VainKeeps ==
  ASSUME Known, NEW a \in Action, ~ CanSettle(a), ~ CanFinalize(a), Called(a),
         UNCHANGED <<intents, ervars, basevars>>
  PROVE  SInv'
<1>1. UNCHANGED <<owner, base, escrow, open, purse, transfers, intents, er>>
  BY DEF basevars, ervars
<1>2. CASE UNCHANGED <<actions, delivered>>
  BY <1>1, <1>2, FrameKeeps
<1>3. CASE a \in actions /\ actions' = actions \ {a} /\ delivered' = delivered \cup {a}
  <2>1. FundsWhole' /\ QueueCovered'
    BY <1>1 DEF Known, SInv, FundsWhole, QueueCovered, Covered, Paid
  <2>2. ActionsTrue'
    BY <1>1, <1>3 DEF Known, SInv, ActionsTrue, Paid
  <2>3. CASE owner = "none"
    <3>1. BaseSettled'
      BY <1>1, <2>3 DEF BaseSettled
    <3>2. /\ "repeated action" \in Faults
          /\ \E t, u \in Totals \ {0} : t + u <= Purse - purse
      BY <1>3, <2>3 DEF Known, SInv, StreamsCounted
    <3>3. Purse \in Nat /\ purse \in Nat /\ \A t \in Totals : t \in Nat
      BY MagicAssumption, WidthAssumption DEF Known, MInv, MTyped, U64
    <3>4. \E t \in Totals \ {0} : t + 0 <= Purse - purse
      <4>1. PICK t \in Totals \ {0}, u \in Totals \ {0} : t + u <= Purse - purse
        BY <3>2
      <4>2. t + 0 <= Purse - purse
        BY <3>3, <4>1
      <4>3. QED
        BY <4>2
    <3>5. StreamsCounted'
      BY <1>1, <1>3, <2>3, <3>2, <3>4 DEF Known, SInv, StreamsCounted
    <3>6. QED
      BY <2>1, <2>2, <3>1, <3>5 DEF SInv
  <2>4. CASE owner # "none"
    <3>1. /\ owner = "dlp" /\ base.active
          /\ a = ActionAt(base) /\ a.expected_sent <= Paid
      BY <1>3, <2>4, PendingPays, SerialFields
    <3>2. a.kind = "settle" /\ base.sent_amount <= Paid
      BY <3>1 DEF ActionAt
    <3>3. BaseSettled'
      BY <1>1, <3>1, <3>2 DEF Known, SInv, BaseSettled, Paid
    <3>4. StreamsCounted'
      BY <1>1, <1>3, <3>1, <3>2 DEF Known, SInv, StreamsCounted
    <3>5. QED
      BY <2>1, <2>2, <3>3, <3>4 DEF SInv
  <2>5. QED
    BY <2>3, <2>4
<1>4. QED
  BY <1>2, <1>3 DEF Called

LEMMA CallKeeps ==
  ASSUME Known, ActionTransfersOnce', NEW a \in Action, Call(a), Called(a),
         UNCHANGED <<intents, ervars>>
  PROVE  SInv'
BY SettleKeeps, FinalizeKeeps, VainKeeps DEF Call

\* What release makes of an account: the action is that of the account it leaves,
\* and builds upon the amount it found.
LEMMA ReleaseMakes ==
  ASSUME NEW st \in StreamState, st.sent_amount < st.total_amount, st.chunk_amount > 0,
         Whole(st)
  PROVE  /\ Whole(Authorized(st))
         /\ ActionAt(Authorized(st)) = ActionOf(st)
         /\ Before(Authorized(st)) = st.sent_amount
<1> DEFINE new == Authorized(st)
           c   == st.chunk_amount
           t   == st.total_amount
           s   == st.sent_amount
<1>1. t \in Nat /\ c \in Nat /\ c > 0 /\ s \in Nat /\ s < t /\ s % c = 0
  BY StateFields DEF Whole
<1>2. /\ new \in StreamState /\ new.total_amount = t /\ new.chunk_amount = c
      /\ new.sent_amount = s + Lesser(t - s, c)
      /\ new.active <=> new.sent_amount < t
      /\ new.active \in BOOLEAN
  BY AuthorizedFacts, StateFields
<1>3. next_amount(st) = Lesser(t - s, c)
  BY <1>1 DEF next_amount, remaining
<1>4. ActionOf(st) = [ kind          |-> IF new.active THEN "settle" ELSE "finalize",
                       amount        |-> Lesser(t - s, c),
                       expected_sent |-> new.sent_amount ]
  BY <1>3 DEF ActionOf
<1> HIDE DEF new
<1>5. CASE new.active
  <2>1. Lesser(t - s, c) = c /\ new.sent_amount = s + c
    BY <1>1, <1>2, <1>5 DEF Lesser
  <2>2. (s + c) % c = 0
    BY <1>1, AfterMultiple
  <2>3. Whole(new)
    BY <1>2, <2>1, <2>2 DEF Whole
  <2>4. ActionAt(new) = ActionOf(st)
    BY <1>2, <1>4, <1>5, <2>1 DEF ActionAt
  <2>5. ActionAt(new).amount = c
    BY <1>2, <1>5 DEF ActionAt
  <2>6. Before(new) = s
    BY <1>1, <2>1, <2>5 DEF Before
  <2>7. QED
    BY <2>3, <2>4, <2>6 DEF new
<1>6. CASE ~ new.active
  <2> DEFINE r == t - s
  <2>1. r \in 1..c /\ Lesser(t - s, c) = r /\ new.sent_amount = t /\ s + r = t
    BY <1>1, <1>2, <1>6 DEF Lesser
  <2>2. \A q \in 1..c : (s + q) % c = IF q = c THEN 0 ELSE q
    BY <1>1, AfterMultiple
  <2> HIDE DEF r
  <2>3. t % c = IF r = c THEN 0 ELSE r
    BY <2>1, <2>2
  <2>4. final_chunk(new) = r
    BY <1>1, <1>2, <2>1, <2>3 DEF final_chunk
  <2>5. Whole(new)
    BY <1>2, <2>1 DEF Whole
  <2>6. ActionAt(new) = ActionOf(st)
    BY <1>4, <1>6, <2>1, <2>4 DEF ActionAt
  <2>7. ActionAt(new).amount = r
    BY <1>6, <2>4 DEF ActionAt
  <2>8. Before(new) = s
    BY <1>1, <2>1, <2>7 DEF Before
  <2>9. QED
    BY <2>5, <2>6, <2>8 DEF new
<1>7. QED
  BY <1>2, <1>5, <1>6

\* release puts one intent behind the others, which is through when they are and
\* which the next one may build upon.
LEMMA ReleaseKeeps ==
  ASSUME Known, Release, UNCHANGED <<actions, delivered>>
  PROVE  SInv'
<1> DEFINE n   == Len(intents)
           new == Authorized(er)
           x   == [data |-> new, action |-> ActionOf(er), committed |-> FALSE]
<1>1. /\ er.scheduled /\ er.sent_amount < er.total_amount
      /\ er' = new /\ intents' = Append(intents, x)
      /\ UNCHANGED <<owner, base, escrow, open, purse, transfers>>
  BY DEF Release, Releases, basevars
<1>2. er # NoState /\ owner = "dlp" /\ Linked(er, base, authorized)
  BY <1>1, NoStateTyped DEF Known, MInv, RollupLinked
<1>3. er \in StreamState /\ er.chunk_amount > 0 /\ intents \in Seq(Intent)
      /\ er.sent_amount \in Nat
  BY <1>2, SerialFields, StateFields DEF Known, MInv, MTyped, Linked
<1>4. Whole(er) /\ Covered(er.sent_amount, n)
  BY <1>2 DEF Known, SInv, QueueCovered
<1>5. /\ Whole(new) /\ ActionAt(new) = ActionOf(er) /\ Before(new) = er.sent_amount
      /\ new \in StreamState
  BY <1>1, <1>3, <1>4, ReleaseMakes, AuthorizedFacts
<1>6. new.sent_amount \in Nat /\ new.sent_amount <= new.sent_amount
  BY <1>5, StateFields
<1> HIDE DEF new
<1>7. x.data = new /\ x.action = ActionOf(er) /\ x.committed = FALSE
  OBVIOUS
<1> HIDE DEF x
<1>8. /\ n \in Nat /\ Len(intents') = n + 1 /\ intents'[n + 1] = x
      /\ \A i \in 1..n : intents'[i] = intents[i]
  BY <1>1, <1>3
<1> HIDE DEF n
<1>9. escrow' \in Nat /\ escrow' <= escrow
  BY <1>1, <1>2, SerialFields
<1>10. ASSUME NEW y \in Int, NEW k \in Nat, k <= n, Covered(y, k) PROVE Covered(y, k)'
  <2>1. \A j \in 1..k : j \in 1..n
    BY <1>8, <1>10
  <2>2. \A j \in 1..k : intents'[j] = intents[j]
    BY <1>8, <2>1
  <2>3. QED
    BY <1>1, <1>2, <1>9, <1>10, <2>2, CoveredKept DEF n
<1>11. QueueCovered'
  <2>1. ASSUME NEW i \in 1..n
        PROVE  /\ Whole(intents'[i].data)
               /\ intents'[i].action = ActionAt(intents'[i].data)
               /\ intents'[i].committed => intents'[i].action.kind = "finalize"
               /\ 0 <= Before(intents'[i].data)
               /\ Covered(Before(intents[i].data), i - 1)'
    <3>1. i - 1 \in Nat /\ i - 1 <= n
      BY <1>8
    <3>2. Before(intents[i].data) \in Int
      BY <1>2, IntentFacts DEF n
    <3>3. /\ Whole(intents[i].data)
          /\ intents[i].action = ActionAt(intents[i].data)
          /\ intents[i].committed => intents[i].action.kind = "finalize"
          /\ 0 <= Before(intents[i].data)
          /\ Covered(Before(intents[i].data), i - 1)
      BY <1>2 DEF Known, SInv, QueueCovered, n
    <3>4. Covered(Before(intents[i].data), i - 1)'
      <4>1. PICK y \in Int : y = Before(intents[i].data)
        BY <3>2
      <4>2. Covered(y, i - 1)'
        BY <1>10, <3>1, <3>3, <4>1
      <4>3. intents'[i] = intents[i]
        BY <1>8
      <4>4. QED
        BY <4>1, <4>2, <4>3 DEF Covered
    <3>5. QED
      BY <1>8, <3>3, <3>4
  <2>2. Covered(er.sent_amount, n)
    BY <1>4
  <2>3. \/ er.sent_amount <= Paid'
        \/ base'.active /\ er.sent_amount <= base'.sent_amount
        \/ \E j \in 1..n : er.sent_amount <= intents'[j].data.sent_amount
    BY <1>1, <1>8, <2>2 DEF Covered, Paid
  <2>4. /\ Whole(x.data) /\ x.action = ActionAt(x.data) /\ ~ x.committed
        /\ Before(x.data) = er.sent_amount /\ 0 <= Before(x.data)
    BY <1>3, <1>5, <1>7
  <2>5. \E j \in 1..n + 1 : er'.sent_amount <= intents'[j].data.sent_amount
    <3>1. n + 1 \in 1..n + 1
      BY <1>8
    <3>2. er'.sent_amount <= intents'[n + 1].data.sent_amount
      BY <1>1, <1>6, <1>7, <1>8
    <3>3. QED
      BY <3>1, <3>2
  <2>6. ASSUME NEW i \in 1..Len(intents')
        PROVE  /\ Whole(intents'[i].data)
               /\ intents'[i].action = ActionAt(intents'[i].data)
               /\ intents'[i].committed => intents'[i].action.kind = "finalize"
               /\ 0 <= Before(intents'[i].data)
               /\ \/ Before(intents'[i].data) <= Paid'
                  \/ base'.active /\ Before(intents'[i].data) <= base'.sent_amount
                  \/ \E j \in 1..i - 1 :
                        Before(intents'[i].data) <= intents'[j].data.sent_amount
    <3>1. CASE i \in 1..n
      <4>1. intents'[i] = intents[i]
        BY <1>8, <3>1
      <4>2. QED
        BY <2>1, <3>1, <4>1 DEF Covered
    <3>2. CASE i = n + 1
      <4>1. intents'[i] = x /\ i - 1 = n
        BY <1>8, <3>2
      <4>2. QED
        BY <2>3, <2>4, <4>1
    <3>3. QED
      BY <1>8, <3>1, <3>2
  <2>7. QED
    BY <1>1, <1>5, <1>8, <2>5, <2>6 DEF QueueCovered, Covered
<1>12. BaseSettled'
  <2>1. ~ base.active => intents # << >> /\ intents[1].committed /\ actions = {}
    BY <1>2 DEF Known, SInv, BaseSettled
  <2>2. intents # << >> => intents'[1] = intents[1]
    BY <1>3, <1>8 DEF n
  <2>3. intents' # << >>
    BY <1>1, <1>3
  <2>4. QED
    BY <1>1, <2>1, <2>2, <2>3 DEF Known, SInv, BaseSettled, Paid
<1>13. FundsWhole' /\ ActionsTrue' /\ StreamsCounted'
  BY <1>1 DEF Known, SInv, FundsWhole, ActionsTrue, StreamsCounted, Paid
<1>14. QED
  BY <1>11, <1>12, <1>13 DEF SInv

\* What an intent that is committed next carries.  Nothing is pending then, so all
\* that the base layer knows is paid, and the intent builds upon it.
LEMMA HeadFacts ==
  ASSUME Known, owner = "dlp", intents # << >>, actions = {}
  PROVE  LET h == Head(intents)
         IN  /\ h = intents[1] /\ h.data \in StreamState
             /\ h.data.total_amount = base.total_amount
             /\ h.data.chunk_amount = base.chunk_amount
             /\ h.data.sent_amount \in Nat /\ h.data.sent_amount <= base.total_amount
             /\ h.data.active <=> h.data.sent_amount < base.total_amount
             /\ Whole(h.data) /\ h.action = ActionAt(h.data)
             /\ h.committed => h.action.kind = "finalize"
             /\ Before(h.data) \in Nat /\ 0 <= Before(h.data)
             /\ Before(h.data) <= Paid
             /\ base.active => base.sent_amount <= Paid
<1>1. intents \in Seq(Intent)
  BY DEF Known, MInv, MTyped
<1>2. 1 \in 1..Len(intents) /\ Head(intents) = intents[1]
  BY <1>1
<1>3. base.active => base.sent_amount <= Paid
  BY DEF Known, SInv, BaseSettled
<1>4. /\ Whole(intents[1].data) /\ intents[1].action = ActionAt(intents[1].data)
      /\ intents[1].committed => intents[1].action.kind = "finalize"
      /\ Covered(Before(intents[1].data), 1 - 1)
  BY <1>2 DEF Known, SInv, QueueCovered
<1>5. /\ intents[1].data \in StreamState /\ intents[1].data.sent_amount \in Nat
      /\ intents[1].data.total_amount = base.total_amount
      /\ intents[1].data.chunk_amount = base.chunk_amount
      /\ intents[1].data.sent_amount <= base.total_amount
      /\ intents[1].data.active <=> intents[1].data.sent_amount < base.total_amount
      /\ Before(intents[1].data) \in Nat
  BY <1>2, IntentFacts
<1>6. Before(intents[1].data) <= Paid
  <2>1. base.sent_amount \in Nat /\ Paid \in Nat
    BY SerialFields
  <2>2. 1..(1 - 1) = {}
    OBVIOUS
  <2>3. QED
    BY <1>3, <1>4, <1>5, <2>1, <2>2 DEF Covered
<1>7. QED
  BY <1>2, <1>3, <1>4, <1>5, <1>6

\* The chunk that is committed next is the next one to be paid, or was paid when a
\* restarted rollup had authorized it the first time.
LEMMA CommitChunkKeeps ==
  ASSUME OneAtATime, Known, CommitChunk
  PROVE  SInv'
<1> DEFINE h == Head(intents)
           n == Len(intents)
<1>1. /\ intents # << >> /\ owner = "dlp" /\ actions = {} /\ h.action.kind = "settle"
      /\ base' = h.data /\ intents' = Tail(intents) /\ actions' = {h.action}
      /\ UNCHANGED <<delivered, owner, escrow, open, purse, transfers, er>>
  BY DEF CommitChunk, OneAtATime, ervars
<1>2. /\ h = intents[1] /\ h.data \in StreamState
      /\ h.data.total_amount = base.total_amount /\ h.data.chunk_amount = base.chunk_amount
      /\ h.data.sent_amount \in Nat
      /\ Whole(h.data) /\ h.action = ActionAt(h.data)
      /\ h.committed => h.action.kind = "finalize"
      /\ 0 <= Before(h.data) /\ Before(h.data) <= Paid
      /\ base.active => base.sent_amount <= Paid
  BY <1>1, HeadFacts
<1>3. base.active
  BY <1>1, <1>2 DEF Known, SInv, BaseSettled
<1>4. h.data.active
  BY <1>1, <1>2 DEF ActionAt
<1>5. intents \in Seq(Intent) /\ er \in StreamState
  BY DEF Known, MInv, MTyped
<1>6. /\ n \in Nat /\ Len(intents') \in Nat /\ n = Len(intents') + 1
      /\ \A i \in 1..Len(intents') : intents'[i] = intents[i + 1]
  BY <1>1, <1>5, HeadTailProperties
<1>7. /\ Paid' = Paid /\ Paid \in Nat /\ base.sent_amount \in Nat
  BY <1>1, <1>2, SerialFields DEF Paid
<1> HIDE DEF h, n
<1>8. ASSUME NEW y \in Int, NEW k \in Nat, k <= Len(intents'), Covered(y, k + 1)
      PROVE  Covered(y, k)'
  <2>1. CASE y <= Paid
    BY <1>7, <2>1 DEF Covered
  <2>2. CASE base.active /\ y <= base.sent_amount
    <3>1. y <= Paid
      BY <1>2, <1>7, <2>2
    <3>2. QED
      BY <1>7, <3>1 DEF Covered
  <2>3. CASE \E j \in 1..k + 1 : y <= intents[j].data.sent_amount
    <3>1. PICK j \in 1..k + 1 : y <= intents[j].data.sent_amount
      BY <2>3
    <3>2. CASE j = 1
      BY <1>1, <1>2, <1>4, <3>1, <3>2 DEF Covered
    <3>3. CASE j # 1
      <4>1. j - 1 \in 1..k /\ j - 1 \in 1..Len(intents') /\ (j - 1) + 1 = j
        BY <1>6, <1>8, <3>3
      <4>2. y <= intents'[j - 1].data.sent_amount
        BY <1>6, <3>1, <4>1
      <4>3. QED
        BY <4>1, <4>2 DEF Covered
    <3>4. QED
      BY <3>2, <3>3
  <2>4. QED
    BY <1>8, <2>1, <2>2, <2>3 DEF Covered
<1>9. QueueCovered'
  <2>1. ASSUME NEW i \in 1..Len(intents')
        PROVE  /\ Whole(intents'[i].data)
               /\ intents'[i].action = ActionAt(intents'[i].data)
               /\ intents'[i].committed => intents'[i].action.kind = "finalize"
               /\ 0 <= Before(intents'[i].data)
               /\ Covered(Before(intents[i].data), i - 1)'
    <3>1. /\ i + 1 \in 1..Len(intents) /\ intents'[i] = intents[i + 1]
          /\ i - 1 \in Nat /\ i - 1 <= Len(intents') /\ (i + 1) - 1 = (i - 1) + 1
      BY <1>6 DEF n
    <3>2. /\ Whole(intents[i + 1].data)
          /\ intents[i + 1].action = ActionAt(intents[i + 1].data)
          /\ intents[i + 1].committed => intents[i + 1].action.kind = "finalize"
          /\ 0 <= Before(intents[i + 1].data)
          /\ Covered(Before(intents[i + 1].data), (i + 1) - 1)
      BY <1>1, <3>1 DEF Known, SInv, QueueCovered
    <3>3. PICK y \in Int : y = Before(intents[i + 1].data)
      BY <1>1, <3>1, IntentFacts
    <3>4. Covered(y, i - 1)'
      BY <1>8, <3>1, <3>2, <3>3
    <3>5. QED
      BY <3>1, <3>2, <3>3, <3>4 DEF Covered
  <2>2. ASSUME er # NoState PROVE Whole(er) /\ Covered(er.sent_amount, Len(intents))'
    <3>1. Whole(er) /\ Covered(er.sent_amount, Len(intents))
      BY <1>1, <2>2 DEF Known, SInv, QueueCovered
    <3>2. PICK y \in Int : y = er.sent_amount
      BY <1>5, StateFields
    <3>3. PICK k \in Nat : k = Len(intents')
      BY <1>6
    <3>4. Covered(y, k)'
      BY <1>6, <1>8, <3>1, <3>2, <3>3 DEF n
    <3>5. QED
      BY <1>1, <3>1, <3>2, <3>3, <3>4 DEF Covered
  <2>3. QED
    BY <1>1, <2>1, <2>2 DEF QueueCovered
<1>10. BaseSettled'
  BY <1>1, <1>2, <1>4 DEF BaseSettled
<1>11. ActionsTrue'
  <2>1. base'.active <=> owner' = "dlp"
    BY <1>1, <1>4
  <2>2. owner' # "none"
    BY <1>1
  <2>3. QED
    BY <1>1, <1>2, <1>7, <2>1, <2>2 DEF ActionsTrue
<1>12. FundsWhole' /\ StreamsCounted'
  BY <1>1, <1>2, <1>7 DEF Known, SInv, FundsWhole, StreamsCounted
<1>13. QED
  BY <1>9, <1>10, <1>11, <1>12 DEF SInv

\* The last intent is committed: from now on nothing follows it.
LEMMA CommitFinalKeeps ==
  ASSUME OneAtATime, Known, CommitFinal
  PROVE  SInv'
<1> DEFINE h == Head(intents)
           x == [h EXCEPT !.committed = TRUE]
<1>1. /\ intents # << >> /\ owner = "dlp" /\ actions = {} /\ h.action.kind = "finalize"
      /\ base' = h.data /\ intents' = << x >> \o Tail(intents)
      /\ UNCHANGED <<actions, delivered, owner, escrow, open, purse, transfers, er>>
  BY DEF CommitFinal, OneAtATime, ervars
<1>2. /\ h = intents[1] /\ h.data \in StreamState
      /\ h.data.total_amount = base.total_amount /\ h.data.chunk_amount = base.chunk_amount
      /\ Whole(h.data) /\ h.action = ActionAt(h.data)
      /\ base.active => base.sent_amount <= Paid
  BY <1>1, HeadFacts
<1>3. ~ h.data.active
  BY <1>1, <1>2 DEF ActionAt
<1>4. intents \in Seq(Intent) /\ er \in StreamState /\ h \in Intent
  BY <1>1, HeadTailProperties DEF Known, MInv, MTyped
<1>5. x \in Intent /\ x.data = h.data /\ x.action = h.action /\ x.committed
  BY <1>4 DEF Intent
<1>6. Paid' = Paid /\ Paid \in Nat /\ base.sent_amount \in Nat
  BY <1>1, <1>2, SerialFields DEF Paid
<1> HIDE DEF h, x
<1>7. /\ Len(intents') = Len(intents) /\ Len(intents) \in Nat /\ intents'[1] = x
      /\ \A i \in 1..Len(intents) : i # 1 => intents'[i] = intents[i]
      /\ intents' # << >>
  <2>1. /\ Tail(intents) \in Seq(Intent) /\ Len(intents) \in Nat /\ Len(intents) > 0
        /\ Len(Tail(intents)) = Len(intents) - 1
        /\ \A i \in 1..Len(Tail(intents)) : Tail(intents)[i] = intents[i + 1]
    BY <1>1, <1>4, HeadTailProperties
  <2>2. << x >> \in Seq(Intent) /\ Len(<< x >>) = 1 /\ << x >>[1] = x
    BY <1>5
  <2>3. /\ Len(intents') = 1 + Len(Tail(intents)) /\ intents' \in Seq(Intent)
        /\ \A i \in 1..1 + Len(Tail(intents)) :
             intents'[i] = IF i <= 1 THEN << x >>[i] ELSE Tail(intents)[i - 1]
    BY <1>1, <2>1, <2>2, ConcatProperties
  <2>4. \A i \in 1..Len(intents) :
          i # 1 => i - 1 \in 1..Len(Tail(intents)) /\ (i - 1) + 1 = i
    BY <2>1
  <2>5. intents' # << >>
    BY <2>1, <2>3
  <2>6. QED
    BY <2>1, <2>2, <2>3, <2>4, <2>5
<1>8. \A i \in 1..Len(intents) : intents'[i].data = intents[i].data
                                  /\ intents'[i].action = intents[i].action
  BY <1>2, <1>5, <1>7
<1>9. ASSUME NEW y \in Int, NEW k \in Nat, k <= Len(intents), Covered(y, k)
      PROVE  Covered(y, k)'
  <2>1. CASE y <= Paid
    BY <1>6, <2>1 DEF Covered
  <2>2. CASE base.active /\ y <= base.sent_amount
    <3>1. y <= Paid
      BY <1>2, <1>6, <2>2
    <3>2. QED
      BY <1>6, <3>1 DEF Covered
  <2>3. CASE \E j \in 1..k : y <= intents[j].data.sent_amount
    <3>1. \A j \in 1..k : j \in 1..Len(intents)
      BY <1>7, <1>9
    <3>2. QED
      BY <1>8, <2>3, <3>1 DEF Covered
  <2>4. QED
    BY <1>9, <2>1, <2>2, <2>3 DEF Covered
<1>10. QueueCovered'
  <2>1. ASSUME NEW i \in 1..Len(intents)
        PROVE  /\ Whole(intents'[i].data)
               /\ intents'[i].action = ActionAt(intents'[i].data)
               /\ intents'[i].committed => intents'[i].action.kind = "finalize"
               /\ 0 <= Before(intents'[i].data)
               /\ Covered(Before(intents[i].data), i - 1)'
    <3>1. /\ Whole(intents[i].data)
          /\ intents[i].action = ActionAt(intents[i].data)
          /\ intents[i].committed => intents[i].action.kind = "finalize"
          /\ 0 <= Before(intents[i].data)
          /\ Covered(Before(intents[i].data), i - 1)
      BY <1>1 DEF Known, SInv, QueueCovered
    <3>2. intents'[i].committed => intents'[i].action.kind = "finalize"
      BY <1>1, <1>5, <1>7, <3>1
    <3>3. PICK y \in Int : y = Before(intents[i].data)
      BY <1>1, IntentFacts
    <3>4. i - 1 \in Nat /\ i - 1 <= Len(intents)
      BY <1>7
    <3>5. Covered(y, i - 1)'
      BY <1>9, <3>1, <3>3, <3>4
    <3>6. QED
      BY <1>8, <3>1, <3>2, <3>3, <3>5 DEF Covered
  <2>2. ASSUME er # NoState PROVE Whole(er) /\ Covered(er.sent_amount, Len(intents))'
    <3>1. Whole(er) /\ Covered(er.sent_amount, Len(intents))
      BY <1>1, <2>2 DEF Known, SInv, QueueCovered
    <3>2. PICK y \in Int : y = er.sent_amount
      BY <1>4, StateFields
    <3>3. PICK k \in Nat : k = Len(intents)
      BY <1>7
    <3>4. Covered(y, k)'
      BY <1>9, <3>1, <3>2, <3>3
    <3>5. QED
      BY <1>1, <1>7, <3>1, <3>2, <3>3, <3>4 DEF Covered
  <2>3. QED
    BY <1>1, <1>7, <2>1, <2>2 DEF QueueCovered
<1>11. BaseSettled'
  BY <1>1, <1>2, <1>3, <1>5, <1>7 DEF BaseSettled
<1>12. FundsWhole' /\ ActionsTrue' /\ StreamsCounted'
  BY <1>1, <1>2, <1>6 DEF Known, SInv, FundsWhole, ActionsTrue, StreamsCounted
<1>13. QED
  BY <1>10, <1>11, <1>12 DEF SInv

\* The account goes back to the program with the last chunk still to be paid.
LEMMA UndelegateKeeps ==
  ASSUME Known, UndelegateCallback
  PROVE  SInv'
<1> DEFINE h == Head(intents)
<1>1. /\ intents # << >> /\ owner = "dlp" /\ h.committed
      /\ owner' = "program" /\ intents' = << >> /\ actions' = actions \cup {h.action}
      /\ UNCHANGED <<delivered, base, escrow, open, purse, transfers>>
  BY DEF UndelegateCallback
<1>2. intents \in Seq(Intent) /\ h = intents[1]
  BY <1>1, FirstOfQueue DEF Known, MInv, MTyped
<1>3. ~ base.active
  BY <1>1, <1>2 DEF Known, QueueSound
<1>4. actions = {}
  BY <1>1, <1>3 DEF Known, SInv, BaseSettled
<1>5. /\ h.data.total_amount = base.total_amount /\ h.data.chunk_amount = base.chunk_amount
      /\ h.data.sent_amount \in Nat /\ h.data.sent_amount <= base.total_amount
      /\ h.data.active <=> h.data.sent_amount < base.total_amount
      /\ h.action = ActionAt(h.data) /\ h.action.kind = "finalize"
      /\ 0 <= Before(h.data) /\ Before(h.data) <= Paid
  BY <1>1, <1>4, HeadFacts
<1> HIDE DEF h
<1>6. ~ h.data.active
  BY <1>5 DEF ActionAt
<1>7. h.data.sent_amount = base.sent_amount
  BY <1>1, <1>3, <1>5, <1>6, SerialFields
<1>8. ActionAt(base) = ActionAt(h.data) /\ Before(base) = Before(h.data)
  BY <1>3, <1>5, <1>6, <1>7 DEF ActionAt, Before, final_chunk
<1>9. ActionsTrue'
  <2>1. owner' # "none" /\ (base'.active <=> owner' = "dlp")
    BY <1>1, <1>3
  <2>2. QED
    BY <1>1, <1>4, <1>5, <1>8, <2>1 DEF ActionsTrue, Paid
<1>10. FundsWhole' /\ QueueCovered' /\ BaseSettled' /\ StreamsCounted'
  BY <1>1, <1>3
     DEF Known, SInv, FundsWhole, QueueCovered, BaseSettled, StreamsCounted, Paid
<1>11. QED
  BY <1>9, <1>10 DEF SInv

\* The next stream finds no action of the last one, which would need a third.
LEMMA CreateKeeps ==
  ASSUME OneAtATime, Known, NEW total \in Totals, NEW chunk \in Chunks,
         NEW o \in {"program", "dlp"}, Create(total, chunk, o)
  PROVE  SInv'
<1>1. /\ total # 0 /\ chunk # 0 /\ owner = "none" /\ open = {"escrow", "destination"}
      /\ purse >= total /\ owner' = o /\ base' = Initialized(total, chunk)
      /\ purse' = purse - total /\ escrow' = total
      /\ UNCHANGED <<open, er, intents, actions, delivered>>
  BY DEF Create, queues
<1>2. /\ total \in Nat /\ chunk \in Nat /\ purse \in Nat /\ Purse \in Nat /\ purse <= Purse
      /\ \A t \in Totals : t \in Nat
  <2>1. purse \in U64 /\ purse <= Purse
    BY DEF Known, MInv, MTyped, SInv, StreamsCounted
  <2>2. QED
    BY <2>1, MagicAssumption, WidthAssumption DEF U64
<1>3. /\ base'.total_amount = total /\ base'.chunk_amount = chunk
      /\ base'.sent_amount = 0 /\ base'.active = TRUE
  BY <1>1 DEF Initialized
<1>4. er = NoState /\ intents = << >>
  BY <1>1 DEF Known, MInv, RollupLinked
<1>5. actions = {}
  <2> SUFFICES ASSUME actions # {} PROVE FALSE
    OBVIOUS
  <2>1. /\ "repeated action" \in Faults
        /\ \E t, u \in Totals \ {0} : t + u <= Purse - purse
    BY <1>1 DEF Known, SInv, StreamsCounted
  <2>2. PICK t \in Totals \ {0}, u \in Totals \ {0} : t + u <= Purse - purse
    BY <2>1
  <2>3. t + u + total > Purse
    BY <1>1, <2>1, <2>2 DEF OneAtATime
  <2>4. QED
    BY <1>1, <1>2, <2>2, <2>3
<1>6. Paid' = 0
  BY <1>1, <1>2, <1>3 DEF Paid
<1>7. 0 % chunk = 0
  BY <1>1, <1>2
<1>8. FundsWhole'
  <2>1. ASSUME NEW e \in U64, 0 < e PROVE ~ e <= 0
    BY <2>1, WidthAssumption DEF U64
  <2>2. QED
    BY <1>1, <1>2, <1>3, <1>6, <1>7, <2>1 DEF FundsWhole
<1>9. QueueCovered'
  BY <1>1, <1>4 DEF QueueCovered
<1>10. BaseSettled' /\ ActionsTrue'
  BY <1>1, <1>3, <1>5, <1>6, <1>7 DEF BaseSettled, ActionsTrue, Whole
<1>11. StreamsCounted'
  <2>1. /\ purse' <= Purse /\ owner' # "none"
        /\ base'.total_amount \in Totals \ {0} /\ base'.total_amount <= Purse - purse'
    BY <1>1, <1>2, <1>3
  <2>2. ASSUME \E a \in delivered : a.kind = "finalize"
        PROVE  \E t \in Totals \ {0} : t + base'.total_amount <= Purse - purse'
    <3>1. PICK t \in Totals \ {0} : t + 0 <= Purse - purse
      BY <1>1, <2>2 DEF Known, SInv, StreamsCounted
    <3>2. t + base'.total_amount <= Purse - purse'
      BY <1>1, <1>2, <1>3, <3>1
    <3>3. QED
      BY <3>2
  <2>3. QED
    BY <1>1, <2>1, <2>2 DEF StreamsCounted
<1>12. QED
  BY <1>8, <1>9, <1>10, <1>11 DEF SInv

\* The rollup takes over what is committed, and marks its copy as scheduled.
LEMMA RollupKeeps ==
  ASSUME Known, Clone \/ Schedule
  PROVE  SInv'
<1>1. UNCHANGED <<owner, base, escrow, open, purse, transfers, intents, actions, delivered>>
  BY DEF Clone, Schedule, basevars, queues
<1>2. er \in StreamState /\ Paid' = Paid
  BY <1>1 DEF Known, MInv, MTyped, Paid
<1>3. CASE Clone
  <2>1. owner = "dlp" /\ base.active /\ er' = base
    BY <1>3 DEF Clone
  <2>2. Whole(base) /\ base.sent_amount <= base.sent_amount
    BY <2>1, SerialFields DEF Known, SInv, BaseSettled
  <2>3. QueueCovered' /\ BaseSettled'
    BY <1>1, <1>2, <2>1, <2>2 DEF Known, SInv, QueueCovered, Covered, BaseSettled
  <2>4. QED
    BY <1>1, <1>2, <2>3 DEF Known, SInv, FundsWhole, ActionsTrue, StreamsCounted
<1>4. CASE Schedule
  <2>1. er.active /\ er' = [er EXCEPT !.scheduled = TRUE]
    BY <1>4 DEF Schedule, CanSchedule
  <2>2. er # NoState /\ owner = "dlp"
    BY <2>1, NoStateTyped DEF Known, MInv, RollupLinked
  <2>3. /\ er'.sent_amount = er.sent_amount /\ er'.total_amount = er.total_amount
        /\ er'.chunk_amount = er.chunk_amount
    BY <1>2, <2>1 DEF StreamState
  <2>4. Whole(er') /\ Covered(er.sent_amount, Len(intents))
    BY <2>2, <2>3 DEF Known, SInv, QueueCovered, Whole
  <2>5. QueueCovered' /\ BaseSettled'
    BY <1>1, <1>2, <2>2, <2>3, <2>4 DEF Known, SInv, QueueCovered, Covered, BaseSettled
  <2>6. QED
    BY <1>1, <1>2, <2>5 DEF Known, SInv, FundsWhole, ActionsTrue, StreamsCounted
<1>5. QED
  BY <1>3, <1>4

\* A restarted rollup has no copy, and starts over from what is committed.
LEMMA RestartKeeps ==
  ASSUME Known, Restart
  PROVE  SInv'
<1>1. /\ er # NoState /\ er' = NoState /\ intents' \in {intents, << >>}
      /\ UNCHANGED <<owner, base, escrow, open, purse, transfers, actions, delivered>>
  BY DEF Restart, basevars
<1>2. owner = "dlp" /\ Paid' = Paid
  BY <1>1 DEF Known, MInv, RollupLinked, Paid
<1>3. QueueCovered'
  <2>1. CASE intents' = intents
    BY <1>1, <1>2, <2>1 DEF Known, SInv, QueueCovered, Covered
  <2>2. CASE intents' = << >>
    BY <1>1, <2>2 DEF QueueCovered
  <2>3. QED
    BY <1>1, <2>1, <2>2
<1>4. BaseSettled'
  BY <1>1, <1>2 DEF Known, SInv, BaseSettled
<1>5. QED
  BY <1>1, <1>2, <1>3, <1>4 DEF Known, SInv, FundsWhole, ActionsTrue, StreamsCounted

LEMMA NextSInv ==
  ASSUME OneAtATime, Known, ActionTransfersOnce', [Next]_vars
  PROVE  SInv'
<1>1. actions \subseteq Action /\ delivered \subseteq Action
  BY DEF Known, MInv, MTyped
<1>2. ASSUME NEW total \in Totals, NEW chunk \in Chunks, Initialize(total, chunk) PROVE SInv'
  BY <1>2, CreateKeeps DEF Initialize
<1>3. CASE Delegate
  <2>1. /\ owner = "program" /\ base.active /\ owner' = "dlp"
        /\ er = NoState /\ intents = << >>
        /\ UNCHANGED <<base, escrow, open, purse, transfers, er, intents, actions, delivered>>
    BY <1>3 DEF Delegate, ervars, queues, Known, MInv, RollupLinked
  <2>2. actions = {}
    BY <2>1 DEF Known, SInv, ActionsTrue
  <2>3. QueueCovered' /\ BaseSettled' /\ ActionsTrue'
    BY <2>1, <2>2 DEF Known, SInv, QueueCovered, BaseSettled, ActionsTrue, Paid
  <2>4. FundsWhole' /\ StreamsCounted'
    BY <2>1, <2>2 DEF Known, SInv, FundsWhole, StreamsCounted, Paid
  <2>5. QED
    BY <2>3, <2>4 DEF SInv
<1>4. CASE Tokens
  <2>1. PICK a \in {"escrow", "destination"} : CreateTokenAccount(a)
    BY <1>4 DEF Tokens, OneAtATime, CloseDestination
  <2>2. /\ a \notin open
        /\ UNCHANGED <<owner, base, escrow, purse, transfers, er, intents, actions, delivered>>
    BY <2>1 DEF CreateTokenAccount, ervars, queues
  <2>3. owner = "none"
    BY <2>2 DEF Known, SInv, FundsWhole
  <2>4. FundsWhole' /\ QueueCovered' /\ BaseSettled'
    BY <2>2, <2>3 DEF FundsWhole, QueueCovered, BaseSettled
  <2>5. ActionsTrue' /\ StreamsCounted'
    BY <2>2, <2>3 DEF Known, SInv, ActionsTrue, StreamsCounted
  <2>6. QED
    BY <2>4, <2>5 DEF SInv
<1>5. CASE CrankTick \/ LoseTick \/ ExtraTick
  <2>1. ASSUME Release PROVE SInv'
    BY <2>1, ReleaseKeeps DEF Release
  <2>2. ASSUME UNCHANGED <<er, basevars, queues>> PROVE SInv'
    BY <2>2, FrameKeeps DEF basevars, queues
  <2>3. QED
    BY <1>5, <2>1, <2>2 DEF CrankTick, LoseTick, ExtraTick
<1>6. ASSUME NEW a \in actions, Deliver(a) PROVE SInv'
  <2>1. a \in Action /\ Call(a) /\ Called(a) /\ UNCHANGED <<intents, ervars>>
    BY <1>1, <1>6 DEF Deliver, Called
  <2>2. QED
    BY <2>1, CallKeeps
<1>7. ASSUME NEW a \in delivered, Redeliver(a) PROVE SInv'
  <2>1. a \in Action /\ Call(a) /\ Called(a) /\ UNCHANGED <<intents, ervars>>
    BY <1>1, <1>7 DEF Redeliver, Called, Fault, queues
  <2>2. QED
    BY <2>1, CallKeeps
<1>8. ~ \E a \in actions : LoseAction(a)
  BY DEF LoseAction, Fault, OneAtATime
<1>9. CASE UNCHANGED vars
  BY <1>9, FrameKeeps DEF vars, basevars, ervars, queues
<1>10. QED
  BY <1>2, <1>3, <1>4, <1>5, <1>6, <1>7, <1>8, <1>9,
     RollupKeeps, CommitChunkKeeps, CommitFinalKeeps, UndelegateKeeps, RestartKeeps
     DEF Next, Sender, Rollup, Committor, FaultyStep

-----------------------------------------------------------------------------
(* Theorems *)

LEMMA SerialInvariance == ASSUME OneAtATime PROVE Spec => []SInv
<1>1. Init => SInv
  <2>1. Purse - Purse = 0 /\ Purse <= Purse
    BY MagicAssumption, WidthAssumption DEF U64
  <2>2. QED
    BY <2>1
       DEF Init, SInv, FundsWhole, QueueCovered, BaseSettled, ActionsTrue, StreamsCounted
<1>2. MInv /\ QueueSound /\ gifts = 0 /\ SInv /\ ActionTransfersOnce' /\ [Next]_vars => SInv'
  BY NextSInv DEF Known
<1>3. Spec => [](gifts = 0)
  BY NoGifts DEF OneAtATime
<1>4. QED
  BY <1>1, <1>2, <1>3, MagicInvariance, QueueInvariance, TransfersOnce, PTL DEF Spec

\* Whatever the crank does, and through restarts of the rollup: if actions are
\* called one at a time and none is lost, none of them meets a check that it
\* cannot pass, unless a repetition of it passed first.
THEOREM ActionsPay == ASSUME OneAtATime PROVE Spec => []DeliveredActionPays
<1>1. MInv /\ QueueSound /\ gifts = 0 /\ SInv /\ ActionTransfersOnce => DeliveredActionPays
  BY SerialPays DEF Known
<1>2. Spec => [](gifts = 0)
  BY NoGifts DEF OneAtATime
<1>3. QED
  BY <1>1, <1>2, SerialInvariance, MagicInvariance, QueueInvariance, TransfersOnce, PTL

-----------------------------------------------------------------------------
(* No scheduled stream is left alone *)

\* What the task and the queue have come to.  Whoever has an intent or a chunk of
\* a scheduled stream on the base layer has the scheduled copy in the rollup; when
\* that copy is through, the final intent is the last in the queue; and when the
\* stream is given back, its final action is pending.
Task ==
  /\ owner = "dlp" /\ (base.scheduled \/ intents # << >>) => er.scheduled
  /\ er.scheduled /\ ~ er.active =>
       intents # << >> /\ intents[Len(intents)].action.kind = "finalize"
  /\ owner = "program" /\ ~ base.active => actions # {}

\* What is left to do is always there, and can be done.
LEMMA TaskLeft ==
  ASSUME Known, CrankSound, Task
  PROVE  NeverStranded
<1> SUFFICES ASSUME owner # "none", er.scheduled \/ base.scheduled
             PROVE  \/ crank > 0 /\ Releases(er)
                    \/ intents # << >>
                    \/ \E a \in actions : CanFinalize(a)
  BY DEF NeverStranded
<1>1. CASE owner = "program"
  <2>1. ~ er.scheduled
    BY <1>1, NoStateTyped DEF Known, MInv, RollupLinked
  <2>2. ~ base.active
    BY <1>1, <2>1 DEF CrankSound
  <2>3. PICK a \in actions : TRUE
    BY <1>1, <2>2 DEF Task
  <2>4. CanFinalize(a)
    BY <1>1, <2>3, PendingPays
  <2>5. QED
    BY <2>3, <2>4
<1>2. CASE owner = "dlp"
  <2>1. er.scheduled
    BY <1>2 DEF Task
  <2>2. CASE ~ er.active
    BY <2>1, <2>2 DEF Task
  <2>3. CASE er.active
    <3>1. Linked(er, base, authorized) /\ er \in StreamState
      BY <1>2, <2>3, NoStateTyped DEF Known, MInv, MTyped, RollupLinked
    <3>2. er.sent_amount < er.total_amount /\ er.chunk_amount \in Nat
      BY <2>3, <3>1, StateFields DEF Linked
    <3>3. remaining(er) > 0
      BY <3>1, <3>2, StateFields DEF remaining
    <3>4. crank \in Nat /\ crank * er.chunk_amount >= remaining(er)
      BY <2>1 DEF Known, MInv, MTyped, CrankSound, CrankExact
    <3>5. crank # 0
      <4> SUFFICES ASSUME crank = 0 PROVE FALSE
        OBVIOUS
      <4>1. crank * er.chunk_amount = 0
        BY <3>2
      <4>2. remaining(er) \in Int
        BY <3>1, StateFields DEF remaining, Err
      <4>3. QED
        BY <3>3, <3>4, <4>1, <4>2
    <3>6. QED
      BY <2>1, <2>3, <3>2, <3>4, <3>5 DEF Releases
  <2>4. QED
    BY <2>2, <2>3
<1>3. QED
  BY <1>1, <1>2, SerialFields

\* A call takes the final action away only together with the stream.
LEMMA CallLeaves ==
  ASSUME Known, Task, NEW a \in Action, Call(a), Called(a), UNCHANGED <<intents, er>>
  PROVE  Task'
<1>1. CASE SettleChunk(a)
  BY <1>1 DEF SettleChunk, CanSettle, Settles, Task
<1>2. CASE Finalize(a)
  <2>1. owner' = "none" /\ ~ er'.scheduled
    BY <1>2, NoStateTyped DEF Finalize, CanFinalize, Finalizes, Known, MInv, RollupLinked
  <2>2. QED
    BY <2>1 DEF Task
<1>3. CASE ~ CanFinalize(a) /\ UNCHANGED basevars
  <2>1. owner' = owner /\ base' = base
    BY <1>3 DEF basevars
  <2>2. ASSUME owner = "program", ~ base.active PROVE actions' # {}
    <3>1. PICK b \in actions : TRUE
      BY <2>2 DEF Task
    <3>2. CanFinalize(b)
      BY <2>2, <3>1, PendingPays
    <3>3. b # a
      BY <1>3, <3>2
    <3>4. b \in actions'
      BY <3>1, <3>3 DEF Called
    <3>5. QED
      BY <3>4
  <2>3. QED
    BY <2>1, <2>2 DEF Task
<1>4. QED
  BY <1>1, <1>2, <1>3 DEF Call

\* The last release puts the final intent at the end of the queue.
LEMMA ReleaseLeaves ==
  ASSUME Known, Task, Release
  PROVE  Task'
<1> DEFINE x == [data |-> Authorized(er), action |-> ActionOf(er), committed |-> FALSE]
<1>1. /\ er.scheduled /\ er.active /\ er' = Authorized(er) /\ intents' = Append(intents, x)
      /\ UNCHANGED <<owner, base, actions>>
  BY DEF Release, Releases, basevars
<1>2. er.sent_amount < er.total_amount /\ er \in StreamState /\ er.chunk_amount > 0
  <2>1. owner = "dlp" /\ Linked(er, base, authorized)
    BY <1>1, NoStateTyped DEF Known, MInv, RollupLinked
  <2>2. QED
    BY <2>1 DEF Release, Releases, Known, MInv, MTyped, BaseLinked, Linked
<1>3. er'.scheduled
  BY <1>1, <1>2, AuthorizedFacts
<1>4. ~ er'.active => x.action.kind = "finalize"
  BY <1>1 DEF ActionOf
<1> HIDE DEF x
<1>5. intents' # << >> /\ intents'[Len(intents')] = x
  BY <1>1 DEF Known, MInv, MTyped
<1>6. QED
  BY <1>1, <1>3, <1>4, <1>5 DEF Task

\* A commit takes the first intent, which is final only if it is the last; the
\* undelegation trades the final intent for its action.
LEMMA CommitLeaves ==
  ASSUME Known, CrankSound, Task, CommitChunk \/ CommitFinal \/ UndelegateCallback
  PROVE  Task'
<1>1. intents \in Seq(Intent) /\ intents # << >> /\ owner = "dlp"
  BY DEF CommitChunk, CommitFinal, UndelegateCallback, Known, MInv, MTyped
<1>2. /\ Len(intents) \in Nat /\ Len(intents) > 0 /\ Head(intents) = intents[1]
      /\ Tail(intents) \in Seq(Intent) /\ Len(Tail(intents)) = Len(intents) - 1
      /\ \A i \in 1..Len(Tail(intents)) : Tail(intents)[i] = intents[i + 1]
  BY <1>1, HeadTailProperties
<1>3. er.scheduled
  BY <1>1 DEF Task
<1>4. CASE CommitChunk
  <2>1. /\ intents[1].action.kind = "settle" /\ intents' = Tail(intents)
        /\ owner' = owner /\ er' = er
    BY <1>2, <1>4 DEF CommitChunk, ervars
  <2>2. ASSUME ~ er.active
        PROVE  intents' # << >> /\ intents'[Len(intents')].action.kind = "finalize"
    <3>1. intents[Len(intents)].action.kind = "finalize"
      BY <1>3, <2>2 DEF Task
    <3>2. Len(intents) > 1
      BY <1>2, <2>1, <3>1
    <3>3. Len(intents') = Len(intents) - 1 /\ Len(intents') \in 1..Len(Tail(intents))
      BY <1>2, <2>1, <3>2
    <3>4. intents'[Len(intents')] = intents[Len(intents)]
      BY <1>2, <2>1, <3>3
    <3>5. intents' # << >>
      BY <1>2, <2>1, <3>2
    <3>6. QED
      BY <3>1, <3>4, <3>5
  <2>3. QED
    BY <1>1, <1>3, <2>1, <2>2 DEF Task
<1>5. CASE CommitFinal
  <2> DEFINE x == [Head(intents) EXCEPT !.committed = TRUE]
  <2>1. /\ Head(intents).action.kind = "finalize" /\ intents' = << x >> \o Tail(intents)
        /\ owner' = owner /\ er' = er
    BY <1>5 DEF CommitFinal, ervars
  <2>2. Head(intents) \in Intent
    BY <1>1, <1>2
  <2>3. x \in Intent /\ x.action.kind = "finalize"
    BY <2>1, <2>2 DEF Intent
  <2> HIDE DEF x
  <2>4. /\ Len(intents') = Len(intents) /\ intents' # << >>
        /\ intents'[Len(intents)] = IF Len(intents) = 1 THEN x ELSE intents[Len(intents)]
    <3>1. << x >> \in Seq(Intent) /\ Len(<< x >>) = 1 /\ << x >>[1] = x
      BY <2>3
    <3>2. /\ Len(intents') = 1 + Len(Tail(intents))
          /\ \A i \in 1..1 + Len(Tail(intents)) :
               intents'[i] = IF i <= 1 THEN << x >>[i] ELSE Tail(intents)[i - 1]
      BY <1>2, <2>1, <3>1, ConcatProperties
    <3>3. Len(intents) \in 1..1 + Len(Tail(intents))
      BY <1>2
    <3>4. Len(intents) # 1 => Tail(intents)[Len(intents) - 1] = intents[Len(intents)]
      BY <1>2
    <3>5. QED
      BY <1>2, <3>1, <3>2, <3>3, <3>4
  <2>5. QED
    BY <1>1, <1>3, <2>1, <2>3, <2>4 DEF Task
<1>6. CASE UndelegateCallback
  <2>1. /\ owner' = "program" /\ er' = NoState
        /\ actions' = actions \cup {Head(intents).action}
    BY <1>6 DEF UndelegateCallback
  <2>2. QED
    BY <2>1, NoStateTyped DEF Task
<1>7. QED
  BY <1>4, <1>5, <1>6
LEMMA NextTask ==
  ASSUME OneAtATime, CrankFaultless, Known, CrankSound, Task, [Next]_vars
  PROVE  Task'
<1>1. actions \subseteq Action /\ delivered \subseteq Action
  BY DEF Known, MInv, MTyped
<1>2. CASE UNCHANGED <<owner, base, er, intents, actions>>
  BY <1>2 DEF Task
<1>3. CASE Sender
  <2>1. ASSUME NEW total \in Totals, NEW chunk \in Chunks, Initialize(total, chunk) PROVE Task'
    <3>1. owner = "none" /\ owner' = "program" /\ base' = Initialized(total, chunk) /\ er' = er
      BY <2>1 DEF Initialize, Create
    <3>2. er = NoState /\ base'.active
      BY <3>1 DEF Known, MInv, RollupLinked, Initialized
    <3>3. QED
      BY <3>1, <3>2, NoStateTyped DEF Task
  <2>2. ASSUME Delegate PROVE Task'
    <3>1. /\ owner = "program" /\ owner' = "dlp" /\ base.active
          /\ er = NoState /\ intents = << >>
          /\ UNCHANGED <<base, er, intents>>
      BY <2>2 DEF Delegate, Known, MInv, RollupLinked, ervars, queues
    <3>2. ~ base.scheduled
      BY <3>1 DEF CrankSound
    <3>3. QED
      BY <3>1, <3>2, NoStateTyped DEF Task
  <2>3. QED
    BY <1>3, <2>1, <2>2 DEF Sender
<1>4. CASE Tokens
  BY <1>2, <1>4
     DEF Tokens, StrayDeposit, CreateTokenAccount, CloseDestination, ervars, queues
<1>5. CASE Rollup
  <2>1. ASSUME Clone PROVE Task'
    <3>1. /\ owner = "dlp" /\ base.active /\ er = NoState /\ er' = base
          /\ UNCHANGED <<owner, base, intents, actions>>
      BY <2>1 DEF Clone, basevars, queues
    <3>2. intents = << >>
      BY <3>1 DEF CrankSound
    <3>3. QED
      BY <3>1, <3>2 DEF Task
  <2>2. ASSUME Schedule PROVE Task'
    <3>1. /\ er.active /\ er' = [er EXCEPT !.scheduled = TRUE]
          /\ UNCHANGED <<owner, base, intents, actions>>
      BY <2>2 DEF Schedule, CanSchedule, basevars, queues
    <3>2. er'.scheduled /\ er'.active
      BY <3>1 DEF Known, MInv, MTyped, StreamState
    <3>3. QED
      BY <3>1, <3>2 DEF Task
  <2>3. ASSUME CrankTick PROVE Task'
    BY <1>2, <2>3, ReleaseLeaves DEF CrankTick, basevars, queues
  <2>4. QED
    BY <1>5, <2>1, <2>2, <2>3 DEF Rollup
<1>6. CASE Committor
  <2>1. ASSUME NEW a \in actions, Deliver(a) PROVE Task'
    <3>1. a \in Action /\ Call(a) /\ Called(a) /\ UNCHANGED <<intents, er>>
      BY <1>1, <2>1 DEF Deliver, Called, ervars
    <3>2. QED
      BY <3>1, CallLeaves
  <2>2. QED
    BY <1>6, <2>1, CommitLeaves DEF Committor
<1>7. CASE FaultyStep
  <2>1. /\ ~ LoseTick /\ ~ ExtraTick /\ ~ Restart
        /\ ~ \E a \in actions : LoseAction(a)
    BY DEF CrankFaultless, OneAtATime, LoseTick, ExtraTick, Restart, LoseAction, Fault
  <2>2. ASSUME NEW a \in delivered, Redeliver(a) PROVE Task'
    <3>1. a \in Action /\ Call(a) /\ Called(a) /\ UNCHANGED <<intents, er>>
      BY <1>1, <2>2 DEF Redeliver, Called, Fault, ervars, queues
    <3>2. QED
      BY <3>1, CallLeaves
  <2>3. QED
    BY <1>7, <2>1, <2>2 DEF FaultyStep
<1>8. CASE UNCHANGED vars
  BY <1>2, <1>8 DEF vars, basevars, ervars, queues
<1>9. QED
  BY <1>3, <1>4, <1>5, <1>6, <1>7, <1>8 DEF Next

\* If the crank executes each iteration once, too, a scheduled stream always has a
\* chunk to release, an intent to commit, or a final action that closes it.
THEOREM AlwaysWork == ASSUME OneAtATime, CrankFaultless PROVE Spec => []NeverStranded
<1>1. Init => Task
  BY NoStateTyped DEF Init, Task
<1>2. /\ MInv /\ QueueSound /\ gifts = 0 /\ SInv /\ CrankSound /\ Task /\ [Next]_vars
      => Task'
  BY NextTask DEF Known
<1>3. MInv /\ QueueSound /\ gifts = 0 /\ SInv /\ CrankSound /\ Task => NeverStranded
  BY TaskLeft DEF Known
<1>4. Spec => [](gifts = 0)
  BY NoGifts DEF OneAtATime
<1>5. QED
  BY <1>1, <1>2, <1>3, <1>4, SerialInvariance, MagicInvariance, QueueInvariance,
     CrankInvariance, PTL DEF Spec

-----------------------------------------------------------------------------
(* What is left to do runs out *)

\* What the committor has to do for its queue: a final intent is taken up twice.
HeadCommitted(q) == IF q # << >> /\ q[1].committed THEN 1 ELSE 0

QueueWork(q) == 3 * Len(q) - HeadCommitted(q)

\* The steps that the crank and the committor have before them, at most: an
\* iteration may be good for an intent, and an intent for an action.
Work == 4 * crank + QueueWork(intents) + Cardinality(actions)

\* What a step does to the work that is left.
TowardsTheEnd ==
  /\ Work \in Nat
  /\ CrankTick \/ Committor => Work' < Work
  /\ Work' > Work => ~ er.scheduled /\ er'.scheduled
  /\ er.scheduled /\ owner' = owner => er'.scheduled

\* One intent more, one less, and one that is committed.
LEMMA QueueWorkFacts ==
  ASSUME NEW q \in Seq(Intent)
  PROVE  /\ QueueWork(q) \in Nat
         /\ q = << >> => QueueWork(q) = 0
         /\ q # << >> => QueueWork(q) >= 2
         /\ \A x \in Intent : QueueWork(Append(q, x)) <= QueueWork(q) + 3
         /\ q # << >> => QueueWork(Tail(q)) <= QueueWork(q) - 2
         /\ q # << >> /\ ~ Head(q).committed =>
              QueueWork(<< [Head(q) EXCEPT !.committed = TRUE] >> \o Tail(q))
                <= QueueWork(q) - 1
<1>1. \A s \in Seq(Intent) :
        /\ Len(s) \in Nat /\ HeadCommitted(s) \in {0, 1}
        /\ s = << >> => Len(s) = 0 /\ HeadCommitted(s) = 0
        /\ s # << >> => Len(s) > 0
  BY DEF HeadCommitted
<1>2. ASSUME NEW x \in Intent PROVE QueueWork(Append(q, x)) <= QueueWork(q) + 3
  <2>1. /\ Append(q, x) \in Seq(Intent) /\ Len(Append(q, x)) = Len(q) + 1
        /\ q # << >> => Append(q, x)[1] = q[1]
    OBVIOUS
  <2>2. HeadCommitted(Append(q, x)) >= HeadCommitted(q)
    BY <1>1, <2>1 DEF HeadCommitted
  <2> DEFINE s == Append(q, x)
  <2> HIDE DEF s
  <2>3. s \in Seq(Intent) /\ Len(s) = Len(q) + 1 /\ HeadCommitted(s) >= HeadCommitted(q)
    BY <2>1, <2>2 DEF s
  <2>4. QueueWork(s) <= QueueWork(q) + 3
    BY <1>1, <2>3 DEF QueueWork
  <2>5. QED
    BY <2>4 DEF s
<1>3. ASSUME q # << >>
      PROVE  QueueWork(Tail(q)) <= QueueWork(q) - 2
  <2>1. Tail(q) \in Seq(Intent) /\ Len(Tail(q)) = Len(q) - 1
    BY <1>3, HeadTailProperties
  <2> DEFINE s == Tail(q)
  <2> HIDE DEF s
  <2>2. s \in Seq(Intent) /\ Len(s) = Len(q) - 1
    BY <2>1 DEF s
  <2>3. QueueWork(s) <= QueueWork(q) - 2
    BY <1>1, <2>2 DEF QueueWork
  <2>4. QED
    BY <2>3 DEF s
<1>4. ASSUME q # << >>, ~ Head(q).committed
      PROVE  QueueWork(<< [Head(q) EXCEPT !.committed = TRUE] >> \o Tail(q))
               <= QueueWork(q) - 1
  <2> DEFINE x == [Head(q) EXCEPT !.committed = TRUE]
             s == << x >> \o Tail(q)
  <2>1. /\ Head(q) \in Intent /\ Head(q) = q[1] /\ Tail(q) \in Seq(Intent)
        /\ Len(Tail(q)) = Len(q) - 1
    BY <1>4, HeadTailProperties
  <2>2. x \in Intent /\ x.committed = TRUE
    BY <2>1 DEF Intent
  <2> HIDE DEF x
  <2>3. << x >> \in Seq(Intent) /\ Len(<< x >>) = 1 /\ << x >>[1] = x
    BY <2>2
  <2>4. s \in Seq(Intent) /\ Len(s) = Len(q)
    BY <1>1, <2>1, <2>3, ConcatProperties
  <2>5. s[1] = x
    <3>1. 1 \in 1..Len(<< x >>) + Len(Tail(q))
      BY <1>1, <2>1, <2>3
    <3>2. QED
      BY <2>1, <2>3, <3>1, ConcatProperties
  <2> HIDE DEF s
  <2>6. s # << >>
    BY <1>1, <1>4, <2>4
  <2>7. HeadCommitted(s) = 1 /\ HeadCommitted(q) = 0
    BY <1>4, <2>1, <2>2, <2>5, <2>6 DEF HeadCommitted
  <2>8. QED
    BY <1>1, <2>4, <2>7 DEF s, x, QueueWork
<1>5. QED
  BY <1>1, <1>2, <1>3, <1>4 DEF QueueWork

\* Work as the sum of its three parts, before a step and after it.
LEMMA WorkFacts ==
  ASSUME MInv, MInv', IsFiniteSet(actions), IsFiniteSet(actions')
  PROVE  /\ crank \in Nat /\ crank' \in Nat
         /\ QueueWork(intents) \in Nat /\ QueueWork(intents') \in Nat
         /\ Cardinality(actions) \in Nat /\ Cardinality(actions') \in Nat
         /\ Work = 4 * crank + QueueWork(intents) + Cardinality(actions)
         /\ Work' = 4 * crank' + QueueWork(intents') + Cardinality(actions')
         /\ Work \in Nat
<1>1. crank \in Nat /\ crank' \in Nat /\ intents \in Seq(Intent) /\ intents' \in Seq(Intent)
  BY DEF MInv, MTyped
<1>2. QueueWork(intents) \in Nat /\ QueueWork(intents') \in Nat
  BY <1>1, QueueWorkFacts
<1>3. Cardinality(actions) \in Nat /\ Cardinality(actions') \in Nat
  BY FS_CardinalityType
<1>4. /\ Work = 4 * crank + QueueWork(intents) + Cardinality(actions)
      /\ Work' = 4 * crank' + QueueWork(intents') + Cardinality(actions')
  BY DEF Work, QueueWork, HeadCommitted
<1> HIDE DEF Work
<1>5. \A a, b, c \in Nat : 4 * a + b + c \in Nat
  OBVIOUS
<1>6. Work \in Nat
  BY <1>1, <1>2, <1>3, <1>4, <1>5
<1>7. QED
  BY <1>1, <1>2, <1>3, <1>4, <1>6

\* Only the committor adds an action, and one at a time.
LEMMA ActionsFinite ==
  ASSUME IsFiniteSet(actions), [Next]_vars
  PROVE  /\ IsFiniteSet(actions')
         /\ CommitChunk \/ UndelegateCallback =>
              Cardinality(actions') <= Cardinality(actions) + 1
         /\ \A a \in actions : Deliver(a) => Cardinality(actions') < Cardinality(actions)
<1>1. Cardinality(actions) \in Nat
  BY FS_CardinalityType
<1>2. ASSUME NEW a, actions' = actions \cup {a}
      PROVE  IsFiniteSet(actions') /\ Cardinality(actions') <= Cardinality(actions) + 1
  BY <1>1, <1>2, FS_AddElement
<1>3. ASSUME NEW a \in actions, actions' = actions \ {a}
      PROVE  IsFiniteSet(actions') /\ Cardinality(actions') < Cardinality(actions)
  BY <1>1, <1>3, FS_RemoveElement
<1>4. ASSUME CommitChunk \/ UndelegateCallback
      PROVE  IsFiniteSet(actions') /\ Cardinality(actions') <= Cardinality(actions) + 1
  BY <1>2, <1>4 DEF CommitChunk, UndelegateCallback
<1>5. ASSUME NEW a \in actions, Deliver(a) \/ LoseAction(a)
      PROVE  IsFiniteSet(actions') /\ Cardinality(actions') < Cardinality(actions)
  BY <1>3, <1>5 DEF Deliver, LoseAction
<1>6. ASSUME UNCHANGED actions PROVE IsFiniteSet(actions')
  BY <1>6
<1>7. ASSUME Sender PROVE IsFiniteSet(actions')
  BY <1>6, <1>7 DEF Sender, Initialize, Create, Delegate, queues
<1>8. ASSUME Tokens PROVE IsFiniteSet(actions')
  BY <1>6, <1>8 DEF Tokens, StrayDeposit, CreateTokenAccount, CloseDestination, queues
<1>9. ASSUME Rollup PROVE IsFiniteSet(actions')
  BY <1>6, <1>9 DEF Rollup, Clone, Schedule, CrankTick, Release, queues
<1>10. ASSUME Committor PROVE IsFiniteSet(actions')
  BY <1>4, <1>5, <1>6, <1>10 DEF Committor, CommitFinal
<1>11. ASSUME FaultyStep PROVE IsFiniteSet(actions')
  BY <1>5, <1>6, <1>11 DEF FaultyStep, LoseTick, ExtraTick, Restart, Release, Redeliver, queues
<1>12. ASSUME UNCHANGED vars PROVE IsFiniteSet(actions')
  BY <1>6, <1>12 DEF vars, queues
<1>13. QED
  BY <1>4, <1>5, <1>7, <1>8, <1>9, <1>10, <1>11, <1>12 DEF Next

\* A release in the rollup trades an iteration for an intent.
LEMMA ReleaseWork ==
  ASSUME MInv, Release
  PROVE  er'.scheduled /\ QueueWork(intents') <= QueueWork(intents) + 3
<1>1. er.scheduled /\ er.active /\ er.sent_amount < er.total_amount /\ er' = Authorized(er)
  BY DEF Release, Releases
<1>2. owner = "dlp" /\ Linked(er, base, authorized)
  BY <1>1, NoStateTyped DEF MInv, RollupLinked
<1>3. er \in StreamState /\ er.chunk_amount > 0 /\ intents \in Seq(Intent)
  BY <1>2 DEF MInv, MTyped, BaseLinked, Linked
<1>4. /\ Authorized(er) \in StreamState /\ Authorized(er).scheduled = er.scheduled
      /\ ActionOf(er) \in Action
  BY <1>1, <1>3, AuthorizedFacts
<1> DEFINE x == [data |-> Authorized(er), action |-> ActionOf(er), committed |-> FALSE]
<1>5. x \in Intent
  BY <1>4 DEF Intent
<1>6. intents' = Append(intents, x)
  BY DEF Release
<1> HIDE DEF x
<1>7. QueueWork(intents') <= QueueWork(intents) + 3
  BY <1>3, <1>5, <1>6, QueueWorkFacts
<1>8. QED
  BY <1>1, <1>4, <1>7

LEMMA WorkSteps ==
  ASSUME CrankFaultless, MInv, MInv', IsFiniteSet(actions), [Next]_vars
  PROVE  TowardsTheEnd
<1>1. IsFiniteSet(actions')
  BY ActionsFinite
<1> DEFINE w == Cardinality(actions)
           q == QueueWork(intents)
<1>2. /\ crank \in Nat /\ crank' \in Nat /\ q \in Nat /\ q' \in Nat /\ w \in Nat /\ w' \in Nat
      /\ Work = 4 * crank + q + w /\ Work' = 4 * crank' + q' + w' /\ Work \in Nat
  BY <1>1, WorkFacts
<1>3. intents \in Seq(Intent)
  BY DEF MInv, MTyped
<1> DEFINE Keeps == er.scheduled /\ owner' = owner => er'.scheduled
<1>4. ASSUME q' + w' < q + w, UNCHANGED <<er, crank>> PROVE Work' < Work /\ Keeps
  BY <1>2, <1>4
<1>5. ASSUME UNCHANGED <<crank, intents, actions>> PROVE Work' = Work
  BY <1>5 DEF Work, QueueWork, HeadCommitted
<1>6. ASSUME CrankTick PROVE Work' < Work /\ Keeps
  <2>1. crank > 0 /\ crank' = crank - 1 /\ w' = w
    BY <1>6 DEF CrankTick, Release, queues
  <2>2. ASSUME Release PROVE Work' < Work /\ Keeps
    BY <1>2, <2>1, <2>2, ReleaseWork
  <2>3. ASSUME UNCHANGED <<er, intents>> PROVE Work' < Work /\ Keeps
    <3>1. q' = q
      BY <2>3 DEF QueueWork, HeadCommitted
    <3>2. QED
      BY <1>2, <2>1, <2>3, <3>1
  <2>4. QED
    BY <1>6, <2>2, <2>3 DEF CrankTick, queues
<1>7. ASSUME CommitChunk PROVE Work' < Work /\ Keeps
  <2>1. intents # << >> /\ intents' = Tail(intents) /\ UNCHANGED <<er, crank>>
    BY <1>7 DEF CommitChunk, ervars
  <2>2. q' <= q - 2
    BY <1>3, <2>1, QueueWorkFacts
  <2>3. w' <= w + 1
    BY <1>7, ActionsFinite
  <2>4. QED
    BY <1>2, <1>4, <2>1, <2>2, <2>3
<1>8. ASSUME CommitFinal PROVE Work' < Work /\ Keeps
  <2>1. /\ intents # << >> /\ ~ Head(intents).committed
        /\ intents' = << [Head(intents) EXCEPT !.committed = TRUE] >> \o Tail(intents)
        /\ UNCHANGED <<er, crank, actions>>
    BY <1>8 DEF CommitFinal, ervars
  <2>2. q' <= q - 1
    BY <1>3, <2>1, QueueWorkFacts
  <2>3. QED
    BY <1>2, <1>4, <2>1, <2>2
<1>9. ASSUME UndelegateCallback PROVE Work' < Work /\ Keeps
  <2>1. intents # << >> /\ owner = "dlp" /\ owner' = "program" /\ crank' = 0 /\ intents' = << >>
    BY <1>9 DEF UndelegateCallback
  <2>2. q >= 2 /\ q' = 0
    BY <1>3, <2>1, QueueWorkFacts DEF QueueWork, HeadCommitted
  <2>3. w' <= w + 1
    BY <1>9, ActionsFinite
  <2>4. QED
    BY <1>2, <2>1, <2>2, <2>3
<1>10. ASSUME NEW a \in actions, Deliver(a) PROVE Work' < Work /\ Keeps
  <2>1. UNCHANGED <<er, crank, intents>>
    BY <1>10 DEF Deliver, ervars
  <2>2. w' < w
    BY <1>10, ActionsFinite
  <2>3. q' = q
    BY <2>1 DEF QueueWork, HeadCommitted
  <2>4. QED
    BY <1>2, <1>4, <2>1, <2>2, <2>3
<1>11. ASSUME CrankTick \/ Committor PROVE TowardsTheEnd
  <2>1. Work' < Work /\ Keeps
    BY <1>6, <1>7, <1>8, <1>9, <1>10, <1>11 DEF Committor
  <2>2. QED
    BY <1>2, <2>1 DEF TowardsTheEnd
<1>12. ASSUME ~ CrankTick, ~ Committor PROVE TowardsTheEnd
  <2>1. ASSUME UNCHANGED <<er, crank, intents, actions>> PROVE TowardsTheEnd
    <3>1. Work' = Work
      BY <1>5, <2>1
    <3>2. QED
      BY <1>2, <1>12, <2>1, <3>1 DEF TowardsTheEnd
  <2>2. CASE Sender
    BY <2>1, <2>2 DEF Sender, Initialize, Create, Delegate, ervars, queues
  <2>3. CASE Tokens
    BY <2>1, <2>3
       DEF Tokens, StrayDeposit, CreateTokenAccount, CloseDestination, ervars, queues
  <2>4. CASE Clone
    <3>1. UNCHANGED <<crank, intents, actions>> /\ ~ er.scheduled
      BY <2>4, NoStateTyped DEF Clone, queues
    <3>2. QED
      BY <1>2, <1>5, <1>12, <3>1 DEF TowardsTheEnd
  <2>5. CASE Schedule
    <3>1. ~ er.scheduled /\ er' = [er EXCEPT !.scheduled = TRUE]
      BY <2>5 DEF Schedule, CanSchedule
    <3>2. er'.scheduled
      BY <3>1 DEF MInv, MTyped, StreamState
    <3>3. QED
      BY <1>2, <1>12, <3>1, <3>2 DEF TowardsTheEnd
  <2>6. CASE FaultyStep
    <3>1. ~ LoseTick /\ ~ ExtraTick /\ ~ Restart
      BY DEF CrankFaultless, LoseTick, ExtraTick, Restart, Fault
    <3>2. ASSUME NEW a \in actions, LoseAction(a) PROVE TowardsTheEnd
      <4>1. UNCHANGED <<er, crank, intents>> /\ actions' = actions \ {a}
        BY <3>2 DEF LoseAction, ervars
      <4>2. w' < w
        BY <1>2, <4>1, FS_RemoveElement
      <4>3. q' = q
        BY <4>1 DEF QueueWork, HeadCommitted
      <4>4. QED
        BY <1>2, <1>4, <1>12, <4>1, <4>2, <4>3 DEF TowardsTheEnd
    <3>3. ASSUME NEW a \in delivered, Redeliver(a) PROVE TowardsTheEnd
      BY <2>1, <3>3 DEF Redeliver, ervars, queues
    <3>4. QED
      BY <2>6, <3>1, <3>2, <3>3 DEF FaultyStep
  <2>7. CASE UNCHANGED vars
    BY <2>1, <2>7 DEF vars, ervars, queues
  <2>8. QED
    BY <1>12, <2>2, <2>3, <2>4, <2>5, <2>6, <2>7 DEF Next, Rollup
<1>13. QED
  BY <1>11, <1>12

\* Every step of the crank and of the committor leaves less to do, and only a
\* stream that becomes scheduled, which it does once, brings more.  With AlwaysWork
\* this is why a scheduled stream ends if the crank and the committor go on.
THEOREM WorkRunsOut == ASSUME CrankFaultless PROVE Spec => [][TowardsTheEnd]_vars
<1> DEFINE Finite == IsFiniteSet(actions)
<1>1. Init => Finite
  BY FS_EmptySet DEF Init
<1>2. Finite /\ [Next]_vars => Finite'
  BY ActionsFinite
<1>3. MInv /\ MInv' /\ Finite /\ [Next]_vars => [TowardsTheEnd]_vars
  BY WorkSteps
<1> HIDE DEF Finite
<1>4. QED
  BY <1>1, <1>2, <1>3, MagicInvariance, PTL DEF Spec
=============================================================================
