--------------------------- MODULE MagicStreamProofs ---------------------------
(***************************************************************************)
(* Theorems about MagicStream, for all amounts, widths and numbers of      *)
(* faults.  What the base layer may pay is decided by data that has been   *)
(* authorized in the rollup, has waited in the committor's queue and may   *)
(* have been overtaken by a restart.  The invariant MInv says that this    *)
(* data is Linked wherever it is: it belongs to the deal that the base     *)
(* layer knows, and is not ahead of what release has authorized.           *)
(***************************************************************************)
EXTENDS MagicStream, SequenceTheorems, TLAPS

-----------------------------------------------------------------------------
(* Arithmetic *)

\* The fields of an account.
LEMMA StateFields ==
  ASSUME NEW st \in StreamState
  PROVE  /\ st.total_amount \in Nat /\ st.chunk_amount \in Nat /\ st.sent_amount \in Nat
         /\ st.total_amount <= U64Max /\ st.chunk_amount <= U64Max
         /\ st.sent_amount <= U64Max
         /\ st.active \in BOOLEAN /\ st.scheduled \in BOOLEAN
         /\ U64Max \in Nat
BY WidthAssumption DEF StreamState, U64

\* Release authorizes one more chunk, or what is left if that is less, and the
\* account stays active until that is all.
LEMMA AuthorizedFacts ==
  ASSUME NEW st \in StreamState, st.sent_amount < st.total_amount, st.chunk_amount > 0
  PROVE  /\ Authorized(st) \in StreamState
         /\ Authorized(st).total_amount = st.total_amount
         /\ Authorized(st).chunk_amount = st.chunk_amount
         /\ Authorized(st).scheduled = st.scheduled
         /\ Authorized(st).sent_amount
              = st.sent_amount + Lesser(st.total_amount - st.sent_amount, st.chunk_amount)
         /\ st.sent_amount < Authorized(st).sent_amount
         /\ Authorized(st).sent_amount <= st.total_amount
         /\ Authorized(st).active <=> Authorized(st).sent_amount < st.total_amount
         /\ ActionOf(st) \in Action
<1> DEFINE sent == st.sent_amount + next_amount(st)
<1>1. /\ next_amount(st) = Lesser(st.total_amount - st.sent_amount, st.chunk_amount)
      /\ next_amount(st) \in U64
      /\ st.sent_amount < sent /\ sent <= st.total_amount /\ sent \in U64
  BY StateFields DEF next_amount, remaining, Lesser, U64
<1> HIDE DEF sent
<1>2. Authorized(st) = [st EXCEPT !.sent_amount = sent, !.active = sent # st.total_amount]
  BY DEF Authorized, sent
<1>3. /\ Authorized(st) \in StreamState
      /\ Authorized(st).total_amount = st.total_amount
      /\ Authorized(st).chunk_amount = st.chunk_amount
      /\ Authorized(st).scheduled = st.scheduled
      /\ Authorized(st).sent_amount = sent
      /\ Authorized(st).active = (sent # st.total_amount)
  BY <1>1, <1>2 DEF StreamState
<1>4. (sent # st.total_amount) <=> sent < st.total_amount
  BY <1>1, StateFields DEF U64
<1>5. ActionOf(st) \in Action
  BY <1>1, <1>3 DEF ActionOf, Action
<1>6. QED
  BY <1>1, <1>3, <1>4, <1>5 DEF sent

\* The last call pays something, and no more than a chunk.
LEMMA FinalChunkFacts ==
  ASSUME NEW st \in StreamState, st.chunk_amount > 0
  PROVE  /\ final_chunk(st) \in Nat
         /\ 0 < final_chunk(st) /\ final_chunk(st) <= st.chunk_amount
BY StateFields DEF final_chunk

\* The task is given as many iterations as cover what remains.
LEMMA IterationFacts ==
  ASSUME NEW st \in StreamState, remaining_iterations(st) # Err
  PROVE  LET n == remaining_iterations(st)
             c == st.chunk_amount
         IN  /\ c > 0 /\ st.sent_amount <= st.total_amount
             /\ remaining(st) = st.total_amount - st.sent_amount
             /\ n \in Nat
             /\ n * c >= remaining(st)
             /\ n * c < remaining(st) + c
<1> DEFINE c == st.chunk_amount
           r == remaining(st)
           v == r + (c - 1)
<1>1. r # Err /\ c # 0 /\ remaining_iterations(st) = v \div c
  BY DEF remaining_iterations
<1>2. st.sent_amount <= st.total_amount /\ r = st.total_amount - st.sent_amount /\ r \in Nat
  BY <1>1, StateFields DEF remaining
<1>3. c \in Nat /\ c > 0 /\ v = r + (c - 1) /\ v \in Nat
  BY <1>1, <1>2, StateFields
<1> HIDE DEF c, r, v
<1> DEFINE n == v \div c
           e == v % c
<1>4. n \in Nat /\ e \in 0..(c - 1) /\ v = c * n + e
  BY <1>3
<1>5. remaining_iterations(st) = n
  BY <1>1
<1> HIDE DEF n, e
<1>6. n * c = c * n /\ c * n \in Nat
  BY <1>3, <1>4
<1>7. n * c >= r /\ n * c < r + c
  BY <1>2, <1>3, <1>4, <1>6
<1>8. QED
  BY <1>2, <1>3, <1>4, <1>5, <1>7 DEF c, r

-----------------------------------------------------------------------------
(* The invariant *)

\* Account data st belongs to the deal b and is not ahead of the limit.
Linked(st, b, limit) ==
  /\ st.total_amount = b.total_amount
  /\ st.chunk_amount = b.chunk_amount
  /\ st.sent_amount <= limit
  /\ st.sent_amount <= st.total_amount
  /\ st.active <=> st.sent_amount < st.total_amount

LinkedIntents(b, limit) == {x \in Intent : Linked(x.data, b, limit)}

\* The base layer's account, while it exists.
BaseLinked ==
  owner # "none" =>
    /\ Linked(base, base, authorized)
    /\ 0 < base.chunk_amount
    /\ base.chunk_amount <= base.total_amount

\* The rollup and its committor have nothing to do with an account that is not
\* delegated, so a new stream at the address finds nothing of the last one there.
RollupLinked ==
  /\ owner = "dlp" => /\ er = NoState \/ Linked(er, base, authorized)
                      /\ intents \in Seq(LinkedIntents(base, authorized))
  /\ owner # "dlp" => er = NoState /\ intents = << >>

MInv == MTyped /\ BaseLinked /\ RollupLinked

LEMMA NoStateTyped == NoState \in StreamState /\ ~ NoState.active /\ ~ NoState.scheduled
BY WidthAssumption DEF NoState, StreamState, U64

\* What is linked stays linked when the limit rises, and to any data that is
\* itself linked.
LEMMA LinkedOn ==
  ASSUME NEW b \in StreamState, NEW limit \in U64, NEW c \in StreamState, NEW more \in U64,
         c.total_amount = b.total_amount, c.chunk_amount = b.chunk_amount, limit <= more
  PROVE  /\ \A st \in StreamState : Linked(st, b, limit) => Linked(st, c, more)
         /\ LinkedIntents(b, limit) \subseteq LinkedIntents(c, more)
         /\ Seq(LinkedIntents(b, limit)) \subseteq Seq(LinkedIntents(c, more))
<1>1. \A st \in StreamState : Linked(st, b, limit) => Linked(st, c, more)
  BY StateFields, WidthAssumption DEF Linked, U64
<1>2. LinkedIntents(b, limit) \subseteq LinkedIntents(c, more)
  BY <1>1 DEF LinkedIntents, Intent
<1>3. QED
  BY <1>1, <1>2, SeqMonotonic

\* A queue whose intents are linked holds intents.
LEMMA QueueTyped ==
  ASSUME NEW b, NEW limit, NEW q \in Seq(LinkedIntents(b, limit))
  PROVE  q \in Seq(Intent)
<1>1. LinkedIntents(b, limit) \subseteq Intent
  BY DEF LinkedIntents
<1>2. QED
  BY <1>1, SeqMonotonic

\* The first intent of the queue, and the queue without it.
LEMMA QueueHead ==
  ASSUME NEW b, NEW limit, NEW q \in Seq(LinkedIntents(b, limit)), q # << >>
  PROVE  /\ Head(q) \in Intent /\ Head(q).data \in StreamState /\ Head(q).action \in Action
         /\ Linked(Head(q).data, b, limit)
         /\ Tail(q) \in Seq(LinkedIntents(b, limit))
         /\ << [Head(q) EXCEPT !.committed = TRUE] >> \o Tail(q)
              \in Seq(LinkedIntents(b, limit))
<1>1. Head(q) \in LinkedIntents(b, limit) /\ Tail(q) \in Seq(LinkedIntents(b, limit))
  BY HeadTailProperties
<1>2. /\ Head(q) \in Intent /\ Head(q).data \in StreamState /\ Head(q).action \in Action
      /\ Linked(Head(q).data, b, limit)
  BY <1>1 DEF LinkedIntents, Intent
<1> DEFINE x == [Head(q) EXCEPT !.committed = TRUE]
<1>3. x \in LinkedIntents(b, limit)
  BY <1>2 DEF LinkedIntents, Intent
<1> HIDE DEF x
<1>4. << x >> \o Tail(q) \in Seq(LinkedIntents(b, limit))
  BY <1>1, <1>3, ConcatProperties
<1>5. QED
  BY <1>1, <1>2, <1>4 DEF x

\* At the start there is no account anywhere.
LEMMA InitMInv == Init => MInv
<1> SUFFICES ASSUME Init PROVE MInv
  OBVIOUS
<1>1. MTyped
  BY NoStateTyped, MagicAssumption, WidthAssumption
     DEF Init, MTyped, Owners, U64
<1>2. QED
  BY <1>1 DEF Init, MInv, BaseLinked, RollupLinked

-----------------------------------------------------------------------------
(* The two handlers that pay *)

\* settle_chunk pays the chunk that the committed account is at, and leaves in
\* the escrow exactly what the account has not reached yet.
LEMMA SettleFacts ==
  ASSUME MInv, NEW a \in Action, SettleChunk(a)
  PROVE  /\ owner = "dlp" /\ base \in StreamState
         /\ a.expected_sent \in U64 /\ a.expected_sent \in Nat
         /\ a.expected_sent = base.sent_amount
         /\ a.expected_sent < base.total_amount
         /\ a.expected_sent <= authorized
         /\ a.amount = base.chunk_amount /\ a.amount \in Nat /\ a.amount > 0
         /\ a.amount <= a.expected_sent
         /\ escrow = base.total_amount - (a.expected_sent - a.amount)
         /\ escrow' = base.total_amount - a.expected_sent
         /\ escrow' \in U64
         /\ transfers' \in [U64 -> Nat]
         /\ transfers' = [transfers EXCEPT ![a.expected_sent] = @ + 1]
         /\ UNCHANGED <<owner, base, open, purse, gifts>>
<1>1. /\ owner = "dlp" /\ a.expected_sent = base.sent_amount
      /\ a.expected_sent < base.total_amount
      /\ a.amount = base.chunk_amount /\ a.expected_sent >= a.amount
      /\ escrow = base.total_amount - (a.expected_sent - a.amount)
      /\ escrow' = escrow - a.amount
      /\ transfers' = [transfers EXCEPT ![a.expected_sent] = @ + 1]
      /\ UNCHANGED <<owner, base, open, purse, gifts>>
  BY DEF SettleChunk, CanSettle, Settles, EscrowBefore, Transferred
<1>2. /\ base \in StreamState /\ base.chunk_amount > 0 /\ base.sent_amount <= authorized
      /\ a.expected_sent \in U64 /\ transfers \in [U64 -> Nat]
  BY <1>1 DEF MInv, MTyped, BaseLinked, Linked, Action
<1>3. a.expected_sent \in Nat /\ a.amount \in Nat /\ transfers' \in [U64 -> Nat]
  BY <1>1, <1>2, StateFields
<1>4. escrow' = base.total_amount - a.expected_sent /\ escrow' \in U64
  <2>1. base.total_amount \in Nat /\ base.total_amount <= U64Max /\ U64Max \in Nat
    BY <1>2, StateFields
  <2>2. escrow' = base.total_amount - a.expected_sent
    BY <1>1, <1>3, <2>1
  <2>3. QED
    BY <1>1, <1>3, <2>1, <2>2 DEF U64
<1>5. QED
  BY <1>1, <1>2, <1>3, <1>4

\* finalize pays what is left, which is at most a chunk, and closes the account.
LEMMA FinalizeFacts ==
  ASSUME MInv, NEW a \in Action, Finalize(a)
  PROVE  /\ owner = "program" /\ base \in StreamState
         /\ a.expected_sent \in U64 /\ a.expected_sent \in Nat
         /\ a.expected_sent = base.total_amount
         /\ a.amount \in Nat /\ 0 < a.amount /\ a.amount <= base.chunk_amount
         /\ escrow = a.amount /\ escrow' = 0
         /\ transfers' \in [U64 -> Nat]
         /\ transfers' = [transfers EXCEPT ![a.expected_sent] = @ + 1]
         /\ owner' = "none" /\ base' = NoState
         /\ open' = open \ {"escrow"}
         /\ UNCHANGED <<purse, gifts>>
<1>1. /\ owner = "program" /\ a.expected_sent = base.total_amount
      /\ a.amount = final_chunk(base)
      /\ escrow = a.amount /\ escrow' = escrow - a.amount
      /\ transfers' = [transfers EXCEPT ![a.expected_sent] = @ + 1]
      /\ owner' = "none" /\ base' = NoState
      /\ open' = open \ {"escrow"}
      /\ UNCHANGED <<purse, gifts>>
  BY DEF Finalize, CanFinalize, Finalizes, Transferred
<1>2. /\ base \in StreamState /\ base.chunk_amount > 0
      /\ a.expected_sent \in U64 /\ transfers \in [U64 -> Nat]
  BY <1>1 DEF MInv, MTyped, BaseLinked, Action
<1>3. a.amount \in Nat /\ 0 < a.amount /\ a.amount <= base.chunk_amount
  BY <1>1, <1>2, FinalChunkFacts
<1>4. a.expected_sent \in Nat /\ transfers' \in [U64 -> Nat]
  BY <1>1, <1>2, StateFields
<1>5. escrow' = 0
  BY <1>1, <1>3
<1>6. QED
  BY <1>1, <1>2, <1>3, <1>4, <1>5

-----------------------------------------------------------------------------
(* Every step preserves the invariant *)

\* Calling an action, for the first time or again, takes no tokens that the
\* account does not have and leaves the data of both chains linked.
LEMMA CallStep ==
  ASSUME MInv, NEW a \in Action, Call(a),
         UNCHANGED <<intents, ervars>>,
         actions' \subseteq Action, delivered' \subseteq Action, faults' \in 0..MaxFaults
  PROVE  MInv'
<1>1. UNCHANGED <<intents, er, crank, authorized>>
  BY DEF ervars
<1>2. CASE SettleChunk(a)
  BY <1>1, <1>2, SettleFacts DEF MInv, MTyped, BaseLinked, RollupLinked
<1>3. CASE Finalize(a)
  <2>1. /\ owner = "program" /\ owner' = "none" /\ base' = NoState /\ escrow' = 0
        /\ open' = open \ {"escrow"} /\ transfers' \in [U64 -> Nat]
        /\ UNCHANGED <<purse, gifts>>
    BY <1>3, FinalizeFacts
  <2>2. 0 \in U64
    BY WidthAssumption DEF U64
  <2>3. MTyped'
    BY <1>1, <2>1, <2>2, NoStateTyped DEF MInv, MTyped, Owners
  <2>4. BaseLinked' /\ RollupLinked'
    BY <1>1, <2>1 DEF MInv, BaseLinked, RollupLinked
  <2>5. QED
    BY <2>3, <2>4 DEF MInv
<1>4. CASE UNCHANGED basevars
  BY <1>1, <1>4 DEF MInv, MTyped, BaseLinked, RollupLinked, basevars
<1>5. QED
  BY <1>2, <1>3, <1>4 DEF Call

\* Release in the rollup.
LEMMA ReleaseStep ==
  ASSUME MInv, Release, crank' \in Nat, faults' \in 0..MaxFaults
  PROVE  MInv'
<1> DEFINE next == Authorized(er)
           x    == [data |-> next, action |-> ActionOf(er), committed |-> FALSE]
<1>1. er.scheduled /\ er.active /\ er.sent_amount < er.total_amount
  BY DEF Release, Releases
<1>2. owner = "dlp" /\ Linked(er, base, authorized)
  BY <1>1, NoStateTyped DEF MInv, RollupLinked
<1>3. /\ er \in StreamState /\ base \in StreamState /\ authorized \in U64
      /\ er.chunk_amount > 0
  BY <1>2 DEF MInv, MTyped, BaseLinked, Linked
<1>4. /\ next \in StreamState /\ ActionOf(er) \in Action
      /\ next.total_amount = er.total_amount /\ next.chunk_amount = er.chunk_amount
      /\ next.sent_amount <= er.total_amount
      /\ next.active <=> next.sent_amount < er.total_amount
  BY <1>1, <1>3, AuthorizedFacts
<1> HIDE DEF next
<1>5. /\ er' = next /\ intents' = Append(intents, x)
      /\ authorized' = IF next.sent_amount > authorized THEN next.sent_amount ELSE authorized
      /\ UNCHANGED <<actions, delivered, basevars>>
  BY DEF Release, next
<1>6. authorized' \in U64 /\ authorized <= authorized' /\ next.sent_amount <= authorized'
  BY <1>3, <1>4, <1>5, StateFields, WidthAssumption DEF U64, StreamState
<1>7. Linked(next, base, authorized')
  BY <1>2, <1>4, <1>6 DEF Linked
<1>8. x \in LinkedIntents(base, authorized')
  BY <1>4, <1>7 DEF LinkedIntents, Intent
<1>9. intents \in Seq(LinkedIntents(base, authorized'))
  BY <1>2, <1>3, <1>6, LinkedOn DEF MInv, RollupLinked
<1> HIDE DEF x
<1>10. intents' \in Seq(LinkedIntents(base, authorized'))
  BY <1>5, <1>8, <1>9
<1>11. Linked(base, base, authorized')
  BY <1>2, <1>3, <1>6, LinkedOn DEF MInv, BaseLinked
<1>12. MTyped'
  BY <1>4, <1>5, <1>6, <1>10, QueueTyped DEF MInv, MTyped, basevars
<1>13. BaseLinked' /\ RollupLinked'
  BY <1>2, <1>5, <1>7, <1>10, <1>11 DEF MInv, BaseLinked, RollupLinked, basevars
<1>14. QED
  BY <1>12, <1>13 DEF MInv

\* A commit brings the account of the first intent to the base layer.
LEMMA CommitStep ==
  ASSUME MInv, intents # << >>, owner = "dlp", base' = Head(intents).data,
         \/ intents' = Tail(intents)
         \/ intents' = << [Head(intents) EXCEPT !.committed = TRUE] >> \o Tail(intents),
         actions' \subseteq Action,
         UNCHANGED <<delivered, owner, escrow, open, purse, gifts, transfers, ervars, faults>>
  PROVE  MInv'
<1>1. intents \in Seq(LinkedIntents(base, authorized))
  BY DEF MInv, RollupLinked
<1>2. /\ base' \in StreamState /\ Linked(base', base, authorized)
      /\ intents' \in Seq(LinkedIntents(base, authorized))
  BY <1>1, QueueHead
<1>3. UNCHANGED <<er, crank, authorized>>
  BY DEF ervars
<1>4. /\ base \in StreamState /\ authorized \in U64 /\ authorized <= authorized
      /\ er \in StreamState
      /\ base'.total_amount = base.total_amount /\ base'.chunk_amount = base.chunk_amount
  BY <1>2, WidthAssumption DEF MInv, MTyped, Linked, U64
<1>5. /\ \A st \in StreamState : Linked(st, base, authorized) => Linked(st, base', authorized)
      /\ intents' \in Seq(LinkedIntents(base', authorized))
  BY <1>2, <1>4, LinkedOn
<1>6. BaseLinked' /\ RollupLinked'
  BY <1>2, <1>3, <1>4, <1>5 DEF MInv, BaseLinked, RollupLinked
<1>7. MTyped'
  BY <1>2, <1>3, QueueTyped DEF MInv, MTyped
<1>8. QED
  BY <1>6, <1>7 DEF MInv

\* The new account is the whole deal, in the escrow, whoever owns it then.
LEMMA CreateStep ==
  ASSUME MInv, NEW total \in Totals, NEW chunk \in Chunks, NEW o \in {"program", "dlp"},
         Create(total, chunk, o)
  PROVE  MInv'
<1> DEFINE new == Initialized(total, chunk)
<1>1. /\ total \in U64 /\ chunk \in U64 /\ total # 0 /\ chunk # 0 /\ chunk <= total
      /\ owner = "none" /\ purse >= total
      /\ owner' = o /\ base' = new /\ purse' = purse - total /\ escrow' = total
      /\ gifts' = 0 /\ authorized' = 0 /\ transfers' = [e \in U64 |-> 0]
      /\ UNCHANGED <<open, er, crank, queues, faults>>
  BY MagicAssumption DEF Create
<1>2. total \in Nat /\ chunk \in Nat /\ purse' \in U64 /\ 0 \in U64
  BY <1>1, WidthAssumption DEF U64, MInv, MTyped
<1>3. /\ new \in StreamState /\ new.total_amount = total /\ new.chunk_amount = chunk
      /\ new.sent_amount = 0 /\ new.active
  BY <1>1, <1>2 DEF Initialized, StreamState
<1> HIDE DEF new
<1>4. Linked(new, new, 0)
  BY <1>1, <1>2, <1>3 DEF Linked
<1>5. BaseLinked' /\ RollupLinked'
  BY <1>1, <1>2, <1>3, <1>4 DEF MInv, BaseLinked, RollupLinked, queues
<1>6. MTyped'
  BY <1>1, <1>2, <1>3 DEF MInv, MTyped, Owners, queues
<1>7. QED
  BY <1>5, <1>6 DEF MInv

LEMMA NextMInv == MInv /\ [Next]_vars => MInv'
<1> SUFFICES ASSUME MInv, [Next]_vars PROVE MInv'
  OBVIOUS
<1>1. /\ base \in StreamState /\ er \in StreamState /\ authorized \in U64
      /\ escrow \in U64 /\ purse \in U64 /\ gifts \in Nat /\ crank \in Nat
      /\ faults \in 0..MaxFaults /\ MaxFaults \in Nat /\ U64Max \in Nat
      /\ actions \subseteq Action /\ delivered \subseteq Action
  BY MagicAssumption, WidthAssumption DEF MInv, MTyped
<1>2. \A kind : Fault(kind) => faults' \in 0..MaxFaults
  BY <1>1 DEF Fault
<1>3. ASSUME NEW total \in Totals, NEW chunk \in Chunks, Initialize(total, chunk) PROVE MInv'
  BY <1>3, CreateStep DEF Initialize
<1>4. CASE Delegate
  <2>1. /\ owner = "program" /\ owner' = "dlp" /\ er = NoState /\ intents = << >>
        /\ UNCHANGED <<base, escrow, open, purse, gifts, transfers, ervars, queues, faults>>
    BY <1>4 DEF Delegate, MInv, RollupLinked
  <2>2. << >> \in Seq(LinkedIntents(base, authorized))
    OBVIOUS
  <2>3. QED
    BY <2>1, <2>2 DEF MInv, MTyped, Owners, BaseLinked, RollupLinked, ervars, queues
<1>5. ASSUME NEW amount \in Gifts, StrayDeposit(amount) PROVE MInv'
  <2>1. amount \in Nat
    BY <1>1, MagicAssumption DEF U64
  <2>2. /\ escrow' \in U64 /\ gifts' \in Nat
        /\ UNCHANGED <<owner, base, open, purse, transfers, ervars, queues, faults>>
    BY <1>1, <1>5, <2>1 DEF StrayDeposit, U64
  <2>3. QED
    BY <2>2 DEF MInv, MTyped, BaseLinked, RollupLinked, ervars, queues
<1>6. ASSUME NEW a \in {"escrow", "destination"}, CreateTokenAccount(a) PROVE MInv'
  BY <1>6 DEF CreateTokenAccount, MInv, MTyped, BaseLinked, RollupLinked, ervars, queues
<1>7. CASE CloseDestination
  BY <1>7 DEF CloseDestination, MInv, MTyped, BaseLinked, RollupLinked, ervars, queues
<1>8. CASE Clone
  <2>1. /\ owner = "dlp" /\ er' = base
        /\ UNCHANGED <<crank, authorized, basevars, queues, faults>>
    BY <1>8 DEF Clone
  <2>2. QED
    BY <1>1, <2>1 DEF MInv, MTyped, BaseLinked, RollupLinked, basevars, queues
<1>9. CASE Schedule
  <2>1. /\ er.active /\ remaining_iterations(er) # Err
        /\ er' = [er EXCEPT !.scheduled = TRUE] /\ crank' = remaining_iterations(er)
        /\ UNCHANGED <<authorized, basevars, queues, faults>>
    BY <1>9 DEF Schedule, CanSchedule
  <2>2. crank' \in Nat
    BY <1>1, <2>1, IterationFacts
  <2>3. Linked(er, base, authorized) /\ owner = "dlp"
    BY <2>1, NoStateTyped DEF MInv, RollupLinked
  <2>4. er' \in StreamState /\ Linked(er', base, authorized)
    BY <1>1, <2>1, <2>3 DEF StreamState, Linked
  <2>5. QED
    BY <2>1, <2>2, <2>3, <2>4 DEF MInv, MTyped, BaseLinked, RollupLinked, basevars, queues
<1>10. CASE CrankTick
  <2>1. crank' \in Nat /\ faults' \in 0..MaxFaults
    BY <1>1, <1>10 DEF CrankTick
  <2>2. CASE Release
    BY <2>1, <2>2, ReleaseStep
  <2>3. CASE UNCHANGED <<er, authorized, basevars, queues, faults>>
    BY <2>1, <2>3 DEF MInv, MTyped, BaseLinked, RollupLinked, basevars, queues
  <2>4. QED
    BY <1>10, <2>2, <2>3 DEF CrankTick
<1>11. CASE CommitChunk
  <2>1. Head(intents).action \in Action
    BY <1>11, QueueHead DEF CommitChunk, MInv, RollupLinked
  <2>2. QED
    BY <1>1, <1>11, <2>1, CommitStep DEF CommitChunk
<1>12. CASE CommitFinal
  BY <1>1, <1>12, CommitStep DEF CommitFinal
<1>13. CASE UndelegateCallback
  <2>1. /\ intents # << >> /\ owner = "dlp" /\ owner' = "program" /\ er' = NoState
        /\ crank' = 0 /\ intents' = << >>
        /\ actions' = actions \cup {Head(intents).action}
        /\ UNCHANGED <<delivered, base, escrow, open, purse, gifts, transfers, authorized,
                       faults>>
    BY <1>13 DEF UndelegateCallback
  <2>2. actions' \subseteq Action
    BY <1>1, <2>1, QueueHead DEF MInv, RollupLinked
  <2>3. intents' \in Seq(Intent)
    BY <2>1
  <2>4. MTyped'
    BY <2>1, <2>2, <2>3, NoStateTyped DEF MInv, MTyped, Owners
  <2>5. QED
    BY <2>1, <2>4 DEF MInv, BaseLinked, RollupLinked
<1>14. ASSUME NEW a \in actions, Deliver(a) PROVE MInv'
  <2>1. /\ a \in Action /\ actions' \subseteq Action /\ delivered' \subseteq Action
        /\ Call(a) /\ UNCHANGED <<intents, ervars>> /\ faults' \in 0..MaxFaults
    BY <1>1, <1>14 DEF Deliver
  <2>2. QED
    BY <2>1, CallStep
<1>15. CASE LoseTick
  <2>1. crank > 0 /\ crank' = crank - 1 /\ UNCHANGED <<er, authorized, basevars, queues>>
    BY <1>15 DEF LoseTick
  <2>2. faults' \in 0..MaxFaults
    BY <1>2, <1>15 DEF LoseTick
  <2>3. crank' \in Nat
    BY <1>1, <2>1
  <2>4. QED
    BY <2>1, <2>2, <2>3 DEF MInv, MTyped, BaseLinked, RollupLinked, basevars, queues
<1>16. CASE ExtraTick
  <2>1. Release /\ crank' \in Nat /\ faults' \in 0..MaxFaults
    BY <1>1, <1>2, <1>16 DEF ExtraTick
  <2>2. QED
    BY <2>1, ReleaseStep
<1>17. CASE Restart
  <2>1. /\ er # NoState /\ er' = NoState /\ crank' = 0 /\ intents' \in {intents, << >>}
        /\ UNCHANGED <<actions, delivered, authorized, basevars>>
    BY <1>17 DEF Restart
  <2>2. faults' \in 0..MaxFaults
    BY <1>2, <1>17 DEF Restart
  <2>3. owner = "dlp"
    BY <2>1 DEF MInv, RollupLinked
  <2>4. intents' \in Seq(LinkedIntents(base, authorized)) /\ intents' \in Seq(Intent)
    <3>1. /\ intents \in Seq(LinkedIntents(base, authorized))
          /\ << >> \in Seq(LinkedIntents(base, authorized))
      BY <2>3 DEF MInv, RollupLinked
    <3>2. intents' \in Seq(LinkedIntents(base, authorized))
      BY <2>1, <3>1
    <3>3. QED
      BY <3>2, QueueTyped
  <2>5. MTyped'
    BY <2>1, <2>2, <2>4, NoStateTyped DEF MInv, MTyped, basevars
  <2>6. BaseLinked' /\ RollupLinked'
    BY <2>1, <2>3, <2>4 DEF MInv, BaseLinked, RollupLinked, basevars
  <2>7. QED
    BY <2>5, <2>6 DEF MInv
<1>18. ASSUME NEW a \in actions, LoseAction(a) PROVE MInv'
  <2>1. /\ actions' \subseteq Action /\ delivered' \subseteq Action
        /\ UNCHANGED <<intents, basevars, ervars>>
    BY <1>1, <1>18 DEF LoseAction
  <2>2. faults' \in 0..MaxFaults
    BY <1>2, <1>18 DEF LoseAction
  <2>3. QED
    BY <2>1, <2>2 DEF MInv, MTyped, BaseLinked, RollupLinked, basevars, ervars
<1>19. ASSUME NEW a \in delivered, Redeliver(a) PROVE MInv'
  <2>1. /\ a \in Action /\ actions' \subseteq Action /\ delivered' \subseteq Action
        /\ Call(a) /\ UNCHANGED <<intents, ervars>>
    BY <1>1, <1>19 DEF Redeliver, queues
  <2>2. faults' \in 0..MaxFaults
    BY <1>2, <1>19 DEF Redeliver
  <2>3. QED
    BY <2>1, <2>2, CallStep
<1>20. CASE UNCHANGED vars
  BY <1>20 DEF vars, MInv, MTyped, BaseLinked, RollupLinked, basevars, ervars, queues
<1>21. QED
  BY <1>3, <1>4, <1>5, <1>6, <1>7, <1>8, <1>9, <1>10, <1>11, <1>12, <1>13, <1>14, <1>15,
     <1>16, <1>17, <1>18, <1>19, <1>20
     DEF Next, Sender, Tokens, Rollup, Committor, FaultyStep

-----------------------------------------------------------------------------
(* What a step does to the deal and its tokens *)

\* The deal is the same, nothing is paid out, and more may be authorized.
DealKept ==
  /\ owner = "none" <=> owner' = "none"
  /\ base'.total_amount = base.total_amount
  /\ base'.chunk_amount = base.chunk_amount
  /\ authorized <= authorized'
  /\ UNCHANGED transfers

\* Moreover, the escrow changes only by what somebody puts into it.
Unpaid ==
  /\ DealKept
  /\ \/ UNCHANGED <<escrow, gifts>>
     \/ \E amount \in Gifts : escrow' = escrow + amount /\ gifts' = gifts + amount

\* The rollup, the committor and their faults either call a handler that pays
\* or do not touch the escrow.
LEMMA ChainSteps ==
  ASSUME MInv, Rollup \/ Committor \/ FaultyStep \/ UNCHANGED vars
  PROVE  \/ \E a \in Action : SettleChunk(a) /\ UNCHANGED authorized
         \/ \E a \in Action : Finalize(a) /\ UNCHANGED authorized
         \/ DealKept /\ UNCHANGED <<escrow, gifts>>
<1> DEFINE Idle == DealKept /\ UNCHANGED <<escrow, gifts>>
           Pays == \/ \E a \in Action : SettleChunk(a) /\ UNCHANGED authorized
                   \/ \E a \in Action : Finalize(a) /\ UNCHANGED authorized
                   \/ Idle
<1>1. /\ base \in StreamState /\ authorized \in Nat
      /\ er \in StreamState /\ actions \subseteq Action /\ delivered \subseteq Action
  BY WidthAssumption DEF MInv, MTyped, U64
<1>2. CASE UNCHANGED <<basevars, authorized>>
  BY <1>1, <1>2 DEF basevars, DealKept
<1>3. ASSUME NEW a \in Action, Call(a), UNCHANGED ervars PROVE Pays
  <2>1. UNCHANGED authorized
    BY <1>3 DEF ervars
  <2>2. ASSUME UNCHANGED basevars PROVE Idle
    BY <1>1, <2>1, <2>2 DEF basevars, DealKept
  <2>3. QED
    BY <1>3, <2>1, <2>2 DEF Call
<1>4. ASSUME Release PROVE Idle
  <2>1. UNCHANGED basevars
    BY <1>4 DEF Release
  <2>2. authorized <= authorized'
    <3>1. er.sent_amount < er.total_amount /\ er.scheduled
      BY <1>4 DEF Release, Releases
    <3>2. Linked(er, base, authorized) /\ owner = "dlp"
      BY <3>1, NoStateTyped DEF MInv, RollupLinked
    <3>3. er.chunk_amount > 0
      BY <3>2 DEF Linked, MInv, BaseLinked
    <3>4. Authorized(er).sent_amount \in Nat
      BY <1>1, <3>1, <3>3, AuthorizedFacts, StateFields
    <3>5. authorized' = IF Authorized(er).sent_amount > authorized
                          THEN Authorized(er).sent_amount ELSE authorized
      BY <1>4 DEF Release
    <3>6. QED
      BY <1>1, <3>4, <3>5
  <2>3. QED
    BY <2>1, <2>2 DEF basevars, DealKept
<1>5. ASSUME intents # << >>, owner = "dlp", base' = Head(intents).data
      PROVE  base'.total_amount = base.total_amount /\ base'.chunk_amount = base.chunk_amount
  BY <1>5, QueueHead DEF MInv, RollupLinked, Linked
<1>6. CASE Rollup
  <2>1. CASE Clone \/ Schedule
    BY <1>2, <2>1 DEF Clone, Schedule
  <2>2. CASE CrankTick
    BY <1>2, <1>4, <2>2 DEF CrankTick
  <2>3. QED
    BY <1>6, <2>1, <2>2 DEF Rollup
<1>7. CASE Committor
  <2>1. ASSUME CommitChunk \/ CommitFinal PROVE Idle
    <3>1. /\ intents # << >> /\ owner = "dlp" /\ base' = Head(intents).data
          /\ UNCHANGED <<owner, escrow, gifts, transfers, authorized>>
      BY <2>1 DEF CommitChunk, CommitFinal, ervars
    <3>2. QED
      BY <1>1, <1>5, <3>1 DEF DealKept
  <2>2. ASSUME UndelegateCallback PROVE Idle
    BY <1>1, <2>2 DEF UndelegateCallback, DealKept
  <2>3. ASSUME NEW a \in actions, Deliver(a) PROVE Pays
    BY <1>1, <1>3, <2>3 DEF Deliver
  <2>4. QED
    BY <1>7, <2>1, <2>2, <2>3 DEF Committor
<1>8. CASE FaultyStep
  <2>1. CASE LoseTick \/ Restart
    BY <1>2, <2>1 DEF LoseTick, Restart
  <2>2. CASE ExtraTick
    BY <1>4, <2>2 DEF ExtraTick
  <2>3. ASSUME NEW a \in actions, LoseAction(a) PROVE UNCHANGED <<basevars, authorized>>
    BY <2>3 DEF LoseAction, ervars
  <2>4. ASSUME NEW a \in delivered, Redeliver(a) PROVE Pays
    BY <1>1, <1>3, <2>4 DEF Redeliver
  <2>5. QED
    BY <1>2, <1>8, <2>1, <2>2, <2>3, <2>4 DEF FaultyStep
<1>9. CASE UNCHANGED vars
  BY <1>2, <1>9 DEF vars, ervars
<1>10. QED
  BY <1>6, <1>7, <1>8, <1>9

\* A step initializes a stream, pays, or keeps the deal.
LEMMA PaymentSteps ==
  ASSUME MInv, [Next]_vars
  PROVE  \/ \E total \in Totals, chunk \in Chunks : Initialize(total, chunk)
         \/ \E a \in Action : SettleChunk(a) /\ UNCHANGED authorized
         \/ \E a \in Action : Finalize(a) /\ UNCHANGED authorized
         \/ Unpaid
<1>1. base \in StreamState /\ authorized \in Nat
  BY WidthAssumption DEF MInv, MTyped, U64
<1>2. CASE Rollup \/ Committor \/ FaultyStep \/ UNCHANGED vars
  BY <1>2, ChainSteps DEF Unpaid
<1>3. CASE Sender
  <2>1. ASSUME Delegate PROVE Unpaid
    BY <1>1, <2>1 DEF Delegate, Unpaid, DealKept, ervars
  <2>2. QED
    BY <1>3, <2>1 DEF Sender
<1>4. CASE Tokens
  BY <1>1, <1>4
     DEF Tokens, StrayDeposit, CreateTokenAccount, CloseDestination, Unpaid, DealKept, ervars
<1>5. QED
  BY <1>2, <1>3, <1>4 DEF Next

-----------------------------------------------------------------------------
(* Theorems *)

\* In every reachable state, the data that the two chains and the committor
\* hold of the stream is of one deal and within what release has authorized.
THEOREM MagicInvariance == Spec => []MInv
<1>1. Init => MInv
  BY InitMInv
<1>2. MInv /\ [Next]_vars => MInv'
  BY NextMInv
<1>3. QED
  BY <1>1, <1>2, PTL DEF Spec

\* The variables keep their types: neither the escrow nor the amounts of the
\* account go below 0 or above u64, and no account has sent more than its total.
THEOREM MagicTypes == Spec => []MTypeOK
<1>1. MInv => MTypeOK
  <2> SUFFICES ASSUME MInv PROVE MTypeOK
    OBVIOUS
  <2>1. MTyped /\ base \in StreamState /\ er \in StreamState /\ owner \in Owners
    BY DEF MInv, MTyped
  <2>2. \A st \in StreamState : st.sent_amount <= st.total_amount => remaining(st) # Err
    BY StateFields DEF remaining, Err
  <2>3. owner # "none" => base.sent_amount <= base.total_amount
    BY DEF MInv, BaseLinked, Linked
  <2>4. er.sent_amount <= er.total_amount
    BY <2>1 DEF MInv, RollupLinked, Linked, NoState, Owners
  <2>5. QED
    BY <2>1, <2>2, <2>3, <2>4 DEF MTypeOK
<1>2. QED
  BY <1>1, MagicInvariance, PTL

\* Through lost, late and repeated actions, deposits and restarts, the escrow
\* keeps what no release has authorized.
THEOREM EscrowSolvent == Spec => []UnauthorizedStays
<1>1. Init => UnauthorizedStays
  BY DEF Init, UnauthorizedStays
<1>2. ASSUME MInv, UnauthorizedStays, [Next]_vars PROVE UnauthorizedStays'
  <2>1. /\ base.total_amount \in Nat /\ authorized \in Nat /\ escrow \in Nat
        /\ authorized' \in Nat
    BY <1>2, NextMInv, StateFields, WidthAssumption DEF MInv, MTyped, U64
  <2>2. ASSUME NEW total \in Totals, NEW chunk \in Chunks, Initialize(total, chunk)
        PROVE  UnauthorizedStays'
    <3>1. escrow' = total /\ base'.total_amount = total /\ authorized' = 0 /\ total \in Nat
      BY <2>2, MagicAssumption, WidthAssumption DEF Initialize, Create, Initialized, U64
    <3>2. QED
      BY <3>1 DEF UnauthorizedStays
  <2>3. ASSUME NEW a \in Action, SettleChunk(a), UNCHANGED authorized
        PROVE  UnauthorizedStays'
    <3>1. /\ escrow' = base.total_amount - a.expected_sent
          /\ a.expected_sent <= authorized /\ a.expected_sent \in Nat
          /\ UNCHANGED <<owner, base>>
      BY <1>2, <2>3, SettleFacts
    <3>2. QED
      BY <2>1, <2>3, <3>1 DEF UnauthorizedStays
  <2>4. ASSUME NEW a \in Action, Finalize(a) PROVE UnauthorizedStays'
    BY <2>4 DEF Finalize, UnauthorizedStays
  <2>5. CASE Unpaid
    <3>1. ASSUME NEW amount \in Gifts, escrow' = escrow + amount PROVE escrow' >= escrow
      BY <2>1, <3>1, MagicAssumption, WidthAssumption DEF U64
    <3>2. escrow' >= escrow /\ escrow' \in Int
      <4>1. escrow' \in Int
        BY <1>2, NextMInv, WidthAssumption DEF MInv, MTyped, U64
      <4>2. escrow' >= escrow
        BY <2>1, <2>5, <3>1 DEF Unpaid
      <4>3. QED
        BY <4>1, <4>2
    <3>3. QED
      BY <1>2, <2>1, <2>5, <3>2 DEF Unpaid, DealKept, UnauthorizedStays
  <2>6. QED
    BY <1>2, <2>2, <2>3, <2>4, <2>5, PaymentSteps
<1>3. QED
  BY <1>1, <1>2, MagicInvariance, PTL DEF Spec

\* The replay guard: once the chunk that ends at e has been paid, the escrow is
\* too low for it, and only a deposit could raise it again.
PaidOut ==
  gifts = 0 =>
    \A e \in U64 :
      /\ transfers[e] <= 1
      /\ owner # "none" /\ transfers[e] # 0 => escrow <= base.total_amount - e

\* An action moves its tokens once, however often it is called and even if its
\* chunk is authorized again, unless somebody pays into the escrow.
THEOREM TransfersOnce == Spec => []ActionTransfersOnce
<1>1. Init => PaidOut
  BY DEF Init, PaidOut
<1>2. ASSUME MInv, PaidOut, [Next]_vars PROVE PaidOut'
  <2>1. /\ base \in StreamState /\ base.total_amount \in Nat /\ escrow \in Nat
        /\ gifts \in Nat /\ transfers \in [U64 -> Nat] /\ \A e \in U64 : e \in Nat
    BY <1>2, StateFields, WidthAssumption DEF MInv, MTyped, U64
  <2>2. ASSUME NEW total \in Totals, NEW chunk \in Chunks, Initialize(total, chunk)
        PROVE  PaidOut'
    BY <2>2 DEF Initialize, Create, PaidOut
  <2>3. ASSUME NEW a \in Action, SettleChunk(a) PROVE PaidOut'
    <3> DEFINE s == a.expected_sent
    <3>1. /\ owner = "dlp" /\ s \in U64 /\ s \in Nat /\ s <= base.total_amount
          /\ a.amount \in Nat /\ a.amount > 0 /\ a.amount <= s
          /\ escrow = base.total_amount - (s - a.amount)
          /\ escrow' = base.total_amount - s
          /\ transfers' = [transfers EXCEPT ![s] = @ + 1]
          /\ UNCHANGED <<owner, base, gifts>>
      BY <1>2, <2>1, <2>3, SettleFacts
    <3> HIDE DEF s
    <3>2. ASSUME gifts = 0, NEW e \in U64
          PROVE  transfers'[e] <= 1 /\ (transfers'[e] # 0 => escrow' <= base.total_amount - e)
      <4>1. transfers[e] # 0 => escrow <= base.total_amount - e
        BY <1>2, <3>1, <3>2 DEF PaidOut
      <4>2. CASE e = s
        BY <2>1, <3>1, <4>1, <4>2
      <4>3. CASE e # s
        BY <1>2, <2>1, <3>1, <3>2, <4>1, <4>3 DEF PaidOut
      <4>4. QED
        BY <4>2, <4>3
    <3>3. QED
      BY <3>1, <3>2 DEF PaidOut
  <2>4. ASSUME NEW a \in Action, Finalize(a) PROVE PaidOut'
    <3> DEFINE s == a.expected_sent
    <3>1. /\ owner = "program" /\ s \in U64 /\ s = base.total_amount
          /\ escrow > 0 /\ owner' = "none"
          /\ transfers' = [transfers EXCEPT ![s] = @ + 1]
          /\ UNCHANGED gifts
      BY <1>2, <2>4, FinalizeFacts
    <3> HIDE DEF s
    <3>2. ASSUME gifts = 0, NEW e \in U64 PROVE transfers'[e] <= 1
      <4>1. transfers[s] = 0
        BY <1>2, <2>1, <3>1, <3>2 DEF PaidOut
      <4>2. QED
        BY <1>2, <2>1, <3>1, <3>2, <4>1 DEF PaidOut
    <3>3. QED
      BY <3>1, <3>2 DEF PaidOut
  <2>5. CASE Unpaid
    <3>1. CASE UNCHANGED <<escrow, gifts>>
      BY <1>2, <2>5, <3>1 DEF Unpaid, DealKept, PaidOut
    <3>2. ASSUME NEW amount \in Gifts, gifts' = gifts + amount PROVE PaidOut'
      <4>1. gifts' # 0
        BY <2>1, <3>2, MagicAssumption, WidthAssumption DEF U64
      <4>2. QED
        BY <4>1 DEF PaidOut
    <3>3. QED
      BY <2>5, <3>1, <3>2 DEF Unpaid
  <2>6. QED
    BY <1>2, <2>2, <2>3, <2>4, <2>5, PaymentSteps
<1>3. PaidOut => ActionTransfersOnce
  BY DEF PaidOut, ActionTransfersOnce
<1>4. QED
  BY <1>1, <1>2, <1>3, MagicInvariance, PTL DEF Spec

-----------------------------------------------------------------------------
(* Refinement *)

\* Without deposits by others there are no gifts to account for.
LEMMA NoGifts == ASSUME Gifts = {} PROVE Spec => [](gifts = 0)
<1>1. Init => gifts = 0
  BY DEF Init
<1>2. MInv /\ gifts = 0 /\ [Next]_vars => (gifts = 0)'
  BY PaymentSteps DEF Initialize, Create, SettleChunk, Finalize, Unpaid
<1>3. QED
  BY <1>1, <1>2, MagicInvariance, PTL DEF Spec

\* The deal that the two chains' accounts amount to.
DealOf == [s \in {"stream"} |-> Deal]

\* What initialization, the two handlers that pay, and everything else make of
\* the deal, as long as there are no gifts to account for.
LEMMA DealSteps ==
  ASSUME MInv, gifts = 0, gifts' = 0
  PROVE  /\ \A total \in Totals, chunk \in Chunks, o \in {"program", "dlp"} :
              Create(total, chunk, o) => Abstract!Next
         /\ \A a \in Action : SettleChunk(a) \/ Finalize(a) => Abstract!Next
         /\ Unpaid => UNCHANGED DealOf
<1> DEFINE deal == [s \in {"stream"} |-> Deal]
<1>1. /\ base \in StreamState /\ base.total_amount \in Nat /\ base.chunk_amount \in Nat
      /\ escrow \in Nat
  BY StateFields, WidthAssumption DEF MInv, MTyped, U64
<1>2. /\ owner # "none" => Deal = [ total |-> base.total_amount,
                                    chunk |-> base.chunk_amount,
                                    paid  |-> base.total_amount - escrow ]
      /\ owner = "none" => Deal = Abstract!NoDeal
  BY <1>1 DEF Deal, Abstract!NoDeal
<1>3. deal["stream"] = Deal
  OBVIOUS
<1>4. ASSUME NEW total \in Totals, NEW chunk \in Chunks, NEW o \in {"program", "dlp"},
             Create(total, chunk, o)
      PROVE  Abstract!Next
  <2> DEFINE d == [total |-> total, chunk |-> chunk, paid |-> 0]
  <2>1. /\ owner = "none" /\ owner' # "none" /\ escrow' = total
        /\ base'.total_amount = total /\ base'.chunk_amount = chunk
        /\ total \in 1..U64Max /\ chunk \in 1..U64Max
    BY <1>4, MagicAssumption, WidthAssumption DEF Create, Initialized, U64
  <2>2. Deal' = d
    BY <2>1 DEF Deal
  <2>3. deal' = [deal EXCEPT !["stream"] = d]
    BY <2>2
  <2>4. Abstract!Fund("stream")
    BY <1>2, <1>3, <2>1, <2>3 DEF Abstract!Fund
  <2>5. QED
    BY <2>4 DEF Abstract!Next
<1>5. ASSUME NEW a \in Action, SettleChunk(a) PROVE Abstract!Next
  <2> DEFINE total  == base.total_amount
             paid   == base.total_amount - escrow
             amount == a.amount
  <2>1. /\ owner = "dlp" /\ amount \in Nat /\ amount > 0 /\ amount = base.chunk_amount
        /\ escrow > amount /\ escrow' = escrow - amount
        /\ UNCHANGED <<owner, base, gifts>>
    <3>1. /\ owner = "dlp" /\ a.expected_sent \in Nat /\ a.expected_sent < base.total_amount
          /\ a.amount \in Nat /\ a.amount > 0 /\ a.amount = base.chunk_amount
          /\ escrow = base.total_amount - (a.expected_sent - a.amount)
          /\ escrow' = base.total_amount - a.expected_sent
          /\ UNCHANGED <<owner, base, gifts>>
      BY <1>5, SettleFacts
    <3>2. QED
      BY <1>1, <3>1
  <2>2. Deal = [total |-> total, chunk |-> amount, paid |-> paid]
    BY <1>2, <2>1
  <2> HIDE DEF amount
  <2>3. Deal' = [total |-> total, chunk |-> amount, paid |-> paid + amount]
    BY <1>1, <2>1 DEF Deal
  <2>4. total - paid = escrow /\ paid < total
    BY <1>1, <2>1
  <2>5. Abstract!Due(Deal) = amount
    BY <1>1, <2>1, <2>2, <2>4 DEF Abstract!Due
  <2> HIDE DEF total, paid
  <2>6. deal' = [deal EXCEPT !["stream"].paid = @ + Abstract!Due(deal["stream"])]
    BY <1>3, <2>2, <2>3, <2>5
  <2>7. Abstract!Pay("stream")
    BY <1>3, <2>2, <2>4, <2>6 DEF Abstract!Pay
  <2>8. QED
    BY <2>7 DEF Abstract!Next
<1>6. ASSUME NEW a \in Action, Finalize(a) PROVE Abstract!Next
  <2> DEFINE total == base.total_amount
             chunk == base.chunk_amount
             paid  == base.total_amount - escrow
  <2>1. /\ owner = "program" /\ owner' = "none"
        /\ escrow > 0 /\ escrow <= base.chunk_amount
    BY <1>6, FinalizeFacts
  <2>2. Deal = [total |-> total, chunk |-> chunk, paid |-> paid]
    BY <1>2, <2>1
  <2>3. Deal' = Abstract!NoDeal
    BY <2>1 DEF Deal, Abstract!NoDeal
  <2>4. total - paid = escrow /\ paid < total /\ paid + escrow = total
    BY <1>1, <2>1
  <2>5. Abstract!Due(Deal) = escrow
    BY <1>1, <2>1, <2>2, <2>4 DEF Abstract!Due
  <2> HIDE DEF total, chunk, paid
  <2>6. deal' = [deal EXCEPT !["stream"] = Abstract!NoDeal]
    BY <2>3
  <2>7. Abstract!PayAndRetire("stream")
    BY <1>3, <2>2, <2>4, <2>5, <2>6 DEF Abstract!PayAndRetire
  <2>8. QED
    BY <2>7 DEF Abstract!Next
<1>7. ASSUME Unpaid PROVE UNCHANGED deal
  <2>1. UNCHANGED escrow
    BY <1>7, MagicAssumption, WidthAssumption, <1>1 DEF Unpaid, U64
  <2>2. Deal' = Deal
    BY <1>7, <2>1 DEF Unpaid, DealKept, Deal
  <2>3. QED
    BY <2>2
<1>8. QED
  BY <1>4, <1>5, <1>6, <1>7 DEF DealOf

\* The two chains together fund a deal, pay its chunks one by one and retire it
\* with the last: whatever is lost, late, repeated or restarted, every step is
\* one of PaymentStream or none.
THEOREM MagicRefinement == ASSUME Gifts = {} PROVE Spec => ImplementsPaymentStream
<1>1. Init => Abstract!Init
  BY DEF Init, Abstract!Init, Abstract!NoDeal, Deal
<1>2. MInv /\ gifts = 0 /\ (gifts = 0)' /\ [Next]_vars
        => [Abstract!Next]_[s \in {"stream"} |-> Deal]
  BY PaymentSteps, DealSteps DEF Initialize, DealOf
<1>3. QED
  BY <1>1, <1>2, MagicInvariance, NoGifts, PTL
     DEF Spec, Abstract!Spec, ImplementsPaymentStream

\* What the promise amounts to, for the deals of this address.
Promise == INSTANCE PaymentStreamProofs
  WITH Streams <- {"stream"}, Amounts <- 1..U64Max, deal <- [s \in {"stream"} |-> Deal]

\* A recipient has been paid whole chunks, or everything, and never more.
THEOREM MagicPaysFullChunks == ASSUME Gifts = {} PROVE Spec => []Promise!InFullChunks
<1>1. 1..U64Max \subseteq Nat \ {0}
  OBVIOUS
<1>2. Promise!Spec => []Promise!InFullChunks
  BY <1>1, Promise!PaidInFullChunks
<1>3. Abstract!Init <=> Promise!Init
  BY DEF Abstract!Init, Promise!Init, Abstract!NoDeal, Promise!NoDeal
<1>4. Abstract!Next <=> Promise!Next
  BY DEF Abstract!Next, Promise!Next, Abstract!Fund, Promise!Fund, Abstract!Pay, Promise!Pay,
         Abstract!PayAndRetire, Promise!PayAndRetire, Abstract!Due, Promise!Due,
         Abstract!NoDeal, Promise!NoDeal
<1>5. QED
  BY <1>2, <1>3, <1>4, MagicRefinement, PTL
     DEF ImplementsPaymentStream, Abstract!Spec, Promise!Spec

-----------------------------------------------------------------------------
(* The task's iterations *)

\* Only the first intent of the queue may be committed and not finished, and
\* then it is a final one and the base layer shows the stream as inactive.
QueueSound ==
  /\ \A i \in 1..Len(intents) :
       /\ intents[i].action.kind = "finalize" => ~ intents[i].data.active
       /\ i > 1 => ~ intents[i].committed
  /\ intents # << >> /\ intents[1].committed => ~ base.active

\* What a step does to the committor's queue and the committed account.
LEMMA QueueSteps ==
  ASSUME MInv, QueueSound, [Next]_vars
  PROVE  QueueSound'
<1>1. intents \in Seq(Intent)
  BY DEF MInv, MTyped
<1>2. CASE UNCHANGED <<intents, base>>
  BY <1>2 DEF QueueSound
<1>3. ASSUME intents' = << >> PROVE QueueSound'
  BY <1>3 DEF QueueSound
<1>4. ASSUME Release PROVE QueueSound'
  <2> DEFINE x == [data |-> Authorized(er), action |-> ActionOf(er), committed |-> FALSE]
  <2>1. intents' = Append(intents, x) /\ base' = base
    BY <1>4 DEF Release, basevars
  <2>2. x.action.kind = "finalize" => ~ x.data.active
    BY DEF ActionOf
  <2>3. x.committed = FALSE
    OBVIOUS
  <2> HIDE DEF x
  <2>4. /\ Len(intents') = Len(intents) + 1 /\ Len(intents) \in Nat
        /\ \A i \in 1..Len(intents) : intents'[i] = intents[i]
        /\ intents'[Len(intents) + 1] = x
    BY <1>1, <2>1
  <2>5. intents # << >> => Len(intents) > 0
    BY <1>1
  <2>6. \A i \in 1..Len(intents') : i \in 1..Len(intents) \/ i = Len(intents) + 1
    BY <2>4
  <2>7. QED
    BY <2>1, <2>2, <2>3, <2>4, <2>5, <2>6 DEF QueueSound
<1>5. ASSUME intents # << >>, intents' = Tail(intents) PROVE QueueSound'
  <2>1. /\ Len(intents) \in Nat /\ Len(intents') = Len(intents) - 1
        /\ \A i \in 1..Len(intents') : intents'[i] = intents[i + 1]
    BY <1>1, <1>5, HeadTailProperties
  <2>2. \A i \in 1..Len(intents') : i + 1 \in 1..Len(intents) /\ i + 1 > 1
    BY <2>1
  <2>3. intents' \in Seq(Intent) /\ (intents' # << >> => 1 \in 1..Len(intents'))
    BY <1>1, <1>5, HeadTailProperties
  <2>4. QED
    BY <2>1, <2>2, <2>3 DEF QueueSound
<1>6. ASSUME CommitFinal PROVE QueueSound'
  <2> DEFINE h == Head(intents)
             x == [h EXCEPT !.committed = TRUE]
  <2>1. /\ intents # << >> /\ h.action.kind = "finalize" /\ base' = h.data
        /\ intents' = << x >> \o Tail(intents)
    BY <1>6 DEF CommitFinal
  <2>2. /\ h = intents[1] /\ Tail(intents) \in Seq(Intent) /\ h \in Intent
        /\ Len(intents) \in Nat /\ Len(intents) > 0
        /\ Len(Tail(intents)) = Len(intents) - 1
        /\ \A i \in 1..Len(Tail(intents)) : Tail(intents)[i] = intents[i + 1]
    BY <1>1, <2>1, HeadTailProperties
  <2>3. ~ h.data.active
    BY <2>1, <2>2 DEF QueueSound
  <2>4. x \in Intent /\ x.data = h.data /\ x.action = h.action
    BY <2>2 DEF Intent
  <2> HIDE DEF h, x
  <2>5. << x >> \in Seq(Intent) /\ Len(<< x >>) = 1 /\ << x >>[1] = x
    BY <2>4
  <2>6. /\ Len(intents') = Len(intents)
        /\ intents'[1] = x
        /\ \A i \in 2..Len(intents) : intents'[i] = intents[i]
    <3>1. /\ Len(intents') = 1 + Len(Tail(intents))
          /\ \A i \in 1..1 + Len(Tail(intents)) :
               intents'[i] = IF i <= 1 THEN << x >>[i] ELSE Tail(intents)[i - 1]
      BY <2>1, <2>2, <2>5, ConcatProperties
    <3>2. \A i \in 2..Len(intents) : i - 1 \in 1..Len(Tail(intents)) /\ (i - 1) + 1 = i
      BY <2>2
    <3>3. QED
      BY <2>2, <2>5, <3>1, <3>2
  <2>7. \A i \in 1..Len(intents') : i = 1 \/ i \in 2..Len(intents)
    BY <2>2, <2>6
  <2>8. \A i \in 2..Len(intents) : i \in 1..Len(intents)
    BY <2>2
  <2>9. QED
    BY <2>1, <2>3, <2>4, <2>6, <2>7, <2>8 DEF QueueSound
<1>7. ASSUME NEW a \in Action, Call(a), UNCHANGED intents PROVE QueueSound'
  <2>1. CASE SettleChunk(a) \/ UNCHANGED basevars
    BY <1>2, <1>7, <2>1 DEF SettleChunk, basevars
  <2>2. ASSUME Finalize(a) PROVE intents' = << >>
    BY <1>7, <2>2 DEF Finalize, CanFinalize, Finalizes, MInv, RollupLinked
  <2>3. QED
    BY <1>3, <1>7, <2>1, <2>2 DEF Call
<1>8. actions \subseteq Action /\ delivered \subseteq Action
  BY DEF MInv, MTyped
<1>9. CASE Sender
  <2>1. ASSUME NEW total \in Totals, NEW chunk \in Chunks, Initialize(total, chunk)
        PROVE  intents' = << >>
    BY <2>1 DEF Initialize, Create, MInv, RollupLinked, queues
  <2>2. CASE Delegate
    BY <1>2, <2>2 DEF Delegate, queues
  <2>3. QED
    BY <1>3, <1>9, <2>1, <2>2 DEF Sender
<1>10. CASE Tokens
  BY <1>2, <1>10 DEF Tokens, StrayDeposit, CreateTokenAccount, CloseDestination, queues
<1>11. CASE Rollup
  BY <1>2, <1>4, <1>11 DEF Rollup, Clone, Schedule, CrankTick, queues, basevars
<1>12. CASE Committor
  BY <1>3, <1>5, <1>6, <1>7, <1>8, <1>12
     DEF Committor, CommitChunk, UndelegateCallback, Deliver
<1>13. CASE FaultyStep
  <2>1. ASSUME Restart PROVE intents' = << >> \/ UNCHANGED <<intents, base>>
    BY <2>1 DEF Restart, basevars
  <2>2. ASSUME LoseTick \/ \E a \in actions : LoseAction(a) PROVE UNCHANGED <<intents, base>>
    BY <2>2 DEF LoseTick, LoseAction, queues, basevars
  <2>3. ASSUME NEW a \in delivered, Redeliver(a) PROVE QueueSound'
    BY <1>7, <1>8, <2>3 DEF Redeliver, queues
  <2>4. ASSUME ExtraTick PROVE QueueSound'
    BY <1>4, <2>4 DEF ExtraTick
  <2>5. QED
    BY <1>2, <1>3, <1>13, <2>1, <2>2, <2>3, <2>4 DEF FaultyStep
<1>14. CASE UNCHANGED vars
  BY <1>2, <1>14 DEF vars, queues, basevars
<1>15. QED
  BY <1>9, <1>10, <1>11, <1>12, <1>13, <1>14 DEF Next

LEMMA QueueInvariance == Spec => []QueueSound
<1>1. Init => QueueSound
  BY DEF Init, QueueSound
<1>2. MInv /\ QueueSound /\ [Next]_vars => QueueSound'
  BY QueueSteps
<1>3. QED
  BY <1>1, <1>2, MagicInvariance, PTL DEF Spec

\* The first element of a sequence.
LEMMA FirstOfQueue == ASSUME NEW S, NEW q \in Seq(S), q # << >> PROVE Head(q) = q[1]
OBVIOUS

\* The rollup's copy goes with its queue, and an account that the rollup does
\* not have yet is not scheduled: a task is only ever given to a copy whose
\* remaining iterations have just been counted.
CrankSound ==
  /\ CrankExact
  /\ intents # << >> => er # NoState
  /\ owner = "dlp" /\ er = NoState => ~ base.scheduled
  /\ owner = "program" /\ base.active => ~ base.scheduled

\* One chunk of c out of r that remain, with n iterations left to authorize it.
LEMMA OneIteration ==
  ASSUME NEW n \in Nat, NEW c \in Nat, NEW r \in Nat,
         n > 0, c > 0, n * c >= r, n * c < r + c
  PROVE  /\ r > 0
         /\ (n - 1) * c >= r - Lesser(r, c)
         /\ (n - 1) * c < (r - Lesser(r, c)) + c
<1> DEFINE p == n * c
           q == (n - 1) * c
<1>1. p \in Nat /\ q \in Nat /\ p = q + c
  OBVIOUS
<1>2. r > 0
  BY <1>1
<1>3. CASE r > c
  BY <1>1, <1>2, <1>3 DEF Lesser
<1>4. CASE r <= c
  <2>1. n = 1
    <3> SUFFICES ASSUME n > 1 PROVE FALSE
      OBVIOUS
    <3>1. q = (n - 2) * c + c /\ (n - 2) * c >= 0
      OBVIOUS
    <3>2. QED
      BY <1>1, <1>4, <3>1
  <2>2. q = 0 /\ Lesser(r, c) = r
    BY <1>4, <2>1 DEF Lesser
  <2>3. QED
    BY <1>2, <2>2
<1>5. QED
  BY <1>3, <1>4

\* A step of the crank that is neither lost nor made up keeps the count.
LEMMA TickStep ==
  ASSUME MInv, CrankSound, CrankTick
  PROVE  CrankSound'
<1>1. crank \in Nat /\ crank > 0 /\ crank' = crank - 1
  BY DEF CrankTick, MInv, MTyped
<1>2. CASE ~ er.scheduled
  BY <1>1, <1>2
     DEF CrankTick, Release, Releases, CrankSound, CrankExact, basevars, queues
<1>3. CASE er.scheduled
  <2> DEFINE c == er.chunk_amount
             r == er.total_amount - er.sent_amount
  <2>1. owner = "dlp" /\ Linked(er, base, authorized)
    BY <1>3, NoStateTyped DEF MInv, RollupLinked
  <2>2. /\ er \in StreamState /\ c \in Nat /\ c > 0 /\ r \in Nat
        /\ er.sent_amount <= er.total_amount
        /\ er.active <=> er.sent_amount < er.total_amount
        /\ remaining(er) = r
    BY <2>1, StateFields DEF MInv, MTyped, BaseLinked, Linked, remaining
  <2>3. crank * c >= r /\ crank * c < r + c
    BY <1>3, <2>2 DEF CrankSound, CrankExact
  <2>4. /\ r > 0
        /\ (crank - 1) * c >= r - Lesser(r, c)
        /\ (crank - 1) * c < (r - Lesser(r, c)) + c
    BY <1>1, <2>2, <2>3, OneIteration
  <2>5. Releases(er)
    BY <1>3, <2>2, <2>4, StateFields DEF Releases
  <2>6. er' = Authorized(er) /\ UNCHANGED <<owner, base>>
    BY <2>5 DEF CrankTick, Release, basevars
  <2>7. /\ er' \in StreamState /\ er'.chunk_amount = c /\ er'.scheduled
        /\ er'.total_amount - er'.sent_amount = r - Lesser(r, c)
        /\ er'.sent_amount <= er'.total_amount
    <3>1. /\ er' \in StreamState /\ er'.chunk_amount = er.chunk_amount
          /\ er'.scheduled = er.scheduled
          /\ er'.total_amount = er.total_amount
          /\ er'.sent_amount = er.sent_amount + Lesser(r, c)
          /\ er'.sent_amount <= er.total_amount
      BY <2>2, <2>5, <2>6, AuthorizedFacts DEF Releases
    <3>2. QED
      BY <1>3, <2>2, <3>1, StateFields DEF Lesser
  <2>8. remaining(er') = r - Lesser(r, c)
    BY <2>7 DEF remaining
  <2>9. CrankExact'
    BY <1>1, <2>4, <2>7, <2>8 DEF CrankExact
  <2>10. er' # NoState
    BY <2>7, NoStateTyped
  <2>11. QED
    BY <2>1, <2>6, <2>9, <2>10 DEF CrankSound
<1>4. QED
  BY <1>2, <1>3

\* Scheduling counts the iterations of what remains.
LEMMA ScheduleStep ==
  ASSUME MInv, CrankSound, Schedule
  PROVE  CrankSound'
<1>1. /\ remaining_iterations(er) # Err
      /\ er' = [er EXCEPT !.scheduled = TRUE] /\ crank' = remaining_iterations(er)
      /\ UNCHANGED <<owner, base>>
  BY DEF Schedule, CanSchedule, basevars
<1>2. /\ er' \in StreamState /\ er'.scheduled
      /\ er'.total_amount = er.total_amount /\ er'.chunk_amount = er.chunk_amount
      /\ er'.sent_amount = er.sent_amount
  BY <1>1 DEF MInv, MTyped, StreamState
<1>3. remaining(er') = remaining(er)
  BY <1>2 DEF remaining
<1>4. /\ crank' * er.chunk_amount >= remaining(er)
      /\ crank' * er.chunk_amount < remaining(er) + er.chunk_amount
  BY <1>1, IterationFacts DEF MInv, MTyped
<1>5. CrankExact'
  BY <1>2, <1>3, <1>4 DEF CrankExact
<1>6. er' # NoState
  BY <1>2, NoStateTyped
<1>7. QED
  BY <1>1, <1>5, <1>6 DEF CrankSound

\* Every iteration of the task is executed once.
CrankFaultless == Faults \cap {"lost tick", "extra tick", "restart"} = {}

LEMMA CrankInvariance == ASSUME CrankFaultless PROVE Spec => []CrankSound
<1>1. Init => CrankSound
  BY NoStateTyped DEF Init, CrankSound, CrankExact
<1>2. MInv /\ QueueSound /\ CrankSound /\ [Next]_vars => CrankSound'
  <2> SUFFICES ASSUME MInv, QueueSound, CrankSound, [Next]_vars PROVE CrankSound'
    OBVIOUS
  <2>1. CASE UNCHANGED <<owner, base, er, crank, intents>>
    BY <2>1 DEF CrankSound, CrankExact
  <2>2. ASSUME NEW a \in Action, Call(a), UNCHANGED <<er, crank, intents>> PROVE CrankSound'
    <3>1. CASE SettleChunk(a) \/ UNCHANGED basevars
      BY <2>1, <2>2, <3>1 DEF SettleChunk, basevars
    <3>2. CASE Finalize(a)
      BY <2>2, <3>2 DEF Finalize, CanFinalize, Finalizes, CrankSound, CrankExact
    <3>3. QED
      BY <2>2, <3>1, <3>2 DEF Call
  <2>3. actions \subseteq Action /\ delivered \subseteq Action
    BY DEF MInv, MTyped
  <2>4. CASE Sender
    <3>1. ASSUME NEW total \in Totals, NEW chunk \in Chunks, Initialize(total, chunk)
          PROVE  CrankSound'
      <4>1. /\ owner = "none" /\ owner' = "program" /\ ~ base'.scheduled
            /\ UNCHANGED <<er, crank, intents>>
        BY <3>1 DEF Initialize, Create, Initialized, queues
      <4>2. QED
        BY <4>1 DEF CrankSound, CrankExact
    <3>2. CASE Delegate
      BY <3>2 DEF Delegate, CrankSound, CrankExact, ervars, queues
    <3>3. QED
      BY <2>4, <3>1, <3>2 DEF Sender
  <2>5. CASE Tokens
    BY <2>1, <2>5
       DEF Tokens, StrayDeposit, CreateTokenAccount, CloseDestination, ervars, queues
  <2>6. CASE Clone
    BY <2>6, NoStateTyped DEF Clone, CrankSound, CrankExact, basevars, queues
  <2>7. CASE CommitChunk \/ CommitFinal
    BY <2>7 DEF CommitChunk, CommitFinal, CrankSound, CrankExact, ervars
  <2>8. CASE UndelegateCallback
    <3>1. /\ owner' = "program" /\ er' = NoState /\ intents' = << >> /\ base' = base
      BY <2>8 DEF UndelegateCallback
    <3>2. ~ base.active
      <4>1. intents \in Seq(Intent) /\ intents # << >>
        BY <2>8 DEF UndelegateCallback, MInv, MTyped
      <4>2. Head(intents) = intents[1]
        BY <4>1, FirstOfQueue
      <4>3. Head(intents).committed
        BY <2>8 DEF UndelegateCallback
      <4>4. QED
        BY <4>1, <4>2, <4>3 DEF QueueSound
    <3>3. QED
      BY <3>1, <3>2, NoStateTyped DEF CrankSound, CrankExact
  <2>9. ASSUME NEW a \in actions, Deliver(a) PROVE CrankSound'
    BY <2>2, <2>3, <2>9 DEF Deliver, ervars
  <2>10. CASE FaultyStep
    <3>1. ~ LoseTick /\ ~ ExtraTick /\ ~ Restart
      BY DEF CrankFaultless, LoseTick, ExtraTick, Restart, Fault
    <3>2. ASSUME NEW a \in actions, LoseAction(a) PROVE CrankSound'
      BY <2>1, <3>2 DEF LoseAction, basevars, ervars
    <3>3. ASSUME NEW a \in delivered, Redeliver(a) PROVE CrankSound'
      BY <2>2, <2>3, <3>3 DEF Redeliver, ervars, queues
    <3>4. QED
      BY <2>10, <3>1, <3>2, <3>3 DEF FaultyStep
  <2>11. CASE UNCHANGED vars
    BY <2>1, <2>11 DEF vars, basevars, ervars, queues
  <2>12. QED
    BY <2>4, <2>5, <2>6, <2>7, <2>8, <2>9, <2>10, <2>11, ScheduleStep, TickStep
       DEF Next, Rollup, Committor
<1>3. QED
  BY <1>1, <1>2, MagicInvariance, QueueInvariance, PTL DEF Spec

\* As long as every iteration of the task is executed once, the task has exactly
\* as many left as there are chunks to authorize.
THEOREM CrankCounts == ASSUME CrankFaultless PROVE Spec => []CrankExact
<1>1. CrankSound => CrankExact
  BY DEF CrankSound
<1>2. QED
  BY <1>1, CrankInvariance, PTL

-----------------------------------------------------------------------------
(* What can be scheduled *)

\* A deal is one that its sender could choose.
DealChosen ==
  owner # "none" => base.total_amount \in Totals /\ base.chunk_amount \in Chunks

\* The sums under the division fit u64, and the counts fit i64.
IterationsFit ==
  /\ \A t \in Totals, c \in Chunks : c <= t => t + (c - 1) <= U64Max
  /\ \A t \in Totals : t <= I64Max

\* There are no more iterations than base units.
LEMMA IterationsBounded ==
  ASSUME NEW n \in Nat, NEW c \in Nat, NEW r \in Nat, c > 0, n * c < r + c
  PROVE  n <= r
<1> SUFFICES ASSUME n > r PROVE FALSE
  OBVIOUS
<1> DEFINE d == n - (r + 1)
           b == c - 1
<1>1. d \in Nat /\ b \in Nat /\ n = d + r + 1 /\ c = b + 1
  OBVIOUS
<1> HIDE DEF d, b
<1>2. n * c = d * c + r * c + c /\ d * c \in Nat /\ r * c = r * b + r /\ r * b \in Nat
  BY <1>1
<1>3. QED
  BY <1>2

\* The amounts of a deal are fixed by initialize.
LEMMA DealChosenStep ==
  ASSUME MInv, DealChosen, [Next]_vars
  PROVE  DealChosen'
<1>1. ASSUME base' = base, owner' # "none" => owner # "none" PROVE DealChosen'
  BY <1>1 DEF DealChosen
<1>2. ASSUME owner' = "none" PROVE DealChosen'
  BY <1>2 DEF DealChosen
<1>3. ASSUME NEW total \in Totals, NEW chunk \in Chunks, Initialize(total, chunk)
      PROVE  DealChosen'
  BY <1>3 DEF Initialize, Create, Initialized, DealChosen
<1>4. ASSUME CommitChunk \/ CommitFinal PROVE DealChosen'
  <2>1. intents # << >> /\ owner = "dlp" /\ owner' = owner /\ base' = Head(intents).data
    BY <1>4 DEF CommitChunk, CommitFinal
  <2>2. Linked(Head(intents).data, base, authorized)
    BY <2>1, QueueHead DEF MInv, RollupLinked
  <2>3. QED
    BY <2>1, <2>2 DEF DealChosen, Linked
<1>5. ASSUME NEW a, Call(a) PROVE DealChosen'
  BY <1>1, <1>2, <1>5 DEF Call, SettleChunk, Finalize, basevars
<1>6. CASE Sender
  BY <1>1, <1>3, <1>6 DEF Sender, Delegate
<1>7. CASE Tokens
  BY <1>1, <1>7 DEF Tokens, StrayDeposit, CreateTokenAccount, CloseDestination
<1>8. CASE Rollup
  BY <1>1, <1>8 DEF Rollup, Clone, Schedule, CrankTick, Release, basevars
<1>9. CASE Committor
  BY <1>1, <1>4, <1>5, <1>9 DEF Committor, UndelegateCallback, Deliver
<1>10. CASE FaultyStep
  BY <1>1, <1>5, <1>10
     DEF FaultyStep, LoseTick, ExtraTick, Restart, Release, LoseAction, Redeliver, basevars
<1>11. CASE UNCHANGED vars
  BY <1>1, <1>11 DEF vars, basevars
<1>12. QED
  BY <1>6, <1>7, <1>8, <1>9, <1>10, <1>11 DEF Next

\* Every active stream can be scheduled, after whatever happened before, unless
\* its sender chose amounts that are too large.
THEOREM Schedulable == ASSUME IterationsFit PROVE Spec => []EveryStreamSchedulable
<1>1. Init => DealChosen
  BY DEF Init, DealChosen
<1>2. MInv /\ DealChosen /\ [Next]_vars => DealChosen'
  BY DealChosenStep
<1>3. MInv /\ DealChosen => EveryStreamSchedulable
  <2> SUFFICES ASSUME MInv, DealChosen, er.active, ~ er.scheduled PROVE CanSchedule(er)
    BY DEF EveryStreamSchedulable
  <2> DEFINE t == er.total_amount
             c == er.chunk_amount
             r == t - er.sent_amount
             n == remaining_iterations(er)
  <2>1. owner = "dlp" /\ Linked(er, base, authorized) /\ er \in StreamState
    BY NoStateTyped DEF MInv, MTyped, RollupLinked
  <2>2. /\ t \in Totals /\ c \in Chunks /\ c > 0 /\ c <= t /\ er.sent_amount < t
        /\ t \in Nat /\ c \in Nat /\ er.sent_amount \in Nat
    BY <2>1, StateFields DEF MInv, BaseLinked, DealChosen, Linked
  <2>3. t + (c - 1) <= U64Max /\ t <= I64Max
    BY <2>2 DEF IterationsFit
  <2>4. remaining(er) = r /\ r \in Nat /\ r <= t
    BY <2>2 DEF remaining
  <2>5. r + (c - 1) <= U64Max
    BY <2>2, <2>3, <2>4, WidthAssumption
  <2>6. n = (r + (c - 1)) \div c
    <3>1. r # Err /\ c # 0 /\ ~ (r + (c - 1) > U64Max)
      BY <2>2, <2>4, <2>5, WidthAssumption DEF Err
    <3>2. QED
      BY <2>4, <3>1 DEF remaining_iterations
  <2>7. n # Err /\ n \in Nat
    <3>1. (r + (c - 1)) \in Nat
      BY <2>2, <2>4
    <3>2. (r + (c - 1)) \div c \in Nat
      BY <2>2, <3>1
    <3>3. QED
      BY <2>6, <3>2 DEF Err
  <2>8. n * c < r + c
    BY <2>1, <2>4, <2>7, IterationFacts
  <2>9. n <= r
    BY <2>2, <2>4, <2>7, <2>8, IterationsBounded
  <2>10. n <= I64Max
    BY <2>2, <2>3, <2>4, <2>7, <2>9, WidthAssumption
  <2>11. QED
    BY <2>7, <2>10 DEF CanSchedule
<1>4. QED
  BY <1>1, <1>2, <1>3, MagicInvariance, PTL DEF Spec
=============================================================================
