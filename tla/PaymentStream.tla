---------------------------- MODULE PaymentStream ----------------------------
(***************************************************************************)
(* What either program promises about a stream, without custody accounts,  *)
(* schedules, keepers or cranks: a sender funds a deal of `total' base     *)
(* units, and from then on the only thing that happens to it is that the   *)
(* recipient is paid min(remaining, chunk), again and again, until total   *)
(* is paid.  Nothing is paid before funding, nothing twice, nothing more.  *)
(*                                                                         *)
(* Source: the amounts and the transfers of both programs: initialize.rs,  *)
(* release.rs, and finalize.rs of the MagicBlock program.                  *)
(* NativeStream implements it with one account per stream that is kept for *)
(* ever, MagicStream with an account that the last payment closes, so that *)
(* the same address may be funded again.                                   *)
(***************************************************************************)
EXTENDS Integers

CONSTANTS
  Streams,      \* the stream addresses
  Amounts       \* the amounts a sender may choose, none of them 0

VARIABLE deal

NoDeal == [total |-> 0, chunk |-> 0, paid |-> 0]

Init == deal = [s \in Streams |-> NoDeal]

\* The amount of the next payment.
Due(d) == IF d.total - d.paid <= d.chunk THEN d.total - d.paid ELSE d.chunk

Fund(s) ==
  /\ deal[s] = NoDeal
  /\ \E t, c \in Amounts :
        deal' = [deal EXCEPT ![s] = [total |-> t, chunk |-> c, paid |-> 0]]

Pay(s) ==
  /\ deal[s].paid < deal[s].total
  /\ deal' = [deal EXCEPT ![s].paid = @ + Due(deal[s])]

\* The payment that completes the deal may also clear it away.
PayAndRetire(s) ==
  /\ deal[s].paid < deal[s].total
  /\ deal[s].paid + Due(deal[s]) = deal[s].total
  /\ deal' = [deal EXCEPT ![s] = NoDeal]

Next == \E s \in Streams : Fund(s) \/ Pay(s) \/ PayAndRetire(s)

Spec == Init /\ [][Next]_deal
=============================================================================
