--------------------------- MODULE MCNativeClient ----------------------------
(***************************************************************************)
(* Two setups at most: each has a mint, so a token account of the sender   *)
(* (A1, A2) and one of the recipient (B1, B2), and its stream (S1, S2).    *)
(***************************************************************************)
EXTENDS NativeClient, TLC

CONSTANTS A1, A2, B1, B2, S1, S2, P1, P2, R

TwoStreams == {S1, S2}
TwoMints   == {A1, A2, B1, B2}
Senders    == S1 :> A1 @@ S2 :> A2
Recipients == S1 :> B1 @@ S2 :> B2
Minted     == A1 :> 3 @@ A2 :> 3 @@ B1 :> 0 @@ B2 :> 0

\* One runs the whole demo, again and again, while another one calls init-stream
\* on its own and a third starts run whenever the last one has ended.
Team     == {P1, P2, R}
TeamWork == P1 :> {"demo"} @@ P2 :> {"init-stream"} @@ R :> {"run"}
=============================================================================
