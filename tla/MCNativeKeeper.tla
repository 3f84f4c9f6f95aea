--------------------------- MODULE MCNativeKeeper ---------------------------
(***************************************************************************)
(* Two runners of one stream from Alice to Bob.                            *)
(***************************************************************************)
EXTENDS NativeKeeper, TLC

CONSTANTS Alice, Bob, S1, K1, K2

OneStream    == {S1}
OneSender    == S1 :> Alice
OneRecipient == S1 :> Bob
People       == {Alice, Bob}

\* Bob's token account is empty at first, so that he may close it ...
Poor == Alice :> 5 @@ Bob :> 0
\* ... or never empty, so that he cannot.
Rich == Alice :> 5 @@ Bob :> 1
=============================================================================
