--------------------------- MODULE MCNativeStream ---------------------------
(***************************************************************************)
(* Small instances of NativeStream.  Alice funds every stream.             *)
(***************************************************************************)
EXTENDS NativeStream, TLC

CONSTANTS Alice, Bob, S1, S2

\* One stream from Alice to Bob.
OneStream    == {S1}
OneSender    == S1 :> Alice
OneRecipient == S1 :> Bob

\* Two streams in a chain: the first pays into the vault of the second.
TwoStreams    == {S1, S2}
TwoSenders    == S1 :> Alice @@ S2 :> Alice
ChainedTo     == S1 :> S2 @@ S2 :> Bob

People   == {Alice, Bob}
Everyone == {Alice, Bob, S1, S2}
AliceBobS1 == {Alice, Bob, S1}
Five  == Alice :> 5 @@ Bob :> 0
Seven == Alice :> 7 @@ Bob :> 0

\* Inputs around zero and around the largest i64.
StartInputs    == {-1, 0, 1, 3, 5}
IntervalInputs == {-1, 0, 1, 2, 5}
=============================================================================
