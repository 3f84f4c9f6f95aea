---------------------------- MODULE MCMagicClient ----------------------------
(***************************************************************************)
(* Small instances of MagicClient.                                         *)
(***************************************************************************)
EXTENDS MagicClient

CONSTANTS I1, I2

TwoInits == {I1, I2}

NoGift == {}
=============================================================================
