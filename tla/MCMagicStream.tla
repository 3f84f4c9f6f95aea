---------------------------- MODULE MCMagicStream ----------------------------
(***************************************************************************)
(* Small instances of MagicStream.                                         *)
(***************************************************************************)
EXTENDS MagicStream

NoGift     == {}
Repeats    == {"repeated action"}
=============================================================================
