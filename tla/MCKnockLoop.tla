----------------------------- MODULE MCKnockLoop -----------------------------
(* Small instances of KnockLoop for TLC.                                   *)
EXTENDS KnockLoop, TLC
=============================================================================
