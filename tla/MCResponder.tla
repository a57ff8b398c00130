----------------------------- MODULE MCResponder -----------------------------
(* Small instances of Responder for TLC. *)
EXTENDS Responder, TLC

CONSTANTS w1, w2

\* The routines are interchangeable.
Symmetry == Permutations(Workers)
=============================================================================
