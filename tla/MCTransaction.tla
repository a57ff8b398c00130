--------------------------- MODULE MCTransaction ---------------------------
(* Model-checking instances of Transaction.                                *)
EXTENDS Transaction, TLC

Symmetry == Permutations(Reqs)
=============================================================================
