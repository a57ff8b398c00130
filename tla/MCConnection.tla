---------------------------- MODULE MCConnection ----------------------------
(* Small instances of Connection for TLC.                                  *)
EXTENDS Connection, TLC

MCId == [r \in Requests |-> r]

\* A packet that two routines accepted.
SameId == [r \in Requests |-> 1]
=============================================================================
