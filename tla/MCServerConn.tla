---------------------------- MODULE MCServerConn ----------------------------
(* Model-checking instances of ServerConn.                                 *)
EXTENDS ServerConn, TLC

Symmetry == Permutations(UdpAddrs) \cup Permutations(ACIds)
=============================================================================
