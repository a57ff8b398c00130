---------------------------- MODULE MCPacketPool ----------------------------
(* Small instances of PacketPool for TLC.                                  *)
EXTENDS PacketPool, TLC
=============================================================================
