--------------------------- MODULE MCACDiscovery ---------------------------
(* Small instances of ACDiscovery for TLC. *)
EXTENDS ACDiscovery

CONSTANT v1
=============================================================================
