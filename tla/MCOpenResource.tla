--------------------------- MODULE MCOpenResource ---------------------------
(***************************************************************************)
(* Small instances of OpenResource for TLC: two groups share a destination;*)
(* the second has no OpenTime, and takes the default, which is shorter.    *)
(***************************************************************************)
EXTENDS OpenResource, TLC

CONSTANTS g1, g2, s1

Shared == g1 :> {s1} @@ g2 :> {s1}
SharedTimes == g1 :> 2 @@ g2 :> 0
=============================================================================
