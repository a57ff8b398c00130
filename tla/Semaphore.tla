------------------------------ MODULE Semaphore ------------------------------
(***************************************************************************)
(* What a pool of Size places promises its users: whoever is inside has a  *)
(* place, there are never more of them than Size, and a place comes back   *)
(* when its user leaves, unless it is lost for good.                       *)
(***************************************************************************)
EXTENDS Naturals, FiniteSets

CONSTANTS Users, Size

VARIABLES
    inside,     \* the users that have a place
    lost        \* places that do not come back

Init == inside = {} /\ lost = 0

Enter(u) ==
    /\ u \notin inside /\ Cardinality(inside) + lost < Size
    /\ inside' = inside \cup {u}
    /\ UNCHANGED lost

Leave(u) ==
    /\ u \in inside
    /\ inside' = inside \ {u}
    /\ UNCHANGED lost

Lose(u) ==
    /\ u \in inside
    /\ inside' = inside \ {u}
    /\ lost' = lost + 1

Next == \E u \in Users : Enter(u) \/ Leave(u) \/ Lose(u)

Spec == Init /\ [][Next]_<<inside, lost>>
=============================================================================
