------------------------------- MODULE Request -------------------------------
(***************************************************************************)
(* What a caller that put a ResponseMsgCh in its MsgData may rely on: after*)
(* asking it receives one message, an answer or an error, or none at all   *)
(* when the request is abandoned; never two, and never one after the       *)
(* request was abandoned.                                                  *)
(***************************************************************************)
CONSTANT Reqs

VARIABLE status

Replies == {"answer", "cookie", "error"}
Status == {"idle", "waiting", "lost"} \cup Replies

Init == status = [r \in Reqs |-> "idle"]

Ask(r) == status[r] = "idle" /\ status' = [status EXCEPT ![r] = "waiting"]

Reply(r) ==
    /\ status[r] = "waiting"
    /\ \E v \in Replies : status' = [status EXCEPT ![r] = v]

Abandon(r) == status[r] = "waiting" /\ status' = [status EXCEPT ![r] = "lost"]

Next == \E r \in Reqs : Ask(r) \/ Reply(r) \/ Abandon(r)

Spec == Init /\ [][Next]_status
=============================================================================
