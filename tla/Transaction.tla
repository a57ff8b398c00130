----------------------------- MODULE Transaction -----------------------------
(***************************************************************************)
(* A request that expects a response, from the caller that blocks on its   *)
(* ResponseMsgCh to the message it receives (nhp/core/device.go,           *)
(* transaction.go, initiator.go and the send and receive routines of the   *)
(* endpoints).  The obligation to answer the caller travels through the    *)
(* encryption queue, an encryption worker, the local transaction's         *)
(* goroutine, the decryption queue and a decryption worker.                *)
(*                                                                         *)
(* Every goroutine of the path is modelled; channels without a buffer are  *)
(* rendezvous; a send on a closed channel ends the process (crashed).      *)
(* Response packets may be lost, delayed and duplicated.                   *)
(***************************************************************************)
EXTENDS Naturals, Sequences, FiniteSets

CONSTANTS
    Reqs,            \* requests, named by their transaction id (counter)
    SendQueueSize,   \* capacity of msgToPacketQueue
    RecvQueueSize,   \* capacity of packetToMsgQueue
    ReplyBound       \* bound: response packets the network delivers per request

ASSUME TransactionAssumption ==
    /\ IsFiniteSet(Reqs)
    /\ SendQueueSize \in Nat /\ RecvQueueSize \in Nat /\ ReplyBound \in Nat
    /\ "none" \notin Reqs

NoReq == "none"

VARIABLES
    asked,      \* requests handed to sendMsgCh
    outbox,     \* requests in sendMsgCh
    msgQ,       \* requests in msgToPacketQueue
    enc,        \* msgToPacketRoutine: "no", "encrypt", then "forward"
    trx,        \* the LocalTransaction and its goroutine
    failed,     \* err of LocalTransaction.Run is set
    sent,       \* requests whose packet reached the network
    replies,    \* number of response packets still on the way
    routine,    \* connectionRoutine: the transaction it is handing a packet to
    handler,    \* HandleCookieMessage: the transaction it found
    stuck,      \* the handler sends on a channel that was nil when evaluated
    pktQ,       \* requests whose response is in packetToMsgQueue
    parsing,    \* and in a packetToMsgRoutine
    answers,    \* what was sent on ResponseMsgCh
    lost,       \* history: requests abandoned by a full queue, a connection
                \* that could not be made or a stopped device
    closed,     \* the connection's StopSignal
    stopping,   \* the device's signals.stop
    crashed     \* send on a closed channel

netVars == <<sent, replies>>
envVars == <<closed, stopping>>
vars == <<asked, outbox, msgQ, enc, trx, failed, netVars, routine, handler, stuck,
          pktQ, parsing, answers, lost, envVars, crashed>>

\* starting: in localTransactionMap, Run not begun (ExternalMsgCh still nil);
\* running: in its select; closing: select left; closed: both channels closed;
\* deleted: out of the map; gone: returned.
TrxStates == {"none", "starting", "running", "closing", "closed", "deleted", "gone"}
InMap(r) == trx[r] \in {"starting", "running", "closing", "closed"}

\* Every variable holds a value of the Go type it models, within the bounds.
TypeOK ==
    /\ asked \in SUBSET Reqs /\ outbox \in SUBSET Reqs /\ msgQ \in SUBSET Reqs
    /\ enc \in [Reqs -> {"no", "encrypt", "forward"}]
    /\ trx \in [Reqs -> TrxStates]
    /\ failed \in [Reqs -> BOOLEAN]
    /\ sent \in SUBSET Reqs
    /\ replies \in [Reqs -> 0..ReplyBound]
    /\ routine \in Reqs \cup {NoReq}
    /\ handler \in Reqs \cup {NoReq}
    /\ stuck \in BOOLEAN
    /\ pktQ \in SUBSET Reqs /\ parsing \in SUBSET Reqs
    /\ answers \in [Reqs -> Seq({"answer", "cookie", "error"})]
    /\ lost \in SUBSET Reqs
    /\ Cardinality(msgQ) <= SendQueueSize /\ Cardinality(pktQ) <= RecvQueueSize
    /\ closed \in BOOLEAN /\ stopping \in BOOLEAN /\ crashed \in BOOLEAN

Init ==
    /\ asked = {} /\ outbox = {} /\ msgQ = {}
    /\ enc = [r \in Reqs |-> "no"]
    /\ trx = [r \in Reqs |-> "none"]
    /\ failed = [r \in Reqs |-> FALSE]
    /\ sent = {} /\ replies = [r \in Reqs |-> ReplyBound]
    /\ routine = NoReq /\ handler = NoReq /\ stuck = FALSE
    /\ pktQ = {} /\ parsing = {}
    /\ answers = [r \in Reqs |-> <<>>]
    /\ lost = {}
    /\ closed = FALSE /\ stopping = FALSE /\ crashed = FALSE

Answer(r, v) == answers' = [answers EXCEPT ![r] = Append(@, v)]

-----------------------------------------------------------------------------
(* The caller and sendMessageRoutine.                                      *)

\* The caller puts its MsgData in sendMsgCh and waits on ResponseMsgCh.
Ask(r) ==
    /\ ~crashed /\ r \notin asked
    /\ asked' = asked \cup {r}
    /\ outbox' = outbox \cup {r}
    /\ UNCHANGED <<msgQ, enc, trx, failed, netVars, routine, handler, stuck, pktQ,
                   parsing, answers, lost, envVars, crashed>>

\* Faulty variant: one message more than the queue holds.
DispatchOneMore(r) ==
    /\ ~crashed /\ r \in outbox
    /\ outbox' = outbox \ {r}
    /\ IF Cardinality(msgQ) <= SendQueueSize
       THEN msgQ' = msgQ \cup {r} /\ UNCHANGED lost
       ELSE lost' = lost \cup {r} /\ UNCHANGED msgQ
    /\ UNCHANGED <<asked, enc, trx, failed, netVars, routine, handler, stuck, pktQ,
                   parsing, answers, envVars, crashed>>

\* SendMsgToPacket discards the message when the queue is full.
Dispatch(r) ==
    /\ ~crashed /\ r \in outbox
    /\ outbox' = outbox \ {r}
    /\ IF Cardinality(msgQ) < SendQueueSize
       THEN msgQ' = msgQ \cup {r} /\ UNCHANGED lost
       ELSE lost' = lost \cup {r} /\ UNCHANGED msgQ
    /\ UNCHANGED <<asked, enc, trx, failed, netVars, routine, handler, stuck, pktQ,
                   parsing, answers, envVars, crashed>>

\* newConnection fails: sendMessageRoutine logs it and takes the next message.
DispatchFails(r) ==
    /\ ~crashed /\ r \in outbox
    /\ outbox' = outbox \ {r}
    /\ lost' = lost \cup {r}
    /\ UNCHANGED <<asked, msgQ, enc, trx, failed, netVars, routine, handler, stuck,
                   pktQ, parsing, answers, envVars, crashed>>

-----------------------------------------------------------------------------
(* msgToPacketRoutine.                                                     *)

TakeMsg(r) ==
    /\ ~crashed /\ r \in msgQ
    /\ msgQ' = msgQ \ {r}
    /\ enc' = [enc EXCEPT ![r] = "encrypt"]
    /\ UNCHANGED <<asked, outbox, trx, failed, netVars, routine, handler, stuck, pktQ,
                   parsing, answers, lost, envVars, crashed>>

\* Faulty variant: the error path does not use ResponseMsgCh.
EncryptErrorSilent(r) ==
    /\ ~crashed /\ enc[r] = "encrypt"
    /\ enc' = [enc EXCEPT ![r] = "no"]
    /\ UNCHANGED <<asked, outbox, msgQ, trx, failed, netVars, routine, handler, stuck,
                   pktQ, parsing, answers, lost, envVars, crashed>>

\* setPeerPublicKey or encryptBody fails: "inform preset channel with error".
EncryptError(r) ==
    /\ ~crashed /\ enc[r] = "encrypt"
    /\ enc' = [enc EXCEPT ![r] = "no"]
    /\ Answer(r, "error")
    /\ UNCHANGED <<asked, outbox, msgQ, trx, failed, netVars, routine, handler, stuck,
                   pktQ, parsing, lost, envVars, crashed>>

\* AddLocalTransaction stores the transaction and starts its goroutine.
AddLocalTransaction(r) ==
    /\ ~crashed /\ enc[r] = "encrypt"
    /\ enc' = [enc EXCEPT ![r] = "forward"]
    /\ trx' = [trx EXCEPT ![r] = "starting"]
    /\ UNCHANGED <<asked, outbox, msgQ, failed, netVars, routine, handler, stuck, pktQ,
                   parsing, answers, lost, envVars, crashed>>

\* ForwardOutboundPacket: the packet is sent, or discarded when the
\* connection is closed.
ForwardOutbound(r) ==
    /\ ~crashed /\ enc[r] = "forward"
    /\ enc' = [enc EXCEPT ![r] = "no"]
    /\ sent' = IF closed THEN sent ELSE sent \cup {r}
    /\ UNCHANGED <<asked, outbox, msgQ, trx, failed, replies, routine, handler, stuck,
                   pktQ, parsing, answers, lost, envVars, crashed>>

-----------------------------------------------------------------------------
(* connectionRoutine and the cookie handler find the transaction under the *)
(* lock and send on its channel after releasing it.                        *)

\* A response packet arrives: FindLocalTransaction(pkt.Counter()).  One whose
\* transaction is unknown takes the generic path and answers nobody.
FindForPacket(r) ==
    /\ ~crashed /\ ~closed
    /\ routine = NoReq
    /\ r \in sent /\ replies[r] > 0
    /\ replies' = [replies EXCEPT ![r] = @ - 1]
    /\ routine' = IF InMap(r) THEN r ELSE NoReq
    /\ UNCHANGED <<asked, outbox, msgQ, enc, trx, failed, sent, handler, stuck, pktQ,
                   parsing, answers, lost, envVars, crashed>>

\* An NHP_COK message is handled instead of a response.
FindForCookie(r) ==
    /\ ~crashed
    /\ handler = NoReq
    /\ r \in sent /\ replies[r] > 0
    /\ replies' = [replies EXCEPT ![r] = @ - 1]
    /\ handler' = IF InMap(r) THEN r ELSE NoReq
    /\ stuck' = (trx[r] = "starting")
    /\ UNCHANGED <<asked, outbox, msgQ, enc, trx, failed, sent, routine, pktQ, parsing,
                   answers, lost, envVars, crashed>>

\* NextPacketCh <- pkt after close(NextPacketCh), and likewise ExternalMsgCh.
SendOnClosed ==
    /\ ~crashed
    /\ \/ routine # NoReq /\ trx[routine] \in {"closed", "deleted", "gone"}
       \/ handler # NoReq /\ ~stuck /\ trx[handler] \in {"closed", "deleted", "gone"}
    /\ crashed' = TRUE
    /\ UNCHANGED <<asked, outbox, msgQ, enc, trx, failed, netVars, routine, handler,
                   stuck, pktQ, parsing, answers, lost, envVars>>

-----------------------------------------------------------------------------
(* LocalTransaction.Run.                                                   *)

RunStart(r) ==
    /\ ~crashed /\ trx[r] = "starting"
    /\ trx' = [trx EXCEPT ![r] = "running"]
    /\ UNCHANGED <<asked, outbox, msgQ, enc, failed, netVars, routine, handler, stuck,
                   pktQ, parsing, answers, lost, envVars, crashed>>

\* The packet goes to the decryption queue; a full queue discards it and Run
\* returns without an error.
RunPacket(r) ==
    /\ ~crashed /\ trx[r] = "running" /\ routine = r
    /\ routine' = NoReq
    /\ trx' = [trx EXCEPT ![r] = "closing"]
    /\ IF Cardinality(pktQ) < RecvQueueSize
       THEN pktQ' = pktQ \cup {r} /\ UNCHANGED lost
       ELSE lost' = lost \cup {r} /\ UNCHANGED pktQ
    /\ UNCHANGED <<asked, outbox, msgQ, enc, failed, netVars, handler, stuck, parsing,
                   answers, envVars, crashed>>

\* Faulty variant: the cookie answers the caller and Run also returns an error.
RunExternalFails(r) ==
    /\ ~crashed /\ trx[r] = "running" /\ handler = r /\ ~stuck
    /\ handler' = NoReq
    /\ trx' = [trx EXCEPT ![r] = "closing"]
    /\ failed' = [failed EXCEPT ![r] = TRUE]
    /\ Answer(r, "cookie")
    /\ UNCHANGED <<asked, outbox, msgQ, enc, netVars, routine, stuck, pktQ, parsing,
                   lost, envVars, crashed>>

\* "redirect it to mad.ResponseMsgCh and complete the transaction externally"
RunExternal(r) ==
    /\ ~crashed /\ trx[r] = "running" /\ handler = r /\ ~stuck
    /\ handler' = NoReq
    /\ trx' = [trx EXCEPT ![r] = "closing"]
    /\ Answer(r, "cookie")
    /\ UNCHANGED <<asked, outbox, msgQ, enc, failed, netVars, routine, stuck, pktQ,
                   parsing, lost, envVars, crashed>>

\* Closed connection, stopped device, or the timeout, which may fire any time.
RunError(r) ==
    /\ ~crashed /\ trx[r] = "running"
    /\ trx' = [trx EXCEPT ![r] = "closing"]
    /\ failed' = [failed EXCEPT ![r] = TRUE]
    /\ UNCHANGED <<asked, outbox, msgQ, enc, netVars, routine, handler, stuck, pktQ,
                   parsing, answers, lost, envVars, crashed>>

\* The deferred function: close(NextPacketCh), close(ExternalMsgCh).  A sender
\* blocked on either panics; SendOnClosed takes that step.
RunClose(r) ==
    /\ ~crashed /\ trx[r] = "closing"
    /\ trx' = [trx EXCEPT ![r] = "closed"]
    /\ UNCHANGED <<asked, outbox, msgQ, enc, failed, netVars, routine, handler, stuck,
                   pktQ, parsing, answers, lost, envVars, crashed>>

RunDelete(r) ==
    /\ ~crashed /\ trx[r] = "closed"
    /\ trx' = [trx EXCEPT ![r] = "deleted"]
    /\ UNCHANGED <<asked, outbox, msgQ, enc, failed, netVars, routine, handler, stuck,
                   pktQ, parsing, answers, lost, envVars, crashed>>

\* Faulty variants: the error is reported whatever happened; it is not reported.
RunReportAlways(r) ==
    /\ ~crashed /\ trx[r] = "deleted"
    /\ trx' = [trx EXCEPT ![r] = "gone"]
    /\ Answer(r, "error")
    /\ UNCHANGED <<asked, outbox, msgQ, enc, failed, netVars, routine, handler, stuck,
                   pktQ, parsing, lost, envVars, crashed>>
RunReportNever(r) ==
    /\ ~crashed /\ trx[r] = "deleted"
    /\ trx' = [trx EXCEPT ![r] = "gone"]
    /\ UNCHANGED <<asked, outbox, msgQ, enc, failed, netVars, routine, handler, stuck,
                   pktQ, parsing, answers, lost, envVars, crashed>>

\* "if local transaction is expecting a response, return an error"
RunReport(r) ==
    /\ ~crashed /\ trx[r] = "deleted"
    /\ trx' = [trx EXCEPT ![r] = "gone"]
    /\ IF failed[r] THEN Answer(r, "error") ELSE UNCHANGED answers
    /\ UNCHANGED <<asked, outbox, msgQ, enc, failed, netVars, routine, handler, stuck,
                   pktQ, parsing, lost, envVars, crashed>>

-----------------------------------------------------------------------------
(* packetToMsgRoutine with feedbackMsgCh = mad.ResponseMsgCh.              *)

TakePacket(r) ==
    /\ ~crashed /\ r \in pktQ
    /\ pktQ' = pktQ \ {r}
    /\ parsing' = parsing \cup {r}
    /\ UNCHANGED <<asked, outbox, msgQ, enc, trx, failed, netVars, routine, handler,
                   stuck, answers, lost, envVars, crashed>>

\* The parsed message, or the error of a refused packet, answers the caller.
Feedback(r) ==
    /\ ~crashed /\ r \in parsing
    /\ parsing' = parsing \ {r}
    /\ \E v \in {"answer", "error"} : Answer(r, v)
    /\ UNCHANGED <<asked, outbox, msgQ, enc, trx, failed, netVars, routine, handler,
                   stuck, pktQ, lost, envVars, crashed>>

-----------------------------------------------------------------------------
(* Environment.                                                            *)

\* The connection is closed, by its own routine or by another goroutine while
\* its routine is handing a packet over.
CloseConn ==
    /\ ~crashed /\ ~closed
    /\ closed' = TRUE
    /\ UNCHANGED <<asked, outbox, msgQ, enc, trx, failed, netVars, routine, handler,
                   stuck, pktQ, parsing, answers, lost, stopping, crashed>>

\* Device.Stop.  The queues it closes when the workers have ended are left open here: the
\* panic of a caller that still sends to them then is not modelled, nor is anything else
\* of a process that is coming to its end.
StopDevice ==
    /\ ~crashed /\ ~stopping
    /\ stopping' = TRUE
    /\ UNCHANGED <<asked, outbox, msgQ, enc, trx, failed, netVars, routine, handler,
                   stuck, pktQ, parsing, answers, lost, closed, crashed>>

\* The workers return on signals.stop and leave the queues as they are.
StopAbandons(r) ==
    /\ ~crashed /\ stopping
    /\ r \in outbox \cup msgQ \cup pktQ
    /\ outbox' = outbox \ {r} /\ msgQ' = msgQ \ {r} /\ pktQ' = pktQ \ {r}
    /\ lost' = lost \cup {r}
    /\ UNCHANGED <<asked, enc, trx, failed, netVars, routine, handler, stuck, parsing,
                   answers, envVars, crashed>>

-----------------------------------------------------------------------------
Run(r) == \/ RunStart(r) \/ RunPacket(r) \/ RunExternal(r) \/ RunError(r)
          \/ RunClose(r) \/ RunDelete(r) \/ RunReport(r)

Send(r) == \/ Dispatch(r) \/ TakeMsg(r) \/ AddLocalTransaction(r) \/ ForwardOutbound(r)

Receive(r) == TakePacket(r) \/ Feedback(r)

Next ==
    \/ \E r \in Reqs : \/ Ask(r) \/ DispatchFails(r) \/ EncryptError(r)
                       \/ Send(r) \/ Run(r) \/ Receive(r)
                       \/ FindForPacket(r) \/ FindForCookie(r) \/ StopAbandons(r)
    \/ SendOnClosed \/ CloseConn \/ StopDevice

\* Goroutines run and time passes (so a running transaction leaves its
\* select); nothing is assumed of the network or of Stop.
Fairness ==
    \A r \in Reqs : WF_vars(Send(r)) /\ WF_vars(Run(r)) /\ WF_vars(Receive(r))

Spec == Init /\ [][Next]_vars
FairSpec == Spec /\ Fairness

-----------------------------------------------------------------------------
(* Properties.                                                             *)

\* The caller receives once and closes ResponseMsgCh; a second sender, a worker
\* of the device or the transaction, would panic.
AtMostOneAnswer == \A r \in Reqs : Len(answers[r]) <= 1

\* The transaction has failed and has yet to report it.
Reporting(r) == failed[r] /\ trx[r] \in {"closing", "closed", "deleted"}

Stages == {"unasked", "outbox", "msgQ", "enc", "trx", "pktQ", "parsing",
           "answered", "lost"}

\* The duty to answer r is at stage s and nowhere else.
OneAt(r, s) ==
    /\ (r \in asked) <=> (s # "unasked")
    /\ (r \in outbox) <=> (s = "outbox")
    /\ (r \in msgQ) <=> (s = "msgQ")
    /\ (enc[r] = "encrypt") <=> (s = "enc")
    /\ (trx[r] \in {"starting", "running"} \/ Reporting(r)) <=> (s = "trx")
    /\ (r \in pktQ) <=> (s = "pktQ")
    /\ (r \in parsing) <=> (s = "parsing")
    /\ (answers[r] # <<>>) <=> (s = "answered")
    /\ (r \in lost) <=> (s = "lost")
    /\ s \in {"unasked", "outbox", "msgQ", "enc"} => trx[r] = "none"
    /\ failed[r] => trx[r] \in {"closing", "closed", "deleted", "gone"}
    /\ Len(answers[r]) <= 1

\* No request is forgotten and none is answered twice: from the moment it is
\* asked, exactly one queue or goroutine holds the duty to answer it, until it
\* is answered or abandoned in one of the ways recorded in lost.
OnePlace == \A r \in Reqs : \E s \in Stages : OneAt(r, s)

\* Every request is answered, unless the process ends or the request is
\* abandoned in one of the ways recorded in lost.
EventuallyAnswered ==
    \A r \in Reqs : (r \in asked) ~> (answers[r] # <<>> \/ r \in lost \/ crashed)

\* A late or repeated response never ends the process: what "if local
\* transaction is expecting a response, return an error" takes for granted.
NoSendOnClosedChannel == ~crashed

\* The caller's view of the path.
StatusOf(r) ==
    IF r \notin asked THEN "idle"
    ELSE IF answers[r] # <<>> THEN answers[r][Len(answers[r])]
    ELSE IF r \in lost THEN "lost" ELSE "waiting"

R == INSTANCE Request WITH status <- [r \in Reqs |-> StatusOf(r)]

\* The path implements Request: one message at most, none once abandoned.
ImplementsRequest == R!Spec
=============================================================================
