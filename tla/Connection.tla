----------------------------- MODULE Connection -----------------------------
(***************************************************************************)
(* ConnectionData (nhp/core/udpconn.go) of an agent or an AC from inside:  *)
(* Close statement by statement, which the connection's own routine and    *)
(* others may call, against ForwardOutboundPacket, ForwardInboundPacket    *)
(* and SendBlockSignal, and against the remote transactions of the         *)
(* connection (nhp/core/transaction.go) and the handlers that answer       *)
(* through them.  ServerConn and ACDiscovery take Close as one step.       *)
(*                                                                         *)
(* A goroutine that enters a select has evaluated its channels: a channel  *)
(* that is set to nil later is still the one it waits on.                  *)
(***************************************************************************)
EXTENDS Naturals, Sequences, FiniteSets

CONSTANTS
    Senders,    \* workers: they forward outbound packets and signal blocks
    reader,     \* recvPacketRoutine, which forwards inbound packets
    owner,      \* connectionRoutine
    Closers,    \* others that close the connection
    Requests,   \* requests a worker accepts
    NoRequest,
    Id,         \* their transaction ids
    QueueSize,  \* PacketQueueSizePerConnection
    PacketBound \* bound: packets and block signals

Forwarders == Senders \cup {reader}
AllClosers == Closers \cup {owner}

ASSUME ConnectionAssumption ==
    /\ reader \notin Senders /\ owner \notin Closers /\ NoRequest \notin Requests
    /\ QueueSize \in Nat \ {0} /\ PacketBound \in Nat
    /\ DOMAIN Id = Requests

Queues == {"SendQueue", "RecvQueue"}
QueueOf(f) == IF f = reader THEN "RecvQueue" ELSE "SendQueue"

VARIABLES
    queue,      \* packets in SendQueue and RecvQueue, by who put them there
    channels,   \* the four channels: open, closed, or set to nil after that
    stopped,    \* StopSignal is closed
    closed,
    netClosed,  \* netConn is closed
    forwarder,  \* where Forward*Packet and SendBlockSignal are
    made,
    routine,    \* where connectionRoutine is
    closer,     \* where Close is
    trxMap,     \* RemoteTransactionMap
    trx,        \* where RemoteTransaction.Run is
    handler,    \* where the handler of a request is
    holds,      \* the transaction it has found
    crashed     \* the process has panicked

data == <<queue, channels, stopped, closed, netClosed>>
sending == <<forwarder, made>>
requests == <<trxMap, trx, handler, holds>>
vars == <<data, sending, routine, closer, requests, crashed>>

TypeOK ==
    /\ queue \in [Queues -> Seq(Forwarders)]
    /\ \A q \in Queues : Len(queue[q]) <= QueueSize
    /\ channels \in {"open", "closed", "nil"}
    /\ stopped \in BOOLEAN /\ closed \in BOOLEAN /\ netClosed \in BOOLEAN
    /\ forwarder \in [Forwarders -> {"idle", "test", "enter", "select", "selectNil", "block",
                                     "gone"}]
    /\ made \in 0..PacketBound
    /\ routine \in {"busy", "select", "selectNil", "close"}
    /\ closer \in [AllClosers -> {"no", "test", "stop", "flag", "flush", "close", "nil",
                                  "wait", "done"}]
    /\ trxMap \in [{Id[r] : r \in Requests} -> Requests \cup {NoRequest}]
    /\ trx \in [Requests -> {"none", "select", "shut", "gone"}]
    /\ handler \in [Requests -> {"none", "find", "send", "answered", "missed"}]
    /\ holds \in [Requests -> Requests \cup {NoRequest}]
    /\ crashed \in BOOLEAN

Init ==
    /\ queue = [q \in Queues |-> <<>>]
    /\ channels = "open"
    /\ stopped = FALSE /\ closed = FALSE /\ netClosed = FALSE
    /\ forwarder = [f \in Forwarders |-> "idle"]
    /\ made = 0
    /\ routine = "busy"
    /\ closer = [k \in AllClosers |-> "no"]
    /\ trxMap = [i \in {Id[r] : r \in Requests} |-> NoRequest]
    /\ trx = [r \in Requests |-> "none"]
    /\ handler = [r \in Requests |-> "none"]
    /\ holds = [r \in Requests |-> NoRequest]
    /\ crashed = FALSE

Panic == crashed' = TRUE

-----------------------------------------------------------------------------
(* ForwardOutboundPacket and ForwardInboundPacket.                         *)

ForwardAt(f, from, to) ==
    forwarder[f] = from /\ forwarder' = [forwarder EXCEPT ![f] = to]

\* With a packet of the pool.
Forward(f) ==
    /\ made < PacketBound
    /\ made' = made + 1
    /\ ForwardAt(f, "idle", "test")
    /\ UNCHANGED <<data, routine, closer, requests, crashed>>

\* The packet of a closed connection is released.
TestClosed(f) ==
    /\ ForwardAt(f, "test", IF closed THEN "idle" ELSE "enter")
    /\ UNCHANGED <<data, made, routine, closer, requests, crashed>>

EnterSelect(f) ==
    /\ ForwardAt(f, "enter", IF channels = "nil" THEN "selectNil" ELSE "select")
    /\ UNCHANGED <<data, made, routine, closer, requests, crashed>>

\* Faulty variant: the queue takes one more than its capacity.
PushOver(f) ==
    /\ ForwardAt(f, "select", "idle")
    /\ channels = "open" /\ Len(queue[QueueOf(f)]) <= QueueSize
    /\ queue' = [queue EXCEPT ![QueueOf(f)] = Append(@, f)]
    /\ UNCHANGED <<channels, stopped, closed, netClosed, made, routine, closer, requests,
                   crashed>>

\* A send on a closed channel panics.
Push(f) ==
    LET q == QueueOf(f) IN
    /\ ForwardAt(f, "select", "idle")
    /\ IF channels # "open"
       THEN Panic /\ UNCHANGED queue
       ELSE /\ Len(queue[q]) < QueueSize
            /\ queue' = [queue EXCEPT ![q] = Append(@, f)]
            /\ UNCHANGED crashed
    /\ UNCHANGED <<channels, stopped, closed, netClosed, made, routine, closer, requests>>

\* Faulty variant: only an outbound packet gives up when the connection stops.
SeeStopOutbound(f) ==
    /\ stopped /\ f # reader
    /\ forwarder[f] \in {"select", "selectNil"}
    /\ forwarder' = [forwarder EXCEPT ![f] = "idle"]
    /\ UNCHANGED <<data, made, routine, closer, requests, crashed>>

\* The packet is released.
SeeStop(f) ==
    /\ stopped
    /\ forwarder[f] \in {"select", "selectNil"}
    /\ forwarder' = [forwarder EXCEPT ![f] = "idle"]
    /\ UNCHANGED <<data, made, routine, closer, requests, crashed>>

\* recvPacketRoutine: a read fails, as it does when netConn is closed, or it sees
\* StopSignal before the next one.
ReaderEnds ==
    /\ ForwardAt(reader, "idle", "gone")
    /\ UNCHANGED <<data, made, routine, closer, requests, crashed>>

-----------------------------------------------------------------------------
(* SendBlockSignal.                                                        *)

Block(f) ==
    /\ made < PacketBound
    /\ made' = made + 1
    /\ ~closed
    /\ ForwardAt(f, "idle", "block")
    /\ UNCHANGED <<data, routine, closer, requests, crashed>>

\* Dropped unless the routine is waiting for it.
SendBlockSignal(f) ==
    /\ ForwardAt(f, "block", "idle")
    /\ crashed' = (channels = "closed")
    /\ routine' = IF channels = "open" /\ routine = "select" THEN "close" ELSE routine
    /\ UNCHANGED <<data, made, closer, requests>>

-----------------------------------------------------------------------------
(* connectionRoutine.                                                      *)

Select ==
    /\ routine = "busy"
    /\ routine' = IF channels = "nil" THEN "selectNil" ELSE "select"
    /\ UNCHANGED <<data, sending, closer, requests, crashed>>

\* What is in a channel when it is closed is still received.
TakePacket(q) ==
    /\ routine = "select" /\ queue[q] # <<>>
    /\ queue' = [queue EXCEPT ![q] = Tail(@)]
    /\ routine' = "busy"
    /\ UNCHANGED <<channels, stopped, closed, netClosed, sending, closer, requests, crashed>>

\* The idle timeout, a stop of the program, or a channel that is closed.
Quit ==
    /\ routine \in {"select", "selectNil"}
    /\ routine' = "close"
    /\ UNCHANGED <<data, sending, closer, requests, crashed>>

-----------------------------------------------------------------------------
(* Close.                                                                  *)

CloseAt(k, from, to) == closer[k] = from /\ closer' = [closer EXCEPT ![k] = to]

CloseNet(k) ==
    /\ k = owner => routine = "close"
    /\ CloseAt(k, "no", "test")
    /\ netClosed' = TRUE
    /\ UNCHANGED <<queue, channels, stopped, closed, sending, routine, requests, crashed>>

CloseTest(k) ==
    /\ CloseAt(k, "test", IF closed THEN "done" ELSE "stop")
    /\ UNCHANGED <<data, sending, routine, requests, crashed>>

\* A second close of StopSignal panics.
CloseStop(k) ==
    /\ CloseAt(k, "stop", "flag")
    /\ stopped' = TRUE
    /\ crashed' = stopped
    /\ UNCHANGED <<queue, channels, closed, netClosed, sending, routine, requests>>

\* Faulty variant: the flag is set only when the queues are closed.
CloseFlagLate(k) ==
    /\ CloseAt(k, "flag", "flush")
    /\ UNCHANGED <<data, sending, routine, requests, crashed>>

CloseFlag(k) ==
    /\ CloseAt(k, "flag", "flush")
    /\ closed' = TRUE
    /\ UNCHANGED <<queue, channels, stopped, netClosed, sending, routine, requests, crashed>>

Flush(k, q) ==
    /\ closer[k] = "flush" /\ queue[q] # <<>>
    /\ queue' = [queue EXCEPT ![q] = Tail(@)]
    /\ UNCHANGED <<channels, stopped, closed, netClosed, sending, routine, closer, requests,
                   crashed>>

FlushEnds(k) ==
    /\ \A q \in Queues : queue[q] = <<>>
    /\ CloseAt(k, "flush", "close")
    /\ UNCHANGED <<data, sending, routine, requests, crashed>>

CloseChannels(k) ==
    /\ CloseAt(k, "close", "nil")
    /\ channels' = "closed"
    /\ UNCHANGED <<queue, stopped, closed, netClosed, sending, routine, requests, crashed>>

SetNil(k) ==
    /\ CloseAt(k, "nil", "wait")
    /\ channels' = "nil"
    /\ UNCHANGED <<queue, stopped, closed, netClosed, sending, routine, requests, crashed>>

\* The reader and the remote transactions count.
Wait(k) ==
    /\ forwarder[reader] = "gone"
    /\ \A r \in Requests : trx[r] \in {"none", "gone"}
    /\ CloseAt(k, "wait", "done")
    /\ UNCHANGED <<data, sending, routine, requests, crashed>>

-----------------------------------------------------------------------------
(* Remote transactions.                                                    *)

\* Faulty variant: the handler gets the request before the transaction is there.
AddRemoteTransactionLate(r) ==
    \/ /\ handler[r] = "none"
       /\ handler' = [handler EXCEPT ![r] = "find"]
       /\ UNCHANGED <<data, sending, routine, closer, trxMap, trx, holds, crashed>>
    \/ /\ trx[r] = "none" /\ handler[r] # "none"
       /\ trxMap' = [trxMap EXCEPT ![Id[r]] = r]
       /\ trx' = [trx EXCEPT ![r] = "select"]
       /\ UNCHANGED <<data, sending, routine, closer, handler, holds, crashed>>

\* A worker has accepted the request, whatever the connection's state, and hands it
\* to its handler, or drops it at a full DecryptedMsgQueue.
AddRemoteTransaction(r) ==
    /\ trx[r] = "none"
    /\ trxMap' = [trxMap EXCEPT ![Id[r]] = r]
    /\ trx' = [trx EXCEPT ![r] = "select"]
    /\ \E to \in {"find", "none"} : handler' = [handler EXCEPT ![r] = to]
    /\ UNCHANGED <<data, sending, routine, closer, holds, crashed>>

FindRemoteTransaction(r) ==
    LET found == IF closed THEN NoRequest ELSE trxMap[Id[r]] IN
    /\ handler[r] = "find"
    /\ handler' = [handler EXCEPT ![r] = IF found = NoRequest THEN "missed" ELSE "send"]
    /\ holds' = [holds EXCEPT ![r] = found]
    /\ UNCHANGED <<data, sending, routine, closer, trxMap, trx, crashed>>

\* The transaction takes the answer in its select and closes NextMsgCh; a send on a
\* closed channel panics.
SendNext(r) ==
    LET t == holds[r] IN
    /\ handler[r] = "send" 
    /\ IF trx[t] = "select"
       THEN trx' = [trx EXCEPT ![t] = "shut"] /\ UNCHANGED crashed
       ELSE Panic /\ UNCHANGED trx
    /\ handler' = [handler EXCEPT ![r] = "answered"]
    /\ UNCHANGED <<data, sending, routine, closer, trxMap, holds>>

\* Faulty variant: a transaction waits for an answer only.
TimeOutNever(r) ==
    /\ trx[r] = "select" /\ handler[r] = "missed"
    /\ trx' = [trx EXCEPT ![r] = "shut"]
    /\ UNCHANGED <<data, sending, routine, closer, trxMap, handler, holds, crashed>>

\* StopSignal or ten seconds; the transaction closes NextMsgCh.
TimeOut(r) ==
    /\ trx[r] = "select"
    /\ trx' = [trx EXCEPT ![r] = "shut"]
    /\ UNCHANGED <<data, sending, routine, closer, trxMap, handler, holds, crashed>>

\* By its id.
DeleteTransaction(r) ==
    /\ trx[r] = "shut"
    /\ trxMap' = [trxMap EXCEPT ![Id[r]] = NoRequest]
    /\ trx' = [trx EXCEPT ![r] = "gone"]
    /\ UNCHANGED <<data, sending, routine, closer, handler, holds, crashed>>

-----------------------------------------------------------------------------
Advance(f) == TestClosed(f) \/ EnterSelect(f) \/ Push(f) \/ SeeStop(f) \/ SendBlockSignal(f)
Serve == Select \/ (\E q \in Queues : TakePacket(q))
Close(k) ==
    \/ CloseTest(k) \/ CloseStop(k) \/ CloseFlag(k) \/ (\E q \in Queues : Flush(k, q))
    \/ FlushEnds(k) \/ CloseChannels(k) \/ SetNil(k) \/ Wait(k)
Run(r) == TimeOut(r) \/ DeleteTransaction(r)
Handle(r) == FindRemoteTransaction(r) \/ SendNext(r)

Next ==
    /\ ~crashed
    /\ \/ \E f \in Forwarders : Forward(f) \/ Advance(f)
       \/ \E f \in Senders : Block(f)
       \/ ReaderEnds
       \/ Serve \/ Quit
       \/ \E k \in AllClosers : CloseNet(k) \/ Close(k)
       \/ \E r \in Requests : AddRemoteTransaction(r) \/ Run(r) \/ Handle(r)

Spec == Init /\ [][Next]_vars

\* Goroutines that are ready run, the routine goes on serving, and a transaction and an
\* idle connection have timers; nothing is assumed of when anyone closes.
Fairness ==
    /\ \A f \in Forwarders : WF_vars(~crashed /\ Advance(f))
    /\ WF_vars(~crashed /\ netClosed /\ ReaderEnds)
    /\ WF_vars(~crashed /\ Serve)
    /\ WF_vars(~crashed /\ CloseNet(owner))
    /\ \A k \in AllClosers : WF_vars(~crashed /\ Close(k))
    /\ \A r \in Requests : WF_vars(~crashed /\ Run(r))

FairSpec == Spec /\ Fairness

-----------------------------------------------------------------------------
(* Properties.                                                             *)

\* The packets that Close does not release are those of senders it overtook between
\* their test of IsClosed and their push: at most one of each.
AtMostOneLost ==
    channels # "open" =>
        \A q \in Queues, i, j \in 1..QueueSize :
            i < j /\ j <= Len(queue[q]) => queue[q][i] # queue[q][j]

\* A handler that does not find its transaction comes too late: it has ended, or the
\* connection is closed.
MissedOnlyLate ==
    \A r \in Requests : handler[r] = "missed" => closed \/ trx[r] \in {"shut", "gone"}

\* A sender waits at most for room or for the close, even one that entered its select
\* when its queue was nil already.
NobodyStuck ==
    \A f \in Forwarders : forwarder[f] \notin {"idle", "gone"}
                             ~> (forwarder[f] \in {"idle", "gone"} \/ crashed)

\* Close returns, although it waits for the reader and for every transaction.
CloseReturns ==
    \A k \in AllClosers : closer[k] = "test" ~> (closer[k] = "done" \/ crashed)

\* An answer goes out over the transaction of its own request.  A second request of
\* the same id takes the entry over.
AnswersOwnRequest == \A r \in Requests : holds[r] \in {r, NoRequest}

\* Who waits in a select of Forward*Packet, on whatever channel it has evaluated, has the
\* stop to wait for or somebody that makes room: the routine, or its Close that is to
\* close StopSignal.  No run lists it; it is what NobodyStuck rests on, and is proved.
WaitersReleased ==
    \A f \in Forwarders : forwarder[f] \in {"select", "selectNil"} =>
        \/ stopped
        \/ /\ forwarder[f] = "select" /\ channels = "open"
           /\ \/ routine \in {"busy", "select"}
              \/ routine = "close" /\ closer[owner] \in {"no", "test", "stop"}

\* A connection panics only from its close on, or when a transaction of it has ended.  No
\* run lists it; it is proved.
PanicsOnlyLate == crashed => stopped \/ \E r \in Requests : trx[r] \in {"shut", "gone"}

\* StopSignal is closed once.  With more than one closer the code does not have it; with
\* the connection's own routine alone it is proved.
ClosesOnce == \A k \in AllClosers : closer[k] = "stop" => ~stopped

\* Nobody panics; no run lists it.
NoPanic == ~crashed
=============================================================================
