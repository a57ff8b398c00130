----------------------------- MODULE ServerConn -----------------------------
(***************************************************************************)
(* The connection table of the NHP server (endpoints/server/udpserver.go): *)
(* the single goroutine that reads the UDP socket, one goroutine per       *)
(* remote address, the table of online ACs and DBs, the overload flag, the *)
(* list of blocked addresses and the optional WebRTC transport that shares *)
(* the table (webrtcserver.go).                                            *)
(*                                                                         *)
(* A step is what a goroutine does between two acquisitions of a lock or   *)
(* two operations on a channel.  A connection is named by its InitTime, a  *)
(* nanosecond timestamp, here the natural number nextConn counts.          *)
(*                                                                         *)
(* A packet is PeerIds' member when it is an NHP_AOL or NHP_DOL naming     *)
(* that AC or DB, "KPL" for a keepalive and "REQ" for any other request.   *)
(* ConnectionData.Close is one step here.                                  *)
(***************************************************************************)
EXTENDS Naturals, Sequences, FiniteSets

CONSTANTS
    UdpAddrs,                 \* remote UDP addresses
    DataChannels,             \* addresses 0.0.0.0:id of WebRTC data channels
    ACIds, DBIds,             \* identities announced in NHP_AOL / NHP_DOL
    MaxConcurrentConnection,
    PreCheckThreatCountBeforeBlock,
    PacketQueueSizePerConnection,
    RecvQueueSize,            \* the device's packetToMsgQueue
    ConnBound                 \* bound: connections created in a behaviour

ASSUME ServerConnAssumption ==
    /\ IsFiniteSet(UdpAddrs) /\ IsFiniteSet(DataChannels)
    /\ UdpAddrs \cap DataChannels = {}
    /\ ACIds \cap DBIds = {}
    /\ {"KPL", "REQ"} \cap (ACIds \cup DBIds) = {}
    /\ "none" \notin UdpAddrs \cup DataChannels
    /\ MaxConcurrentConnection \in Nat \ {0}
    /\ PreCheckThreatCountBeforeBlock \in Nat
    /\ PacketQueueSizePerConnection \in Nat \ {0}
    /\ RecvQueueSize \in Nat \ {0}
    /\ ConnBound \in Nat

OverloadConnectionThreshold == (MaxConcurrentConnection * 4) \div 5

Addrs   == UdpAddrs \cup DataChannels
PeerIds == ACIds \cup DBIds
Packets == PeerIds \cup {"KPL", "REQ"}
ConnIds == 1..ConnBound
NoConn  == 0
NoAddr  == "none"

\* isACConnection / isDBConnection: fixed by the first packet received.
Kinds == {"agent", "AC", "DB"}
KindOf(p) == IF p \in ACIds THEN "AC" ELSE IF p \in DBIds THEN "DB" ELSE "agent"
IdsOf(kind) == CASE kind = "AC" -> ACIds [] kind = "DB" -> DBIds [] OTHER -> {}

\* Where connectionRoutine stands: in its loop, then in its deferred cleanup.
Phases == {"free", "running", "unregister", "unmap", "close", "done"}
InTable == {"running", "unregister", "unmap"}

VARIABLES
    phase,        \* [ConnIds -> Phases]
    addr,         \* [ConnIds -> Addrs]: RemoteAddr
    kind,         \* [ConnIds -> Kinds]
    closed,       \* [ConnIds -> BOOLEAN]: ConnectionData.closed
    recvQ,        \* [ConnIds -> Seq(Packets)]: ConnectionData.RecvQueue
    nextConn,     \* InitTime of the next connection
    connMap,      \* remoteConnectionMap
    dcOpen,       \* data channels between OnOpen and OnClose
    online,       \* acConnectionMap and dbConnectionMap, by identity
    overload,     \* device.Overload
    blockMap,     \* blockAddrMap: the addresses in it,
    blockOld,     \* and those whose expireTime has passed
    threats,      \* preCheckThreats of recvPacketRoutine
    rx,           \* recvPacketRoutine: pc, and the packet it holds
    msgs,         \* messages between RecvPacketToMsg and their handlers
    stopping      \* signals.stop closed

connVars == <<phase, addr, kind, closed, recvQ, nextConn>>
blockVars == <<blockMap, blockOld, threats>>
vars == <<connVars, connMap, dcOpen, online, overload, blockVars, rx, msgs, stopping>>

RxStates == [pc : {"idle", "lookup", "room", "insert", "forward", "stopped"},
             addr : UdpAddrs \cup {NoAddr}, pkt : Packets, conn : ConnIds \cup {NoConn}]
RxIdle == [pc |-> "idle", addr |-> NoAddr, pkt |-> "KPL", conn |-> NoConn]

\* Every variable holds a value of the Go type it models, within the bounds.
TypeOK ==
    /\ phase \in [ConnIds -> Phases]
    /\ addr \in [ConnIds -> Addrs \cup {NoAddr}]
    /\ kind \in [ConnIds -> Kinds]
    /\ closed \in [ConnIds -> BOOLEAN]
    /\ recvQ \in [ConnIds -> Seq(Packets)]
    /\ \A c \in ConnIds : Len(recvQ[c]) <= PacketQueueSizePerConnection
    /\ nextConn \in 1..(ConnBound + 1)
    /\ connMap \in [Addrs -> ConnIds \cup {NoConn}]
    /\ dcOpen \in SUBSET DataChannels
    /\ online \in [PeerIds -> ConnIds \cup {NoConn}]
    /\ overload \in BOOLEAN
    /\ blockMap \in SUBSET Addrs
    /\ blockOld \in SUBSET Addrs
    /\ threats \in [UdpAddrs -> 0..(PreCheckThreatCountBeforeBlock + 1)]
    /\ rx \in RxStates
    /\ msgs \in SUBSET (ConnIds \X Packets)
    /\ stopping \in BOOLEAN

Mapped == {a \in Addrs : connMap[a] # NoConn}
Load == Cardinality(Mapped)          \* len(remoteConnectionMap)

Init ==
    /\ phase = [c \in ConnIds |-> "free"]
    /\ addr = [c \in ConnIds |-> NoAddr]
    /\ kind = [c \in ConnIds |-> "agent"]
    /\ closed = [c \in ConnIds |-> FALSE]
    /\ recvQ = [c \in ConnIds |-> <<>>]
    /\ nextConn = 1
    /\ connMap = [a \in Addrs |-> NoConn]
    /\ dcOpen = {}
    /\ online = [i \in PeerIds |-> NoConn]
    /\ overload = FALSE
    /\ blockMap = {} /\ blockOld = {}
    /\ threats = [a \in UdpAddrs |-> 0]
    /\ rx = RxIdle
    /\ msgs = {}
    /\ stopping = FALSE

-----------------------------------------------------------------------------
(* Block list.                                                             *)

\* AddBlockAddr: a full pool refuses even to renew an address it holds.
AddBlockAddr(a) ==
    IF Cardinality(blockMap) < MaxConcurrentConnection
    THEN /\ blockMap' = blockMap \cup {a}
         /\ blockOld' = blockOld \ {a}
    ELSE UNCHANGED <<blockMap, blockOld>>

\* Ninety seconds pass for an entry.
BlockAddrExpires(a) ==
    /\ a \in blockMap \ blockOld
    /\ blockOld' = blockOld \cup {a}
    /\ UNCHANGED <<dcOpen, connVars, connMap, online, overload, blockMap, threats, rx,
                   msgs, stopping>>

\* One pass of BlockAddrRefreshRoutine.
RefreshBlockAddr ==
    /\ ~stopping
    /\ blockOld # {}
    /\ blockMap' = blockMap \ blockOld
    /\ blockOld' = {}
    /\ UNCHANGED <<dcOpen, connVars, connMap, online, overload, threats, rx, msgs, stopping>>

-----------------------------------------------------------------------------
(* recvPacketRoutine.  A packet that is too short, or comes from a blocked *)
(* address, is released and changes nothing.                               *)

\* Faulty variant: the block list is not consulted.
RecvAdmitBlocked(a, p) ==
    /\ rx.pc = "idle" /\ ~stopping
    /\ nextConn <= ConnBound
    /\ threats' = [threats EXCEPT ![a] = 0]
    /\ rx' = [pc |-> "lookup", addr |-> a, pkt |-> p, conn |-> NoConn]
    /\ UNCHANGED <<dcOpen, connVars, connMap, online, overload, blockMap, blockOld,
                   msgs, stopping>>

\* Neither blocked nor refused by RecvPrecheck.
RecvAdmit(a, p) ==
    /\ rx.pc = "idle" /\ ~stopping
    /\ nextConn <= ConnBound
    /\ a \notin blockMap
    /\ threats' = [threats EXCEPT ![a] = 0]
    /\ rx' = [pc |-> "lookup", addr |-> a, pkt |-> p, conn |-> NoConn]
    /\ UNCHANGED <<dcOpen, connVars, connMap, online, overload, blockMap, blockOld, msgs,
                   stopping>>

\* RecvPrecheck refuses the packet: wrong type for a server or wrong size.
\* The counter saturates one above the only value it is compared with.
RecvPrecheckError(a) ==
    LET n == threats[a] + 1
        limit == PreCheckThreatCountBeforeBlock IN
    /\ rx.pc = "idle" /\ ~stopping
    /\ a \notin blockMap
    /\ threats' = [threats EXCEPT ![a] = IF n > limit THEN limit + 1 ELSE n]
    /\ IF n > limit THEN AddBlockAddr(a) ELSE UNCHANGED <<blockMap, blockOld>>
    /\ UNCHANGED <<dcOpen, connVars, connMap, online, overload, rx, msgs, stopping>>

\* remoteConnectionMap[addrStr] under the lock.
RecvLookup ==
    /\ rx.pc = "lookup"
    /\ rx' = [rx EXCEPT !.pc = IF connMap[rx.addr] = NoConn THEN "room" ELSE "forward",
                        !.conn = connMap[rx.addr]]
    /\ UNCHANGED <<dcOpen, connVars, connMap, online, overload, blockVars, msgs, stopping>>

\* "create new connection if there is room": the second test is reached only
\* when the first one fails.
RecvCheckRoom ==
    /\ rx.pc = "room"
    /\ overload' = (overload \/ Load > OverloadConnectionThreshold)
    /\ rx' = IF \/ Load > OverloadConnectionThreshold
                \/ Load < MaxConcurrentConnection
             THEN [rx EXCEPT !.pc = "insert"]
             ELSE RxIdle
    /\ UNCHANGED <<dcOpen, connVars, connMap, online, blockVars, msgs, stopping>>

NewConn(c, a, k, q) ==
    /\ phase' = [phase EXCEPT ![c] = "running"]
    /\ addr' = [addr EXCEPT ![c] = a]
    /\ kind' = [kind EXCEPT ![c] = k]
    /\ recvQ' = [recvQ EXCEPT ![c] = q]
    /\ nextConn' = c + 1
    /\ connMap' = [connMap EXCEPT ![a] = c]
    /\ UNCHANGED closed

\* The lock is taken a second time to store the connection; its routine
\* starts with the packet already in RecvQueue.
RecvInsert ==
    /\ rx.pc = "insert"
    /\ nextConn <= ConnBound
    /\ NewConn(nextConn, rx.addr, KindOf(rx.pkt), <<rx.pkt>>)
    /\ rx' = RxIdle
    /\ UNCHANGED <<dcOpen, online, overload, blockVars, msgs, stopping>>

\* Faulty variants: StopSignal is not selected on; the queue has no limit.
RecvForwardDeaf ==
    /\ rx.pc = "forward"
    /\ ~closed[rx.conn]
    /\ Len(recvQ[rx.conn]) < PacketQueueSizePerConnection
    /\ recvQ' = [recvQ EXCEPT ![rx.conn] = Append(@, rx.pkt)]
    /\ rx' = RxIdle
    /\ UNCHANGED <<dcOpen, phase, addr, kind, closed, nextConn, connMap, online,
                   overload, blockVars, msgs, stopping>>
RecvForwardUnbounded ==
    /\ rx.pc = "forward"
    /\ recvQ' = IF closed[rx.conn] THEN recvQ
                ELSE [recvQ EXCEPT ![rx.conn] = Append(@, rx.pkt)]
    /\ rx' = RxIdle
    /\ UNCHANGED <<dcOpen, phase, addr, kind, closed, nextConn, connMap, online,
                   overload, blockVars, msgs, stopping>>

\* ForwardInboundPacket: blocks while RecvQueue is full, and gives the packet
\* up when the connection is closed.
RecvForward ==
    /\ rx.pc = "forward"
    /\ \/ closed[rx.conn] /\ UNCHANGED recvQ
       \/ /\ ~closed[rx.conn]
          /\ Len(recvQ[rx.conn]) < PacketQueueSizePerConnection
          /\ recvQ' = [recvQ EXCEPT ![rx.conn] = Append(@, rx.pkt)]
    /\ rx' = RxIdle
    /\ UNCHANGED <<dcOpen, phase, addr, kind, closed, nextConn, connMap, online, overload,
                   blockVars, msgs, stopping>>

\* ReadFromUDP fails once Stop has closed listenConn.
RecvStopped ==
    /\ rx.pc = "idle" /\ stopping
    /\ rx' = [rx EXCEPT !.pc = "stopped"]
    /\ UNCHANGED <<dcOpen, connVars, connMap, online, overload, blockVars, msgs, stopping>>

-----------------------------------------------------------------------------
(* connectionRoutine.                                                      *)

\* Leaving the loop starts the deferred cleanup.
LeaveLoop(c) ==
    phase' = [phase EXCEPT ![c] = IF kind[c] = "agent" THEN "unmap" ELSE "unregister"]

\* Faulty variant: the loop does not select on signals.stop.
ConnStopDeaf(c) ==
    /\ phase[c] = "running"
    /\ closed[c]
    /\ LeaveLoop(c)
    /\ UNCHANGED <<dcOpen, addr, kind, closed, recvQ, nextConn, connMap, online,
                   overload, blockVars, rx, msgs, stopping>>

\* signals.stop, or a RecvQueue closed under the routine.
ConnStop(c) ==
    /\ phase[c] = "running"
    /\ stopping \/ closed[c]
    /\ LeaveLoop(c)
    /\ UNCHANGED <<dcOpen, addr, kind, closed, recvQ, nextConn, connMap, online, overload,
                   blockVars, rx, msgs, stopping>>

\* No packet for TimeoutMs.
ConnIdleTimeout(c) ==
    /\ phase[c] = "running"
    /\ recvQ[c] = <<>>
    /\ LeaveLoop(c)
    /\ UNCHANGED <<dcOpen, addr, kind, closed, recvQ, nextConn, connMap, online, overload,
                   blockVars, rx, msgs, stopping>>

\* HeaderType is recorded by RecvPrecheck, which only recvPacketRoutine calls:
\* a packet of a data channel keeps the zero value, NHP_KPL.
HeaderType(c, p) == IF addr[c] \in DataChannels THEN "KPL" ELSE p

\* A packet leaves RecvQueue.  A keepalive is released; anything else goes to
\* the device, which drops it when its queue is full.  A response to one of the
\* server's own requests goes to its transaction instead: the send to NextPacketCh
\* blocks until that takes it or ends, which is no more than a delay of the next step
\* here, or meets a channel that is closed, which is Transaction's.
ConnReceive(c) ==
    /\ phase[c] = "running"
    /\ recvQ[c] # <<>>
    /\ recvQ' = [recvQ EXCEPT ![c] = Tail(@)]
    /\ LET t == HeaderType(c, Head(recvQ[c])) IN
       msgs' = IF t = "KPL" \/ Cardinality(msgs) >= RecvQueueSize
               THEN msgs ELSE msgs \cup {<<c, t>>}
    /\ UNCHANGED <<dcOpen, phase, addr, kind, closed, nextConn, connMap, online, overload,
                   blockVars, rx, stopping>>

\* Faulty variant: the records are not compared with the connection.
AnyRecords(c) == {i \in IdsOf(kind[c]) : online[i] # NoConn}
\* The record whose ConnData equals this connection's is removed: the first one
\* the iteration over the map meets, and only of the connection's own kind.
OwnRecords(c) == {i \in IdsOf(kind[c]) : online[i] = c}
ConnUnregister(c) ==
    /\ phase[c] = "unregister"
    /\ phase' = [phase EXCEPT ![c] = "unmap"]
    /\ IF OwnRecords(c) = {} THEN UNCHANGED online
       ELSE \E i \in OwnRecords(c) : online' = [online EXCEPT ![i] = NoConn]
    /\ UNCHANGED <<dcOpen, addr, kind, closed, recvQ, nextConn, connMap, overload, blockVars,
                   rx, msgs, stopping>>

\* Faulty variants: the entry is deleted only under load; the load is compared
\* before the entry is deleted.
ConnUnmapUnderLoad(c) ==
    /\ phase[c] = "unmap"
    /\ phase' = [phase EXCEPT ![c] = "close"]
    /\ connMap' = IF Load > OverloadConnectionThreshold + 1
                  THEN [connMap EXCEPT ![addr[c]] = NoConn] ELSE connMap
    /\ overload' = (overload /\ Load > OverloadConnectionThreshold + 1)
    /\ UNCHANGED <<dcOpen, addr, kind, closed, recvQ, nextConn, online, blockVars, rx,
                   msgs, stopping>>
ConnUnmapCountsItself(c) ==
    /\ phase[c] = "unmap"
    /\ phase' = [phase EXCEPT ![c] = "close"]
    /\ connMap' = [connMap EXCEPT ![addr[c]] = NoConn]
    /\ overload' = (overload /\ Load > OverloadConnectionThreshold)
    /\ UNCHANGED <<dcOpen, addr, kind, closed, recvQ, nextConn, online, blockVars, rx,
                   msgs, stopping>>

\* delete(remoteConnectionMap, addrStr): by address, whatever is stored there.
ConnUnmap(c) ==
    /\ phase[c] = "unmap"
    /\ phase' = [phase EXCEPT ![c] = "close"]
    /\ connMap' = [connMap EXCEPT ![addr[c]] = NoConn]
    /\ overload' = (overload /\ Cardinality(Mapped \ {addr[c]})
                                    > OverloadConnectionThreshold)
    /\ UNCHANGED <<dcOpen, addr, kind, closed, recvQ, nextConn, online, blockVars, rx, msgs,
                   stopping>>

\* conn.Close(): flushes RecvQueue and releases whoever waits to forward.
ConnClose(c) ==
    /\ phase[c] = "close"
    /\ phase' = [phase EXCEPT ![c] = "done"]
    /\ closed' = [closed EXCEPT ![c] = TRUE]
    /\ recvQ' = [recvQ EXCEPT ![c] = <<>>]
    /\ UNCHANGED <<dcOpen, addr, kind, nextConn, connMap, online, overload, blockVars, rx,
                   msgs, stopping>>

-----------------------------------------------------------------------------
(* The device's workers and the message handlers.                          *)

\* A message is handled without any effect on this module's state, or is
\* refused by the packet parser.
MsgDone(c, p) ==
    /\ <<c, p>> \in msgs
    /\ msgs' = msgs \ {<<c, p>>}
    /\ UNCHANGED <<dcOpen, connVars, connMap, online, overload, blockVars, rx, stopping>>

\* The parser judges the packet a threat once too often.  SendBlockSignal does
\* not wait: only a routine waiting in its select receives it.
MsgBlock(c, p) ==
    /\ <<c, p>> \in msgs
    /\ phase[c] = "running" /\ ~closed[c]
    /\ msgs' = msgs \ {<<c, p>>}
    /\ AddBlockAddr(addr[c])
    /\ LeaveLoop(c)
    /\ UNCHANGED <<dcOpen, addr, kind, closed, recvQ, nextConn, connMap, online, overload,
                   threats, rx, stopping>>

\* HandleACOnline / HandleDBOnline store the connection the message came from,
\* without looking at its state.
HandleOnline(c, i) ==
    /\ <<c, i>> \in msgs
    /\ msgs' = msgs \ {<<c, i>>}
    /\ online' = [online EXCEPT ![i] = c]
    /\ UNCHANGED <<dcOpen, connVars, connMap, overload, blockVars, rx, stopping>>

-----------------------------------------------------------------------------
(* The WebRTC transport: callbacks of a data channel, whose id is reused   *)
(* only after OnClose.                                                     *)

\* OnOpen stores a connection under 0.0.0.0:id, whatever is stored there.
DataChannelOpen(a) ==
    /\ ~stopping
    /\ nextConn < ConnBound
    /\ a \notin dcOpen
    /\ dcOpen' = dcOpen \cup {a}
    /\ NewConn(nextConn, a, "agent", <<>>)
    /\ UNCHANGED <<online, overload, blockVars, rx, msgs, stopping>>

\* OnMessage: a message for a connection no longer in the table is dropped.
DataChannelMessage(a, p) ==
    LET c == connMap[a] IN
    /\ a \in dcOpen /\ c # NoConn
    /\ ~closed[c]
    /\ Len(recvQ[c]) < PacketQueueSizePerConnection
    /\ recvQ' = [recvQ EXCEPT ![c] = Append(@, p)]
    /\ UNCHANGED <<phase, addr, kind, closed, nextConn, connMap, dcOpen, online,
                   overload, blockVars, rx, msgs, stopping>>

\* OnClose: removes the entry, without SetOverload, and closes the connection.
DataChannelClose(a) ==
    LET c == connMap[a] IN
    /\ a \in dcOpen
    /\ dcOpen' = dcOpen \ {a}
    /\ connMap' = [connMap EXCEPT ![a] = NoConn]
    /\ IF c = NoConn THEN UNCHANGED <<closed, recvQ>>
       ELSE /\ closed' = [closed EXCEPT ![c] = TRUE]
            /\ recvQ' = [recvQ EXCEPT ![c] = <<>>]
    /\ UNCHANGED <<phase, addr, kind, nextConn, online, overload, blockVars, rx, msgs,
                   stopping>>

-----------------------------------------------------------------------------
\* UdpServer.Stop closes signals.stop and listenConn.
Stop ==
    /\ ~stopping
    /\ stopping' = TRUE
    /\ UNCHANGED <<dcOpen, connVars, connMap, online, overload, blockVars, rx, msgs>>

Recv == RecvLookup \/ RecvCheckRoom \/ RecvInsert \/ RecvForward \/ RecvStopped

Cleanup(c) == ConnStop(c) \/ ConnUnregister(c) \/ ConnUnmap(c) \/ ConnClose(c)

Next ==
    \/ Recv
    \/ \E a \in UdpAddrs : RecvPrecheckError(a) \/ \E p \in Packets : RecvAdmit(a, p)
    \/ \E c \in ConnIds : Cleanup(c) \/ ConnIdleTimeout(c) \/ ConnReceive(c)
    \/ \E c \in ConnIds, p \in Packets : MsgDone(c, p) \/ MsgBlock(c, p)
    \/ \E c \in ConnIds, i \in PeerIds : HandleOnline(c, i)
    \/ \E a \in DataChannels : \/ DataChannelOpen(a) \/ DataChannelClose(a)
                               \/ \E p \in Packets : DataChannelMessage(a, p)
    \/ \E a \in Addrs : BlockAddrExpires(a)
    \/ RefreshBlockAddr
    \/ Stop

\* The goroutines run: the reader and every connection routine keep taking
\* steps that are enabled.  Nothing is assumed of the network, of Stop, of
\* timeouts or of the message handlers.
Fairness ==
    /\ WF_vars(Recv)
    /\ \A c \in ConnIds : WF_vars(Cleanup(c)) /\ WF_vars(ConnReceive(c))

Spec == Init /\ [][Next]_vars
FairSpec == Spec /\ Fairness

-----------------------------------------------------------------------------
(* Properties.                                                             *)

Live(c) == phase[c] \in InTable

\* The table and the routines of UDP connections agree at every moment: an
\* entry names a connection of that address whose routine has not removed it
\* yet and which is open, and every such routine is in the table, so that the
\* unconditional delete by address of connectionRoutine's cleanup never takes
\* another connection's entry.
TableMatchesRoutines ==
    /\ \A a \in UdpAddrs : connMap[a] # NoConn =>
          /\ Live(connMap[a]) /\ addr[connMap[a]] = a
          /\ ~closed[connMap[a]]
    /\ \A c \in ConnIds : Live(c) /\ addr[c] \in UdpAddrs => connMap[addr[c]] = c

\* A data channel's OnClose removes its entry and leaves the flag alone; the
\* connection's own routine has still to run its cleanup.
Orphaned(c) == Live(c) /\ connMap[addr[c]] # c

\* The overload flag, which makes the server demand cookies and refuse message
\* types, is up only while the table is above the threshold, or while the
\* routine of a data channel that went away has yet to lower it.
OverloadOnlyUnderLoad ==
    overload => \/ Load > OverloadConnectionThreshold
                \/ \E c \in ConnIds : Orphaned(c)

OnlineStep ==
    \A i \in PeerIds :
        (online[i] # NoConn /\ phase[online[i]] = "running" /\ online'[i] # online[i])
            => online'[i] # NoConn /\ <<online'[i], i>> \in msgs

\* "make sure the timeout removal here does not delete newer ac connections":
\* the record of an AC or DB that is online through a connection still in its
\* loop is only ever replaced by a newer announcement.
OnlineKept == [][OnlineStep]_vars

BlockStep ==
    \A a \in UdpAddrs \cap blockMap : rx.addr # a =>
         /\ connMap'[a] \in {connMap[a], NoConn}
         /\ rx'.addr # a
         /\ \A c \in ConnIds : addr[c] = a => Len(recvQ'[c]) <= Len(recvQ[c])

\* A blocked address gets at most the packet the reader had already admitted:
\* no packet of it is queued, and no connection made for it, once the reader
\* has let that one go.
BlockedStaysOut == [][BlockStep]_vars

\* AddBlockAddr keeps the list within the size given for the table; no run lists it,
\* it is proved in ServerConnProofs.
BlockPoolBounded == Cardinality(blockMap) <= MaxConcurrentConnection

\* One connection's full RecvQueue stops the reader of all of them; it is
\* always released, by the routine draining the queue or by Close.
ReaderReleased == (rx.pc = "forward") ~> (rx.pc \in {"idle", "stopped"})

\* Stop waits on the wait group: every connection routine ends and closes its
\* connection, also one created after signals.stop was closed.
StopDrains ==
    stopping ~> /\ rx.pc = "stopped"
                /\ \A c \in ConnIds : phase[c] \in {"free", "done"}

\* What is behind ReaderReleased: the connection whose queue the reader waits for is
\* closed, or has a routine that is to drain the queue or to close it.  No run lists it;
\* it is proved in ServerConnProofs.
ReaderHasRoutine ==
    rx.pc = "forward" => closed[rx.conn] \/ phase[rx.conn] \in InTable \cup {"close"}

\* "Reached maximum concurrent connection. Discard new packet": the table never
\* grows past MaxConcurrentConnection.  The code does not do so (udpserver.go:447
\* tests the size only below the overload threshold); no run lists it.
CapRespected == Load <= MaxConcurrentConnection

\* "Remove old ac connection record": no AC or DB is recorded online through a
\* connection that has been cleaned up.  The code does not do so (udpserver.go:515
\* looks only at connections opened by an NHP_AOL); no run lists it.
NoStaleRecord ==
    \A i \in PeerIds : online[i] # NoConn => phase[online[i]] # "done"

\* "WebRTCServer bridges a WebRTC DataChannel with the UDP server message
\* pipeline": a request taken from a data channel's queue enters the pipeline.  The
\* code does not have it (ServerConnBridge.cfg).
DataChannelBridged ==
    [][\A c \in ConnIds :
         (/\ phase[c] = "running" /\ addr[c] \in DataChannels /\ ~closed[c]
          /\ recvQ[c] # <<>> /\ Head(recvQ[c]) # "KPL"
          /\ recvQ'[c] = Tail(recvQ[c]) /\ ~closed'[c])
            => \E p \in Packets : <<c, p>> \in msgs']_vars
=============================================================================
