--------------------------- MODULE ServerConnProofs ---------------------------
(***************************************************************************)
(* Proofs about ServerConn, for any number of addresses, data channels,    *)
(* identities and connections, and any value of the server's limits.       *)
(***************************************************************************)
EXTENDS ServerConn, FiniteSetTheorems, TLAPS

\* A packet appended where there is room, or removed, keeps a RecvQueue a
\* sequence of packets within its capacity.
LEMMA QueueStep ==
    ASSUME NEW q \in Seq(Packets), NEW p \in Packets,
           Len(q) <= PacketQueueSizePerConnection
    PROVE  /\ Append(q, p) \in Seq(Packets)
           /\ Len(Append(q, p)) = Len(q) + 1
           /\ Len(q) < PacketQueueSizePerConnection
                => Len(Append(q, p)) <= PacketQueueSizePerConnection
           /\ <<p>> \in Seq(Packets) /\ Len(<<p>>) <= PacketQueueSizePerConnection
           /\ <<>> \in Seq(Packets) /\ Len(<<>>) = 0
           /\ Len(<<>>) <= PacketQueueSizePerConnection
           /\ q # <<>> => /\ Tail(q) \in Seq(Packets) /\ Head(q) \in Packets
                          /\ Len(Tail(q)) <= PacketQueueSizePerConnection
                          /\ Len(Tail(q)) <= Len(q)
  BY ServerConnAssumption

RecvQOK ==
    /\ recvQ \in [ConnIds -> Seq(Packets)]
    /\ \A c \in ConnIds : Len(recvQ[c]) <= PacketQueueSizePerConnection

\* The RecvQueue of one connection is replaced by a well-formed one.
LEMMA QueueUpdate ==
    ASSUME RecvQOK, NEW c \in ConnIds, NEW q \in Seq(Packets),
           Len(q) <= PacketQueueSizePerConnection,
           recvQ' = [recvQ EXCEPT ![c] = q]
    PROVE  RecvQOK'
  BY DEF RecvQOK

-----------------------------------------------------------------------------
(* The inductive invariant.                                                *)

\* Identifiers are given out in order; an unused one carries nothing.
Fresh ==
    /\ \A c \in ConnIds : c >= nextConn => phase[c] = "free"
    /\ \A c \in ConnIds : phase[c] = "free" => ~closed[c] /\ addr[c] = NoAddr
    /\ \A c \in ConnIds : phase[c] # "free" => addr[c] \in Addrs

\* An entry of the table names a connection of its address that is still to
\* be cleaned up.
EntriesLive ==
    \A a \in Addrs : connMap[a] # NoConn =>
        Live(connMap[a]) /\ addr[connMap[a]] = a

\* Such a connection of a UDP address is in the table and open.
UdpInTable ==
    \A c \in ConnIds : Live(c) /\ addr[c] \in UdpAddrs =>
        connMap[addr[c]] = c /\ ~closed[c]

\* What the reader holds between two lock sections: nobody else creates a
\* connection for the address it found absent.
ReaderHolds ==
    /\ rx.pc \notin {"idle", "stopped"} => rx.addr \in UdpAddrs
    /\ rx.pc \in {"room", "insert"} => connMap[rx.addr] = NoConn
    /\ rx.pc = "forward" => rx.conn \in ConnIds /\ addr[rx.conn] = rx.addr

IInv == TypeOK /\ Fresh /\ EntriesLive /\ UdpInTable /\ ReaderHolds

LEMMA InitInv == Init => IInv
  <1> SUFFICES ASSUME Init PROVE IInv
    OBVIOUS
  <1>1. RecvQOK
    BY ServerConnAssumption DEF Init, RecvQOK
  <1>2. rx \in RxStates /\ rx.pc = "idle"
    BY DEF Init, RxIdle, RxStates, Packets
  <1>3. nextConn \in 1..(ConnBound + 1)
    BY ServerConnAssumption DEF Init
  <1>4. threats \in [UdpAddrs -> 0..(PreCheckThreatCountBeforeBlock + 1)]
    BY ServerConnAssumption DEF Init
  <1>5. TypeOK
    BY <1>1, <1>2, <1>3, <1>4 DEF Init, TypeOK, RecvQOK, Phases, Kinds
  <1>6. Fresh /\ EntriesLive /\ UdpInTable /\ ReaderHolds
    BY <1>2 DEF Init, Fresh, EntriesLive, UdpInTable, ReaderHolds, Live, InTable
  <1>7. QED
    BY <1>5, <1>6 DEF IInv

\* Types are preserved, given the rest of the invariant.
LEMMA TypeStep == IInv /\ [Next]_vars => TypeOK'
  <1> SUFFICES ASSUME IInv, [Next]_vars PROVE TypeOK'
    OBVIOUS
  <1>a. RecvQOK
    BY DEF IInv, TypeOK, RecvQOK
  <1>b. NoConn \notin ConnIds /\ "KPL" \in Packets /\ PeerIds \subseteq Packets
    BY DEF ConnIds, Packets, NoConn
  <1>c. RxIdle \in RxStates
    BY DEF RxIdle, RxStates, Packets
  <1>d. TypeOK
    BY DEF IInv
  <1> USE DEF TypeOK, connVars, blockVars
  <1>1. CASE RecvLookup
    <2>1. rx' \in RxStates
      BY <1>1 DEF RecvLookup, RxStates, Addrs, IInv, ReaderHolds
    <2>2. QED
      BY <1>1, <1>d, <2>1 DEF RecvLookup
  <1>2. CASE RecvCheckRoom
    <2>1. rx' \in RxStates
      BY <1>2, <1>c, <1>d DEF RecvCheckRoom, RxStates
    <2>2. QED
      BY <1>2, <1>d, <2>1 DEF RecvCheckRoom
  <1>3. CASE RecvInsert
    <2>1. rx.pkt \in Packets /\ rx.addr \in UdpAddrs
      BY <1>3, <1>d DEF RecvInsert, RxStates, IInv, ReaderHolds
    <2>2. nextConn \in ConnIds /\ nextConn + 1 \in 1..(ConnBound + 1)
      BY <1>3, <1>d, ServerConnAssumption DEF RecvInsert, ConnIds
    <2>3. RecvQOK'
      BY <1>3, <1>a, <2>1, <2>2, QueueStep, QueueUpdate DEF RecvInsert, NewConn, RecvQOK
    <2>4. KindOf(rx.pkt) \in Kinds
      BY DEF KindOf, Kinds
    <2>5. QED
      BY <1>3, <1>c, <1>d, <2>1, <2>2, <2>3, <2>4
      DEF RecvInsert, NewConn, RecvQOK, Addrs, Phases
  <1>4. CASE RecvForward
    <2>1. rx.conn \in ConnIds /\ rx.pkt \in Packets
      BY <1>4, <1>d DEF RecvForward, RxStates, IInv, ReaderHolds
    <2>2. RecvQOK'
      <3>1. CASE closed[rx.conn]
        BY <1>4, <1>a, <3>1 DEF RecvForward, RecvQOK
      <3>2. CASE ~closed[rx.conn]
        BY <1>4, <1>a, <2>1, <3>2, QueueStep, QueueUpdate DEF RecvForward, RecvQOK
      <3>3. QED
        BY <3>1, <3>2
    <2>3. QED
      BY <1>4, <1>c, <1>d, <2>2 DEF RecvForward, RecvQOK
  <1>5. CASE RecvStopped
    <2>1. rx' \in RxStates
      BY <1>5, <1>d DEF RecvStopped, RxStates
    <2>2. QED
      BY <1>5, <1>d, <2>1 DEF RecvStopped
  <1>6. ASSUME NEW a \in UdpAddrs, RecvPrecheckError(a) PROVE TypeOK'
    <2>1. threats' \in [UdpAddrs -> 0..(PreCheckThreatCountBeforeBlock + 1)]
      BY <1>6, <1>d, ServerConnAssumption DEF RecvPrecheckError
    <2>2. blockMap' \in SUBSET Addrs /\ blockOld' \in SUBSET Addrs
      BY <1>6, <1>d DEF RecvPrecheckError, AddBlockAddr, Addrs
    <2>3. QED
      BY <1>6, <1>d, <2>1, <2>2 DEF RecvPrecheckError
  <1>7. ASSUME NEW a \in UdpAddrs, NEW p \in Packets, RecvAdmit(a, p) PROVE TypeOK'
    <2>1. threats' \in [UdpAddrs -> 0..(PreCheckThreatCountBeforeBlock + 1)]
      BY <1>7, <1>d, ServerConnAssumption DEF RecvAdmit
    <2>2. rx' \in RxStates
      BY <1>7 DEF RecvAdmit, RxStates
    <2>3. QED
      BY <1>7, <1>d, <2>1, <2>2 DEF RecvAdmit
  <1>8. ASSUME NEW c \in ConnIds, ConnStop(c) \/ ConnIdleTimeout(c) PROVE TypeOK'
    BY <1>8, <1>d DEF ConnStop, ConnIdleTimeout, LeaveLoop, Phases
  <1>9. ASSUME NEW c \in ConnIds, ConnUnregister(c) PROVE TypeOK'
    BY <1>9, <1>d DEF ConnUnregister, OwnRecords, Phases
  <1>10. ASSUME NEW c \in ConnIds, ConnUnmap(c) PROVE TypeOK'
    BY <1>10, <1>d DEF ConnUnmap, Phases
  <1>11. ASSUME NEW c \in ConnIds, ConnClose(c) PROVE TypeOK'
    <2>1. RecvQOK'
      BY <1>11, <1>a, <1>b, QueueStep, QueueUpdate DEF ConnClose, RecvQOK
    <2>2. QED
      BY <1>11, <1>d, <2>1 DEF ConnClose, RecvQOK, Phases
  <1>12. ASSUME NEW c \in ConnIds, ConnReceive(c) PROVE TypeOK'
    <2>1. RecvQOK' /\ Head(recvQ[c]) \in Packets
      BY <1>12, <1>a, <1>b, QueueStep, QueueUpdate DEF ConnReceive, RecvQOK
    <2>2. msgs' \in SUBSET (ConnIds \X Packets)
      BY <1>12, <1>b, <1>d, <2>1 DEF ConnReceive, HeaderType
    <2>3. QED
      BY <1>12, <1>d, <2>1, <2>2 DEF ConnReceive, RecvQOK
  <1>13. ASSUME NEW c \in ConnIds, NEW p \in Packets, MsgDone(c, p) PROVE TypeOK'
    BY <1>13, <1>d DEF MsgDone
  <1>14. ASSUME NEW c \in ConnIds, NEW p \in Packets, MsgBlock(c, p) PROVE TypeOK'
    <2>1. addr[c] \in Addrs
      BY <1>14 DEF MsgBlock, IInv, Fresh
    <2>2. blockMap' \in SUBSET Addrs /\ blockOld' \in SUBSET Addrs
      BY <1>14, <1>d, <2>1 DEF MsgBlock, AddBlockAddr
    <2>3. QED
      BY <1>14, <1>d, <2>2 DEF MsgBlock, LeaveLoop, Phases
  <1>15. ASSUME NEW c \in ConnIds, NEW i \in PeerIds, HandleOnline(c, i) PROVE TypeOK'
    BY <1>15, <1>d DEF HandleOnline
  <1>16. ASSUME NEW a \in DataChannels, DataChannelOpen(a) PROVE TypeOK'
    <2>1. nextConn \in ConnIds /\ nextConn + 1 \in 1..(ConnBound + 1)
      BY <1>16, <1>d, ServerConnAssumption DEF DataChannelOpen, ConnIds
    <2>2. RecvQOK'
      BY <1>16, <1>a, <1>b, <2>1, QueueStep, QueueUpdate
      DEF DataChannelOpen, NewConn, RecvQOK
    <2>3. QED
      BY <1>16, <1>d, <2>1, <2>2 DEF DataChannelOpen, NewConn, RecvQOK, Addrs, Phases, Kinds
  <1>17. ASSUME NEW a \in DataChannels, DataChannelClose(a) PROVE TypeOK'
    <2>1. RecvQOK' /\ closed' \in [ConnIds -> BOOLEAN]
      <3>1. CASE connMap[a] = NoConn
        BY <1>17, <1>a, <1>d, <3>1 DEF DataChannelClose, RecvQOK
      <3>2. CASE connMap[a] # NoConn
        <4>1. connMap[a] \in ConnIds
          BY <1>d, <3>2 DEF Addrs
        <4>2. QED
          BY <1>17, <1>a, <1>b, <1>d, <3>2, <4>1, QueueStep, QueueUpdate
          DEF DataChannelClose, RecvQOK
      <3>3. QED
        BY <3>1, <3>2
    <2>2. QED
      BY <1>17, <1>d, <2>1 DEF DataChannelClose, RecvQOK, Addrs
  <1>18. ASSUME NEW a \in DataChannels, NEW p \in Packets, DataChannelMessage(a, p)
         PROVE  TypeOK'
    <2>1. connMap[a] \in ConnIds
      BY <1>18, <1>d DEF DataChannelMessage, Addrs
    <2>2. RecvQOK'
      BY <1>18, <1>a, <2>1, QueueStep, QueueUpdate DEF DataChannelMessage, RecvQOK
    <2>3. QED
      BY <1>18, <1>d, <2>2 DEF DataChannelMessage, RecvQOK
  <1>19. CASE (\E a \in Addrs : BlockAddrExpires(a)) \/ RefreshBlockAddr
    BY <1>19, <1>d DEF BlockAddrExpires, RefreshBlockAddr
  <1>20. CASE Stop
    BY <1>20, <1>d DEF Stop
  <1>21. CASE UNCHANGED vars
    BY <1>21, <1>d DEF vars
  <1>22. QED
    BY <1>1, <1>2, <1>3, <1>4, <1>5, <1>6, <1>7, <1>8, <1>9, <1>10, <1>11, <1>12,
       <1>13, <1>14, <1>15, <1>16, <1>17, <1>18, <1>19, <1>20, <1>21
    DEF Next, Recv, Cleanup

\* What Fresh, EntriesLive, UdpInTable and ReaderHolds speak of.
Shape == Fresh /\ EntriesLive /\ UdpInTable /\ ReaderHolds

\* A step that leaves the connections, the table and the reader alone.
LEMMA ShapeUnchanged ==
    ASSUME IInv, UNCHANGED <<phase, addr, closed, nextConn, connMap, rx>>
    PROVE  Shape'
  BY DEF IInv, Shape, Fresh, EntriesLive, UdpInTable, ReaderHolds, Live

\* A routine that leaves its loop, or removes its own record, stays in the table.
LEMMA ShapeCleanup ==
    ASSUME IInv, NEW c \in ConnIds, phase[c] \in InTable,
           NEW f \in InTable, phase' = [phase EXCEPT ![c] = f],
           UNCHANGED <<addr, closed, nextConn, connMap, rx>>
    PROVE  Shape'
  BY DEF IInv, TypeOK, Shape, Fresh, EntriesLive, UdpInTable, ReaderHolds, Live, InTable

\* A new connection for an address with no entry, or for a data channel.
LEMMA ShapeNewConn ==
    ASSUME IInv, nextConn \in ConnIds, NEW a \in Addrs, NEW k, NEW q,
           connMap[a] = NoConn \/ a \in DataChannels,
           NewConn(nextConn, a, k, q),
           rx' = rx \/ rx'.pc = "idle",
           rx' = rx => a \in DataChannels
    PROVE  Shape'
  <1> DEFINE n == nextConn
  <1>1. phase[n] = "free" /\ ~closed[n] /\ n # NoConn /\ n \in Nat
    BY DEF IInv, Fresh, ConnIds, NoConn
  <1>2. /\ phase' = [phase EXCEPT ![n] = "running"]
        /\ addr' = [addr EXCEPT ![n] = a] /\ connMap' = [connMap EXCEPT ![a] = n]
        /\ nextConn' = n + 1 /\ closed' = closed
    BY DEF NewConn
  <1>3. /\ phase \in [ConnIds -> Phases] /\ connMap \in [Addrs -> ConnIds \cup {NoConn}]
        /\ addr \in [ConnIds -> Addrs \cup {NoAddr}] /\ nextConn \in Nat
    BY <1>1 DEF IInv, TypeOK
  <1>a. /\ \A c \in ConnIds \ {n} : phase'[c] = phase[c] /\ addr'[c] = addr[c]
        /\ phase'[n] = "running" /\ addr'[n] = a
        /\ connMap'[a] = n /\ \A b \in Addrs \ {a} : connMap'[b] = connMap[b]
    BY <1>2, <1>3
  <1>b. NoAddr \notin Addrs /\ UdpAddrs \subseteq Addrs /\ UdpAddrs \cap DataChannels = {}
    BY ServerConnAssumption DEF Addrs, NoAddr
  <1>4. Fresh'
    <2>1. \A c \in ConnIds : c >= n + 1 => c >= n /\ c # n
      BY <1>3 DEF ConnIds
    <2>2. QED
      BY <1>1, <1>2, <1>a, <2>1 DEF IInv, Fresh
  <1>5. EntriesLive'
    <2>1. \A b \in Addrs \ {a} : connMap[b] # n
      BY <1>1 DEF IInv, EntriesLive, Live, InTable
    <2>2. \A b \in Addrs \ {a} : connMap[b] # NoConn => connMap[b] \in ConnIds
      BY <1>3
    <2>3. QED
      BY <1>1, <1>a, <2>1, <2>2 DEF IInv, EntriesLive, Live, InTable
  <1>6. UdpInTable'
    <2> SUFFICES ASSUME NEW c \in ConnIds, Live(c)', addr'[c] \in UdpAddrs
                 PROVE  connMap'[addr'[c]] = c /\ ~closed'[c]
      BY DEF UdpInTable
    <2>1. CASE c = n
      BY <1>1, <1>2, <1>a, <2>1
    <2>2. CASE c # n
      <3>1. Live(c) /\ addr[c] = addr'[c]
        BY <1>a, <2>2 DEF Live
      <3>2. connMap[addr[c]] = c /\ ~closed[c]
        BY <3>1 DEF IInv, UdpInTable
      <3>3. addr[c] # a
        BY <1>b, <3>1, <3>2 DEF ConnIds, NoConn
      <3>4. QED
        BY <1>2, <1>a, <1>b, <3>1, <3>2, <3>3
    <2>3. QED
      BY <2>1, <2>2
  <1>7. ReaderHolds'
    <2>1. CASE rx'.pc = "idle"
      BY <2>1 DEF ReaderHolds
    <2>2. CASE rx' = rx
      <3>1. rx.addr \in UdpAddrs => rx.addr # a
        BY <1>b, <2>2
      <3>2. rx.pc = "forward" => rx.conn # n
        BY <1>1, <1>b DEF IInv, ReaderHolds, Fresh
      <3>3. QED
        BY <1>a, <1>b, <2>2, <3>1, <3>2 DEF IInv, ReaderHolds
    <2>3. QED
      BY <2>1, <2>2
  <1>8. QED
    BY <1>4, <1>5, <1>6, <1>7 DEF Shape

\* The table keeps matching the routines.
LEMMA ShapeStep == IInv /\ [Next]_vars => Shape'
  <1> SUFFICES ASSUME IInv, [Next]_vars PROVE Shape'
    OBVIOUS
  <1>a. TypeOK
    BY DEF IInv
  <1> USE DEF connVars, blockVars
  <1>1. CASE RecvLookup
    <2>1. rx.addr \in UdpAddrs /\ rx.addr \in Addrs
      BY <1>1 DEF RecvLookup, IInv, ReaderHolds, Addrs
    <2>2. ReaderHolds'
      BY <1>1, <1>a, <2>1 DEF RecvLookup, ReaderHolds, TypeOK, RxStates, IInv, EntriesLive
    <2>3. QED
      BY <1>1, <2>2 DEF RecvLookup, IInv, Shape, Fresh, EntriesLive, UdpInTable, Live
  <1>2. CASE RecvCheckRoom
    <2>1. ReaderHolds'
      BY <1>2, <1>a DEF RecvCheckRoom, ReaderHolds, TypeOK, RxStates, RxIdle, IInv
    <2>2. QED
      BY <1>2, <2>1 DEF RecvCheckRoom, IInv, Shape, Fresh, EntriesLive, UdpInTable, Live
  <1>3. CASE RecvInsert
    <2>1. rx.addr \in Addrs /\ connMap[rx.addr] = NoConn
      BY <1>3 DEF RecvInsert, IInv, ReaderHolds, Addrs
    <2>2. nextConn \in ConnIds
      BY <1>3, <1>a DEF RecvInsert, ConnIds, TypeOK
    <2>3. rx'.pc = "idle" /\ rx' # rx
      <3>1. rx.pc = "insert" /\ rx' = RxIdle
        BY <1>3 DEF RecvInsert
      <3>2. RxIdle.pc = "idle"
        BY DEF RxIdle
      <3>3. QED
        BY <3>1, <3>2
    <2>4. NewConn(nextConn, rx.addr, KindOf(rx.pkt), <<rx.pkt>>)
      BY <1>3 DEF RecvInsert
    <2>5. QED
      BY <2>1, <2>2, <2>3, <2>4, ShapeNewConn
  <1>4. CASE RecvForward \/ RecvStopped
    <2>1. ReaderHolds'
      BY <1>4, <1>a DEF RecvForward, RecvStopped, RxIdle, ReaderHolds, TypeOK, RxStates
    <2>2. QED
      BY <1>4, <2>1
      DEF RecvForward, RecvStopped, IInv, Shape, Fresh, EntriesLive, UdpInTable, Live
  <1>5. ASSUME NEW a \in UdpAddrs, RecvPrecheckError(a) PROVE Shape'
    BY <1>5, ShapeUnchanged DEF RecvPrecheckError
  <1>6. ASSUME NEW a \in UdpAddrs, NEW p \in Packets, RecvAdmit(a, p) PROVE Shape'
    <2>1. ReaderHolds'
      BY <1>6 DEF RecvAdmit, ReaderHolds
    <2>2. QED
      BY <1>6, <2>1 DEF RecvAdmit, IInv, Shape, Fresh, EntriesLive, UdpInTable, Live
  <1>7. ASSUME NEW c \in ConnIds, ConnStop(c) \/ ConnIdleTimeout(c) PROVE Shape'
    BY <1>7, ShapeCleanup DEF ConnStop, ConnIdleTimeout, LeaveLoop, InTable
  <1>8. ASSUME NEW c \in ConnIds, ConnUnregister(c) PROVE Shape'
    BY <1>8, ShapeCleanup DEF ConnUnregister, InTable
  <1>9. ASSUME NEW c \in ConnIds, ConnUnmap(c) PROVE Shape'
    <2>1. addr[c] \in Addrs
      BY <1>9 DEF ConnUnmap, IInv, Fresh
    <2>2. /\ \A d \in ConnIds \ {c} : phase'[d] = phase[d]
          /\ phase'[c] = "close" /\ UNCHANGED <<addr, closed, nextConn, rx>>
          /\ connMap'[addr[c]] = NoConn
          /\ \A b \in Addrs \ {addr[c]} : connMap'[b] = connMap[b]
      BY <1>9, <1>a, <2>1 DEF ConnUnmap, TypeOK
    <2>3. Fresh'
      BY <1>9, <2>2 DEF ConnUnmap, IInv, Fresh
    <2>4. EntriesLive'
      <3> SUFFICES ASSUME NEW b \in Addrs, connMap'[b] # NoConn
                   PROVE  phase'[connMap'[b]] \in InTable /\ addr'[connMap'[b]] = b
        BY DEF EntriesLive, Live
      <3>1. b # addr[c] /\ connMap'[b] = connMap[b]
        BY <2>2
      <3>2. connMap[b] \in ConnIds
        BY <1>a, <3>1 DEF TypeOK
      <3>3. Live(connMap[b]) /\ addr[connMap[b]] = b
        BY <3>1 DEF IInv, EntriesLive
      <3>4. connMap[b] # c
        BY <3>1, <3>3
      <3>5. QED
        BY <2>2, <3>1, <3>2, <3>3, <3>4 DEF Live
    <2>5. UdpInTable'
      <3> SUFFICES ASSUME NEW d \in ConnIds, Live(d)', addr'[d] \in UdpAddrs
                   PROVE  connMap'[addr'[d]] = d /\ ~closed'[d]
        BY DEF UdpInTable
      <3>1. d # c /\ Live(d) /\ connMap[addr[d]] = d /\ ~closed[d]
        BY <2>2 DEF Live, InTable, IInv, UdpInTable
      <3>2. Live(c)
        BY <1>9 DEF ConnUnmap, Live, InTable
      <3>3. addr[d] # addr[c]
        BY <2>2, <3>1, <3>2 DEF IInv, UdpInTable
      <3>4. QED
        BY <2>2, <3>1, <3>3 DEF Addrs
    <2>6. ReaderHolds'
      BY <1>a, <2>1, <2>2 DEF IInv, ReaderHolds, Addrs
    <2>7. QED
      BY <2>3, <2>4, <2>5, <2>6 DEF Shape
  <1>10. ASSUME NEW c \in ConnIds, ConnClose(c) PROVE Shape'
    <2>1. /\ \A d \in ConnIds \ {c} : phase'[d] = phase[d] /\ closed'[d] = closed[d]
          /\ phase[c] = "close" /\ phase'[c] = "done"
          /\ UNCHANGED <<addr, nextConn, connMap, rx>>
      BY <1>10, <1>a DEF ConnClose, TypeOK
    <2>2. Fresh' /\ ReaderHolds'
      BY <2>1 DEF IInv, Fresh, ReaderHolds
    <2>3. EntriesLive'
      BY <1>a, <2>1 DEF IInv, EntriesLive, Live, InTable, TypeOK
    <2>4. UdpInTable'
      BY <2>1 DEF IInv, UdpInTable, Live, InTable
    <2>5. QED
      BY <2>2, <2>3, <2>4 DEF Shape
  <1>11. ASSUME NEW c \in ConnIds, ConnReceive(c) PROVE Shape'
    BY <1>11, ShapeUnchanged DEF ConnReceive
  <1>12. ASSUME NEW c \in ConnIds, NEW p \in Packets, MsgDone(c, p) PROVE Shape'
    BY <1>12, ShapeUnchanged DEF MsgDone
  <1>13. ASSUME NEW c \in ConnIds, NEW p \in Packets, MsgBlock(c, p) PROVE Shape'
    BY <1>13, ShapeCleanup DEF MsgBlock, LeaveLoop, InTable
  <1>14. ASSUME NEW c \in ConnIds, NEW i \in PeerIds, HandleOnline(c, i) PROVE Shape'
    BY <1>14, ShapeUnchanged DEF HandleOnline
  <1>15. ASSUME NEW a \in DataChannels, DataChannelOpen(a) PROVE Shape'
    <2>1. nextConn \in ConnIds /\ a \in Addrs
      BY <1>15, <1>a, ServerConnAssumption DEF DataChannelOpen, ConnIds, TypeOK, Addrs
    <2>2. QED
      BY <1>15, <2>1, ShapeNewConn DEF DataChannelOpen
  <1>16. ASSUME NEW a \in DataChannels, DataChannelClose(a) PROVE Shape'
    <2>1. a \in Addrs /\ a \notin UdpAddrs
      BY ServerConnAssumption DEF Addrs
    <2>2. /\ UNCHANGED <<phase, addr, nextConn, rx>>
          /\ connMap'[a] = NoConn /\ \A b \in Addrs \ {a} : connMap'[b] = connMap[b]
          /\ \A d \in ConnIds : d # connMap[a] => closed'[d] = closed[d]
      BY <1>16, <1>a, <2>1 DEF DataChannelClose, TypeOK
    <2>3. connMap[a] # NoConn => Live(connMap[a]) /\ addr[connMap[a]] = a
      BY <2>1 DEF IInv, EntriesLive
    <2>4. Fresh'
      BY <1>a, <2>2, <2>3 DEF IInv, Fresh, Live, InTable, ConnIds, NoConn
    <2>5. EntriesLive'
      BY <2>2 DEF IInv, EntriesLive, Live
    <2>6. UdpInTable'
      BY <2>1, <2>2, <2>3 DEF IInv, UdpInTable, Live, Addrs, ConnIds, NoConn
    <2>7. ReaderHolds'
      BY <2>1, <2>2 DEF IInv, ReaderHolds, Addrs
    <2>8. QED
      BY <2>4, <2>5, <2>6, <2>7 DEF Shape
  <1>17. ASSUME NEW a \in DataChannels, NEW p \in Packets, DataChannelMessage(a, p)
         PROVE  Shape'
    BY <1>17, ShapeUnchanged DEF DataChannelMessage
  <1>18. CASE (\E a \in Addrs : BlockAddrExpires(a)) \/ RefreshBlockAddr
    BY <1>18, ShapeUnchanged DEF BlockAddrExpires, RefreshBlockAddr
  <1>19. CASE Stop \/ UNCHANGED vars
    BY <1>19, ShapeUnchanged DEF Stop, vars
  <1>20. QED
    BY <1>1, <1>2, <1>3, <1>4, <1>5, <1>6, <1>7, <1>8, <1>9, <1>10, <1>11, <1>12,
       <1>13, <1>14, <1>15, <1>16, <1>17, <1>18, <1>19
    DEF Next, Recv, Cleanup

\* The inductive invariant holds in every reachable state.
THEOREM Invariance == Spec => []IInv
<1>1. Init => IInv
  BY InitInv
<1>2. IInv /\ [Next]_vars => IInv'
  BY TypeStep, ShapeStep DEF IInv, Shape
<1>3. QED
  BY <1>1, <1>2, PTL DEF Spec

\* Every variable keeps its type, and every RecvQueue its capacity.
THEOREM TypeCorrect == Spec => []TypeOK
<1>1. IInv => TypeOK
  BY DEF IInv
<1>2. QED
  BY <1>1, Invariance, PTL

\* The table matches the routines: connectionRoutine's delete by address never
\* removes the entry of another UDP connection, and the reader never forwards
\* to a UDP connection that was closed while in the table.
THEOREM TableAlwaysMatches == Spec => []TableMatchesRoutines
<1>1. IInv => TableMatchesRoutines
  BY DEF IInv, TypeOK, EntriesLive, UdpInTable, TableMatchesRoutines, Addrs
<1>2. QED
  BY <1>1, Invariance, PTL

-----------------------------------------------------------------------------
(* The overload flag.                                                      *)

\* A larger table has a larger length.
LEMMA LoadGrows ==
    ASSUME Mapped \subseteq Mapped'
    PROVE  Load <= Load' /\ Load \in Nat /\ Load' \in Nat
  <1>1. IsFiniteSet(Addrs)
    BY ServerConnAssumption, FS_Union DEF Addrs
  <1>2. IsFiniteSet(Mapped) /\ IsFiniteSet(Mapped')
    BY <1>1, FS_Subset DEF Mapped
  <1>3. QED
    BY <1>2, FS_Subset, FS_CardinalityType DEF Load

\* A step that neither raises the flag, nor shrinks the table, nor ends the
\* cleanup of a connection, preserves the property.
LEMMA OverloadKept ==
    ASSUME OverloadOnlyUnderLoad, overload' => overload, Mapped \subseteq Mapped',
           \A c \in ConnIds : Orphaned(c) => Orphaned(c)'
    PROVE  OverloadOnlyUnderLoad'
  <1>1. OverloadConnectionThreshold \in Nat
    BY ServerConnAssumption DEF OverloadConnectionThreshold
  <1>2. QED
    BY <1>1, LoadGrows DEF OverloadOnlyUnderLoad

\* A new connection takes no entry from one that is being cleaned up.
LEMMA OverloadNewConn ==
    ASSUME IInv, OverloadOnlyUnderLoad, nextConn \in ConnIds, NEW a \in Addrs,
           NEW k, NEW q, NewConn(nextConn, a, k, q), overload' = overload
    PROVE  OverloadOnlyUnderLoad'
  <1>1. /\ phase[nextConn] = "free" /\ nextConn # NoConn
        /\ phase \in [ConnIds -> Phases] /\ connMap \in [Addrs -> ConnIds \cup {NoConn}]
        /\ addr \in [ConnIds -> Addrs \cup {NoAddr}]
    BY DEF IInv, Fresh, TypeOK, ConnIds, NoConn
  <1>2. /\ \A c \in ConnIds \ {nextConn} : phase'[c] = phase[c] /\ addr'[c] = addr[c]
        /\ connMap'[a] = nextConn /\ \A b \in Addrs \ {a} : connMap'[b] = connMap[b]
    BY <1>1 DEF NewConn
  <1>3. Mapped \subseteq Mapped'
    BY <1>1, <1>2 DEF Mapped
  <1>4. ASSUME NEW c \in ConnIds, Orphaned(c) PROVE Orphaned(c)'
    <2>1. c # nextConn /\ addr[c] \in Addrs
      BY <1>1, <1>4 DEF Orphaned, Live, InTable, IInv, Fresh
    <2>2. QED
      BY <1>2, <1>4, <2>1 DEF Orphaned, Live
  <1>5. QED
    BY <1>3, <1>4, OverloadKept

LEMMA OverloadStep == IInv /\ OverloadOnlyUnderLoad /\ [Next]_vars => OverloadOnlyUnderLoad'
  <1> SUFFICES ASSUME IInv, OverloadOnlyUnderLoad, [Next]_vars
               PROVE  OverloadOnlyUnderLoad'
    OBVIOUS
  <1> USE DEF connVars, blockVars
  <1>a. ASSUME UNCHANGED <<phase, addr, connMap, overload>> PROVE OverloadOnlyUnderLoad'
    BY <1>a DEF OverloadOnlyUnderLoad, Load, Mapped, Orphaned, Live
  <1>b. ASSUME NEW c \in ConnIds, NEW f \in Phases, phase[c] \in InTable => f \in InTable,
               phase' = [phase EXCEPT ![c] = f], UNCHANGED <<addr, connMap, overload>>
        PROVE  OverloadOnlyUnderLoad'
    <2>1. Mapped' = Mapped
      BY <1>b DEF Mapped
    <2>2. \A d \in ConnIds : Orphaned(d) => Orphaned(d)'
      BY <1>b DEF Orphaned, Live, IInv, TypeOK
    <2>3. QED
      BY <1>b, <2>1, <2>2, OverloadKept
  <1>1. CASE RecvCheckRoom
    <2>1. Load' = Load /\ \A c \in ConnIds : Orphaned(c)' <=> Orphaned(c)
      BY <1>1 DEF RecvCheckRoom, Load, Mapped, Orphaned, Live
    <2>2. QED
      BY <1>1, <2>1 DEF RecvCheckRoom, OverloadOnlyUnderLoad
  <1>2. CASE RecvInsert
    <2>1. rx.addr \in Addrs
      BY <1>2 DEF RecvInsert, IInv, ReaderHolds, Addrs
    <2>2. nextConn \in ConnIds
      BY <1>2 DEF RecvInsert, ConnIds, IInv, TypeOK
    <2>3. QED
      BY <1>2, <2>1, <2>2, OverloadNewConn DEF RecvInsert
  <1>3. ASSUME NEW c \in ConnIds, ConnUnmap(c) PROVE OverloadOnlyUnderLoad'
    <2>1. Mapped' = Mapped \ {addr[c]}
      BY <1>3 DEF ConnUnmap, Mapped, IInv, TypeOK, Fresh
    <2>2. QED
      BY <1>3, <2>1 DEF ConnUnmap, OverloadOnlyUnderLoad, Load
  <1>4. ASSUME NEW a \in DataChannels, DataChannelOpen(a) PROVE OverloadOnlyUnderLoad'
    <2>1. nextConn \in ConnIds /\ a \in Addrs
      BY <1>4, ServerConnAssumption DEF DataChannelOpen, ConnIds, IInv, TypeOK, Addrs
    <2>2. QED
      BY <1>4, <2>1, OverloadNewConn DEF DataChannelOpen
  <1>5. ASSUME NEW a \in DataChannels, DataChannelClose(a) PROVE OverloadOnlyUnderLoad'
    <2>1. a \in Addrs /\ connMap \in [Addrs -> ConnIds \cup {NoConn}]
      BY DEF Addrs, IInv, TypeOK
    <2>2. connMap' = [connMap EXCEPT ![a] = NoConn] /\ UNCHANGED <<phase, addr, overload>>
      BY <1>5 DEF DataChannelClose
    <2>3. CASE connMap[a] = NoConn
      BY <1>a, <2>1, <2>2, <2>3
    <2>4. CASE connMap[a] # NoConn
      <3>1. connMap[a] \in ConnIds /\ NoConn \notin ConnIds
        BY <2>1, <2>4 DEF ConnIds, NoConn
      <3>2. Live(connMap[a]) /\ addr[connMap[a]] = a
        BY <2>1, <2>4 DEF IInv, EntriesLive
      <3>3. PICK c \in ConnIds : c = connMap[a]
        BY <3>1
      <3>4. Orphaned(c)'
        BY <2>1, <2>2, <3>1, <3>2, <3>3 DEF Orphaned, Live
      <3>5. QED
        BY <3>4 DEF OverloadOnlyUnderLoad
    <2>5. QED
      BY <2>3, <2>4
  <1>6. ASSUME NEW c \in ConnIds, ConnStop(c) \/ ConnIdleTimeout(c) PROVE OverloadOnlyUnderLoad'
    BY <1>6, <1>b DEF ConnStop, ConnIdleTimeout, LeaveLoop, InTable, Phases
  <1>7. ASSUME NEW c \in ConnIds, ConnUnregister(c) \/ ConnClose(c) PROVE OverloadOnlyUnderLoad'
    BY <1>7, <1>b DEF ConnUnregister, ConnClose, InTable, Phases
  <1>8. ASSUME NEW c \in ConnIds, NEW p \in Packets, MsgBlock(c, p) PROVE OverloadOnlyUnderLoad'
    BY <1>8, <1>b DEF MsgBlock, LeaveLoop, InTable, Phases
  <1>9. CASE RecvLookup \/ RecvForward \/ RecvStopped \/ RefreshBlockAddr \/ Stop
    BY <1>9, <1>a DEF RecvLookup, RecvForward, RecvStopped, RefreshBlockAddr, Stop
  <1>10. ASSUME NEW a \in UdpAddrs, NEW p \in Packets, RecvPrecheckError(a) \/ RecvAdmit(a, p)
         PROVE  OverloadOnlyUnderLoad'
    BY <1>10, <1>a DEF RecvPrecheckError, RecvAdmit
  <1>11. ASSUME NEW c \in ConnIds, NEW p \in Packets, ConnReceive(c) \/ MsgDone(c, p)
         PROVE  OverloadOnlyUnderLoad'
    BY <1>11, <1>a DEF ConnReceive, MsgDone
  <1>12. ASSUME NEW c \in ConnIds, NEW i \in PeerIds, HandleOnline(c, i)
         PROVE  OverloadOnlyUnderLoad'
    BY <1>12, <1>a DEF HandleOnline
  <1>13. ASSUME NEW a \in Addrs, NEW p \in Packets, DataChannelMessage(a, p) \/ BlockAddrExpires(a)
         PROVE  OverloadOnlyUnderLoad'
    BY <1>13, <1>a DEF DataChannelMessage, BlockAddrExpires
  <1>14. CASE UNCHANGED vars
    BY <1>14, <1>a DEF vars
  <1>15. "KPL" \in Packets /\ DataChannels \subseteq Addrs
    BY DEF Packets, Addrs
  <1>16. QED
    BY <1>1, <1>2, <1>3, <1>4, <1>5, <1>6, <1>7, <1>8, <1>9, <1>10, <1>11, <1>12, <1>13,
       <1>14, <1>15
    DEF Next, Recv, Cleanup

\* The overload flag is never left up: it is set only while the table is above
\* the threshold or a connection routine that will lower it is still to run.
THEOREM OverloadNeverLeftUp == Spec => []OverloadOnlyUnderLoad
<1>1. Init => OverloadOnlyUnderLoad
  BY DEF Init, OverloadOnlyUnderLoad
<1>2. IInv /\ OverloadOnlyUnderLoad /\ [Next]_vars => OverloadOnlyUnderLoad'
  BY OverloadStep
<1>3. QED
  BY <1>1, <1>2, Invariance, PTL DEF Spec

-----------------------------------------------------------------------------
(* Action properties.                                                      *)

\* Only the two handlers of announcements and the cleanup touch the records.
LEMMA OnlineStepHolds == IInv /\ [Next]_vars => OnlineStep
  <1> SUFFICES ASSUME IInv, [Next]_vars PROVE OnlineStep
    OBVIOUS
  <1>1. CASE online' = online
    BY <1>1 DEF OnlineStep
  <1>2. ASSUME NEW c \in ConnIds, ConnUnregister(c) PROVE OnlineStep
    BY <1>2 DEF ConnUnregister, OwnRecords, OnlineStep, IInv, TypeOK
  <1>3. ASSUME NEW c \in ConnIds, NEW i \in PeerIds, HandleOnline(c, i) PROVE OnlineStep
    <2>1. /\ c # NoConn /\ <<c, i>> \in msgs
          /\ \A j \in PeerIds : online'[j] = online[j] \/ (j = i /\ online'[j] = c)
      BY <1>3 DEF HandleOnline, IInv, TypeOK, ConnIds, NoConn
    <2>2. QED
      BY <2>1 DEF OnlineStep
  <1>4. CASE Recv
    BY <1>4, <1>1 DEF Recv, RecvLookup, RecvCheckRoom, RecvInsert, RecvForward, RecvStopped
  <1>5. ASSUME NEW a \in UdpAddrs, NEW p \in Packets, RecvPrecheckError(a) \/ RecvAdmit(a, p)
        PROVE  OnlineStep
    BY <1>5, <1>1 DEF RecvPrecheckError, RecvAdmit
  <1>6. ASSUME NEW c \in ConnIds, Cleanup(c) \/ ConnIdleTimeout(c) \/ ConnReceive(c)
        PROVE  OnlineStep
    BY <1>6, <1>1, <1>2 DEF Cleanup, ConnStop, ConnIdleTimeout, ConnUnmap, ConnClose, ConnReceive
  <1>7. ASSUME NEW c \in ConnIds, NEW p \in Packets, MsgDone(c, p) \/ MsgBlock(c, p)
        PROVE  OnlineStep
    BY <1>7, <1>1 DEF MsgDone, MsgBlock
  <1>8. ASSUME NEW w \in DataChannels, NEW p \in Packets,
               DataChannelOpen(w) \/ DataChannelClose(w) \/ DataChannelMessage(w, p)
        PROVE  OnlineStep
    BY <1>8, <1>1 DEF DataChannelOpen, DataChannelClose, DataChannelMessage
  <1>9. ASSUME NEW a \in Addrs, BlockAddrExpires(a) PROVE OnlineStep
    BY <1>9, <1>1 DEF BlockAddrExpires
  <1>10. CASE RefreshBlockAddr \/ Stop \/ UNCHANGED vars
    BY <1>10, <1>1 DEF RefreshBlockAddr, Stop, vars
  <1>11. "KPL" \in Packets
    BY DEF Packets
  <1>12. QED
    BY <1>3, <1>4, <1>5, <1>6, <1>7, <1>8, <1>9, <1>10, <1>11 DEF Next

\* The cleanup of an old connection never removes the record of an AC or DB
\* that is online through another one.
THEOREM NewerRecordKept == Spec => OnlineKept
<1>1. IInv /\ [Next]_vars => [OnlineStep]_vars
  BY OnlineStepHolds
<1>2. QED
  BY <1>1, Invariance, PTL DEF Spec, OnlineKept

\* Only RecvAdmit takes an address, and it takes none that is blocked.
LEMMA BlockStepHolds == IInv /\ [Next]_vars => BlockStep
  <1> SUFFICES ASSUME IInv, [Next]_vars, NEW a \in UdpAddrs, a \in blockMap, rx.addr # a
               PROVE  /\ connMap'[a] \in {connMap[a], NoConn}
                      /\ rx'.addr # a
                      /\ \A c \in ConnIds : addr[c] = a => Len(recvQ'[c]) <= Len(recvQ[c])
    BY DEF BlockStep
  <1> DEFINE G == /\ connMap'[a] \in {connMap[a], NoConn}
                  /\ rx'.addr # a
                  /\ \A c \in ConnIds : addr[c] = a => Len(recvQ'[c]) <= Len(recvQ[c])
  <1>a. a \in Addrs /\ a # NoAddr /\ a \notin DataChannels
    BY ServerConnAssumption DEF Addrs, NoAddr
  <1>b. /\ connMap \in [Addrs -> ConnIds \cup {NoConn}]
        /\ recvQ \in [ConnIds -> Seq(Packets)] /\ rx \in RxStates
        /\ \A c \in ConnIds : Len(recvQ[c]) \in Nat
    BY DEF IInv, TypeOK
  <1>c. RxIdle.addr # a
    BY <1>a DEF RxIdle
  <1>d. Len(<<>>) = 0
    OBVIOUS
  <1> USE DEF connVars, blockVars
  <1>1. ASSUME connMap' = connMap, rx' = rx, recvQ' = recvQ PROVE G
    BY <1>1, <1>b
  <1>2. CASE RecvLookup \/ RecvCheckRoom \/ RecvStopped
    <2>1. connMap' = connMap /\ recvQ' = recvQ
      BY <1>2 DEF RecvLookup, RecvCheckRoom, RecvStopped
    <2>2. CASE RecvLookup
      BY <2>2, <1>b DEF RecvLookup, RxStates
    <2>3. CASE RecvCheckRoom
      BY <2>3, <1>b, <1>c DEF RecvCheckRoom, RxStates
    <2>4. CASE RecvStopped
      BY <2>4, <1>b DEF RecvStopped, RxStates
    <2>5. rx'.addr # a
      BY <1>2, <2>2, <2>3, <2>4
    <2>6. QED
      BY <1>b, <2>1, <2>5
  <1>3. CASE RecvInsert
    <2>1. nextConn \in ConnIds /\ addr[nextConn] = NoAddr
      BY <1>3 DEF RecvInsert, ConnIds, IInv, TypeOK, Fresh
    <2>2. \A c \in ConnIds : addr[c] = a => recvQ'[c] = recvQ[c]
      BY <1>3, <1>a, <1>b, <2>1 DEF RecvInsert, NewConn
    <2>3. connMap'[a] = connMap[a] /\ rx'.addr # a
      BY <1>3, <1>a, <1>b, <1>c DEF RecvInsert, NewConn
    <2>4. QED
      BY <1>b, <2>2, <2>3
  <1>4. CASE RecvForward
    <2>1. \A c \in ConnIds : addr[c] = a => recvQ'[c] = recvQ[c]
      BY <1>4, <1>b DEF RecvForward, IInv, ReaderHolds
    <2>2. QED
      BY <1>4, <1>b, <1>c, <2>1 DEF RecvForward
  <1>5. ASSUME NEW b \in UdpAddrs, NEW p \in Packets, RecvAdmit(b, p) PROVE G
    BY <1>5, <1>b DEF RecvAdmit
  <1>6. ASSUME NEW c \in ConnIds, ConnUnmap(c) PROVE G
    BY <1>6, <1>a, <1>b DEF ConnUnmap
  <1>7. ASSUME NEW c \in ConnIds, ConnClose(c) PROVE G
    BY <1>7, <1>b, <1>d DEF ConnClose
  <1>8. ASSUME NEW c \in ConnIds, ConnReceive(c) PROVE G
    <2>1. Len(Tail(recvQ[c])) <= Len(recvQ[c])
      BY <1>8, <1>b DEF ConnReceive
    <2>2. QED
      BY <1>8, <1>b, <2>1 DEF ConnReceive
  <1>9. ASSUME NEW w \in DataChannels, DataChannelOpen(w) PROVE G
    <2>1. nextConn \in ConnIds /\ addr[nextConn] = NoAddr
      BY <1>9, ServerConnAssumption DEF DataChannelOpen, ConnIds, IInv, TypeOK, Fresh
    <2>2. \A c \in ConnIds : addr[c] = a => recvQ'[c] = recvQ[c]
      BY <1>9, <1>a, <1>b, <2>1 DEF DataChannelOpen, NewConn
    <2>3. connMap'[a] = connMap[a] /\ rx' = rx
      BY <1>9, <1>a, <1>b DEF DataChannelOpen, NewConn
    <2>4. QED
      BY <1>b, <2>2, <2>3
  <1>10. ASSUME NEW w \in DataChannels, DataChannelClose(w) PROVE G
    BY <1>10, <1>a, <1>b, <1>d DEF DataChannelClose
  <1>11. ASSUME NEW w \in DataChannels, NEW p \in Packets, DataChannelMessage(w, p) PROVE G
    <2>1. w \in Addrs /\ addr[connMap[w]] = w
      BY <1>11 DEF DataChannelMessage, IInv, EntriesLive, Addrs
    <2>2. \A c \in ConnIds : addr[c] = a => recvQ'[c] = recvQ[c]
      BY <1>11, <1>a, <1>b, <2>1 DEF DataChannelMessage
    <2>3. QED
      BY <1>11, <1>b, <2>2 DEF DataChannelMessage
  <1>12. QED
    BY <1>1, <1>2, <1>3, <1>4, <1>5, <1>6, <1>7, <1>8, <1>9, <1>10, <1>11
    DEF Next, Recv, Cleanup, vars, RecvPrecheckError, ConnStop, ConnIdleTimeout,
        ConnUnregister, MsgDone, MsgBlock, HandleOnline, BlockAddrExpires,
        RefreshBlockAddr, Stop

\* A blocked address gets no more than the packet the reader already admitted.
THEOREM BlockedGetsNothing == Spec => BlockedStaysOut
<1>1. IInv /\ [Next]_vars => [BlockStep]_vars
  BY BlockStepHolds
<1>2. QED
  BY <1>1, Invariance, PTL DEF Spec, BlockedStaysOut

\* An address is added only where there is room.
LEMMA PoolAdd ==
    ASSUME TypeOK, BlockPoolBounded, NEW a \in Addrs, AddBlockAddr(a)
    PROVE  BlockPoolBounded'
  <1>1. IsFiniteSet(blockMap)
    <2>1. IsFiniteSet(Addrs)
      BY ServerConnAssumption, FS_Union DEF Addrs
    <2>2. QED
      BY <2>1, FS_Subset DEF TypeOK
  <1>2. CASE Cardinality(blockMap) < MaxConcurrentConnection
    <2>1. /\ Cardinality(blockMap) \in Nat
          /\ Cardinality(blockMap \cup {a}) =
               IF a \in blockMap THEN Cardinality(blockMap) ELSE Cardinality(blockMap) + 1
      BY <1>1, FS_CardinalityType, FS_AddElement
    <2>2. blockMap' = blockMap \cup {a}
      BY <1>2 DEF AddBlockAddr
    <2>3. QED
      BY <1>2, <2>1, <2>2, ServerConnAssumption DEF BlockPoolBounded
  <1>3. CASE ~(Cardinality(blockMap) < MaxConcurrentConnection)
    BY <1>3 DEF AddBlockAddr, BlockPoolBounded
  <1>4. QED
    BY <1>2, <1>3

LEMMA PoolStep == IInv /\ BlockPoolBounded /\ [Next]_vars => BlockPoolBounded'
  <1> SUFFICES ASSUME IInv, BlockPoolBounded, [Next]_vars PROVE BlockPoolBounded'
    OBVIOUS
  <1>a. TypeOK
    BY DEF IInv
  <1> USE DEF connVars, blockVars
  <1>1. CASE UNCHANGED blockMap
    BY <1>1 DEF BlockPoolBounded
  <1>2. ASSUME NEW a \in Addrs, AddBlockAddr(a) PROVE BlockPoolBounded'
    BY <1>a, <1>2, PoolAdd
  <1>3. CASE RefreshBlockAddr
    <2>1. IsFiniteSet(blockMap)
      BY <1>a, ServerConnAssumption, FS_Union, FS_Subset DEF Addrs, TypeOK
    <2>2. blockMap' \in SUBSET blockMap
      BY <1>3 DEF RefreshBlockAddr
    <2>3. /\ Cardinality(blockMap') <= Cardinality(blockMap)
          /\ Cardinality(blockMap') \in Nat /\ Cardinality(blockMap) \in Nat
      BY <2>1, <2>2, FS_Subset, FS_CardinalityType
    <2>4. QED
      BY <2>3, ServerConnAssumption DEF BlockPoolBounded
  <1>4. ASSUME NEW a \in UdpAddrs, RecvPrecheckError(a) PROVE BlockPoolBounded'
    <2>1. AddBlockAddr(a) \/ UNCHANGED blockMap
      BY <1>4 DEF RecvPrecheckError
    <2>2. QED
      BY <1>1, <1>2, <2>1 DEF Addrs
  <1>5. ASSUME NEW c \in ConnIds, NEW p \in Packets, MsgBlock(c, p) PROVE BlockPoolBounded'
    <2>1. addr[c] \in Addrs
      BY <1>5 DEF MsgBlock, IInv, Fresh
    <2>2. QED
      BY <1>2, <1>5, <2>1 DEF MsgBlock
  <1>6. CASE Recv
    BY <1>6, <1>1 DEF Recv, RecvLookup, RecvCheckRoom, RecvInsert, RecvForward, RecvStopped,
                      NewConn
  <1>7. ASSUME NEW a \in UdpAddrs, NEW p \in Packets, RecvAdmit(a, p) PROVE BlockPoolBounded'
    BY <1>7, <1>1 DEF RecvAdmit
  <1>8. ASSUME NEW c \in ConnIds, Cleanup(c) \/ ConnIdleTimeout(c) \/ ConnReceive(c)
        PROVE  BlockPoolBounded'
    BY <1>8, <1>1 DEF Cleanup, ConnStop, ConnIdleTimeout, ConnUnregister, ConnUnmap, ConnClose,
                      ConnReceive
  <1>9. ASSUME NEW c \in ConnIds, NEW p \in Packets, MsgDone(c, p) PROVE BlockPoolBounded'
    BY <1>9, <1>1 DEF MsgDone
  <1>10. ASSUME NEW c \in ConnIds, NEW i \in PeerIds, HandleOnline(c, i) PROVE BlockPoolBounded'
    BY <1>10, <1>1 DEF HandleOnline
  <1>11. ASSUME NEW w \in DataChannels, NEW p \in Packets,
                DataChannelOpen(w) \/ DataChannelClose(w) \/ DataChannelMessage(w, p)
         PROVE  BlockPoolBounded'
    BY <1>11, <1>1 DEF DataChannelOpen, DataChannelClose, DataChannelMessage, NewConn
  <1>12. ASSUME NEW a \in Addrs, BlockAddrExpires(a) PROVE BlockPoolBounded'
    BY <1>12, <1>1 DEF BlockAddrExpires
  <1>13. CASE Stop \/ UNCHANGED vars
    BY <1>13, <1>1 DEF Stop, vars
  <1>14. "KPL" \in Packets
    BY DEF Packets
  <1>15. QED
    BY <1>3, <1>4, <1>5, <1>6, <1>7, <1>8, <1>9, <1>10, <1>11, <1>12, <1>13, <1>14 DEF Next

\* The block list never outgrows its limit, whoever adds to it and however its entries
\* expire.
THEOREM BlockPoolAlwaysBounded == Spec => []BlockPoolBounded
<1>1. Init => BlockPoolBounded
  BY FS_EmptySet, ServerConnAssumption DEF Init, BlockPoolBounded
<1>2. QED
  BY <1>1, PoolStep, Invariance, PTL DEF Spec


-----------------------------------------------------------------------------
(* The reader's wait.                                                      *)

\* A routine that has ended has closed its connection.
EndedAreClosed == \A c \in ConnIds : phase[c] = "done" => closed[c]

LEMMA EndedStep ==
  ASSUME IInv, EndedAreClosed, [Next]_vars
  PROVE  EndedAreClosed'
  <1> USE DEF connVars, EndedAreClosed
  <1>a. /\ phase \in [ConnIds -> Phases] /\ closed \in [ConnIds -> BOOLEAN]
        /\ \A c \in ConnIds : kind[c] \in Kinds
    BY DEF IInv, TypeOK
  <1>b. ASSUME UNCHANGED <<phase, closed>> PROVE EndedAreClosed'
    BY <1>b
  <1>c. ASSUME NEW c \in ConnIds, LeaveLoop(c), UNCHANGED closed PROVE EndedAreClosed'
    BY <1>a, <1>c DEF LeaveLoop
  <1>d. ASSUME nextConn \in ConnIds, NEW a, NEW k, NEW q, NewConn(nextConn, a, k, q)
        PROVE  EndedAreClosed'
    BY <1>a, <1>d DEF NewConn
  <1>1. CASE Recv
    <2>1. CASE RecvInsert
      <3>1. nextConn \in ConnIds
        BY <2>1, ServerConnAssumption DEF RecvInsert, ConnIds, IInv, TypeOK
      <3> QED BY <1>d, <2>1, <3>1 DEF RecvInsert
    <2> QED BY <1>1, <1>b, <2>1 DEF Recv, RecvLookup, RecvCheckRoom, RecvForward, RecvStopped
  <1>2. ASSUME NEW c \in ConnIds, Cleanup(c) \/ ConnIdleTimeout(c) \/ ConnReceive(c)
        PROVE  EndedAreClosed'
    <2>1. CASE ConnStop(c) \/ ConnIdleTimeout(c)
      BY <1>c, <2>1 DEF ConnStop, ConnIdleTimeout
    <2>2. CASE ConnUnregister(c) \/ ConnUnmap(c) \/ ConnClose(c)
      BY <1>a, <2>2 DEF ConnUnregister, ConnUnmap, ConnClose
    <2>3. CASE ConnReceive(c)
      BY <1>b, <2>3 DEF ConnReceive
    <2> QED BY <1>2, <2>1, <2>2, <2>3 DEF Cleanup
  <1>3. ASSUME NEW c \in ConnIds, NEW p \in Packets, MsgDone(c, p) \/ MsgBlock(c, p)
        PROVE  EndedAreClosed'
    <2>1. CASE MsgDone(c, p)
      BY <1>b, <2>1 DEF MsgDone
    <2>2. CASE MsgBlock(c, p)
      BY <1>c, <2>2 DEF MsgBlock
    <2> QED BY <1>3, <2>1, <2>2
  <1>4. ASSUME NEW a \in DataChannels,
               \/ DataChannelOpen(a) \/ DataChannelClose(a)
               \/ \E p \in Packets : DataChannelMessage(a, p)
        PROVE  EndedAreClosed'
    <2>1. CASE DataChannelOpen(a)
      <3>1. nextConn \in ConnIds
        BY <2>1, ServerConnAssumption DEF DataChannelOpen, ConnIds, IInv, TypeOK
      <3> QED BY <1>d, <2>1, <3>1 DEF DataChannelOpen
    <2>2. CASE DataChannelClose(a)
      BY <1>a, <2>2 DEF DataChannelClose
    <2>3. CASE \E p \in Packets : DataChannelMessage(a, p)
      BY <1>b, <2>3 DEF DataChannelMessage
    <2> QED BY <1>4, <2>1, <2>2, <2>3
  <1>5. CASE \/ \E a \in UdpAddrs : RecvPrecheckError(a) \/ \E p \in Packets : RecvAdmit(a, p)
             \/ \E c \in ConnIds, i \in PeerIds : HandleOnline(c, i)
             \/ \E a \in Addrs : BlockAddrExpires(a)
             \/ RefreshBlockAddr \/ Stop \/ UNCHANGED vars
    <2>1. UNCHANGED <<phase, closed>>
      BY <1>5 DEF RecvPrecheckError, RecvAdmit, HandleOnline, BlockAddrExpires,
                  RefreshBlockAddr, Stop, vars
    <2> QED BY <1>b, <2>1
  <1> QED BY <1>1, <1>2, <1>3, <1>4, <1>5 DEF Next

\* The one reader never waits for the queue of a connection that nobody will drain or
\* close, whichever routine, data channel or block ends the connection meanwhile.
THEOREM ReaderNeverAbandoned == Spec => []ReaderHasRoutine
  <1>1. Init => EndedAreClosed
    BY DEF Init, EndedAreClosed
  <1>2. IInv /\ EndedAreClosed /\ [Next]_vars => EndedAreClosed'
    BY EndedStep
  <1>3. IInv /\ EndedAreClosed => ReaderHasRoutine
    <2> SUFFICES ASSUME IInv, EndedAreClosed, rx.pc = "forward"
                 PROVE  closed[rx.conn] \/ phase[rx.conn] \in InTable \cup {"close"}
      BY DEF ReaderHasRoutine
    <2>1. rx.conn \in ConnIds /\ addr[rx.conn] \in UdpAddrs
      BY DEF IInv, ReaderHolds
    <2>2. phase[rx.conn] # "free" /\ phase[rx.conn] \in Phases
      BY <2>1, ServerConnAssumption DEF IInv, TypeOK, Fresh, NoAddr
    <2> QED BY <2>1, <2>2 DEF EndedAreClosed, Phases, InTable
  <1> QED BY <1>1, <1>2, <1>3, Invariance, PTL DEF Spec
=============================================================================
