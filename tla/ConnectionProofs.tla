-------------------------- MODULE ConnectionProofs --------------------------
(***************************************************************************)
(* Theorems of Connection, for any senders, closers, requests and sizes,   *)
(* and of PacketPool, whose packets the connection's queues carry, for any *)
(* users, transactions, packets and limit.                                 *)
(***************************************************************************)
EXTENDS Connection, PacketPool, FiniteSetTheorems, SequenceTheorems, TLAPS

Distinct(s) == \A i, j \in 1..QueueSize : i < j /\ j <= Len(s) => s[i] # s[j]
Absent(f, s) == \A i \in 1..QueueSize : i <= Len(s) => s[i] # f

\* A closer that flushes has set the flag.
FlagFirst == \A k \in AllClosers : closer[k] \in {"flush", "close"} => closed

PastFlush == channels # "open" \/ \E k \in AllClosers : closer[k] \in {"close", "nil"}

\* From the end of the flush on, a sender that has yet to push has pushed nothing.
Overtaken ==
    PastFlush =>
        /\ closed
        /\ \A q \in Queues : Distinct(queue[q])
        /\ \A f \in Forwarders :
             forwarder[f] \in {"enter", "select"} => Absent(f, queue[QueueOf(f)])

IInv == TypeOK /\ FlagFirst /\ Overtaken

\* No two requests have the same transaction id.
UniqueIds == \A r1, r2 \in Requests : Id[r1] = Id[r2] => r1 = r2

\* A transaction that takes an answer is the one its id leads to.
Present ==
    \A r \in Requests :
        /\ trx[r] = "select" => trxMap[Id[r]] = r
        /\ handler[r] # "none" => trx[r] # "none"

TInv == TypeOK /\ Present /\ MissedOnlyLate

-----------------------------------------------------------------------------
(* Queues.                                                                 *)

LEMMA QueueTyped ==
  ASSUME TypeOK, NEW q \in Queues
  PROVE  /\ queue[q] \in Seq(Forwarders) /\ Len(queue[q]) \in Nat
         /\ Len(queue[q]) <= QueueSize
  BY LenProperties DEF TypeOK

LEMMA TailShrinks ==
  ASSUME NEW s \in Seq(Forwarders), s # <<>>
  PROVE  /\ Tail(s) \in Seq(Forwarders) /\ Len(Tail(s)) = Len(s) - 1
         /\ Distinct(s) /\ Len(s) <= QueueSize => Distinct(Tail(s))
         /\ \A f : Absent(f, s) /\ Len(s) <= QueueSize => Absent(f, Tail(s))
  <1>1. /\ Tail(s) \in Seq(Forwarders) /\ Len(Tail(s)) = Len(s) - 1
        /\ \A i \in 1..Len(Tail(s)) : Tail(s)[i] = s[i + 1]
    BY HeadTailProperties
  <1>2. Len(s) \in Nat
    BY LenProperties
  <1>3. ASSUME Distinct(s), Len(s) <= QueueSize
        PROVE  Distinct(Tail(s))
    <2> SUFFICES ASSUME NEW i \in 1..QueueSize, NEW j \in 1..QueueSize,
                        i < j, j <= Len(Tail(s))
                 PROVE  Tail(s)[i] # Tail(s)[j]
      BY DEF Distinct
    <2>1. i + 1 \in 1..QueueSize /\ j + 1 \in 1..QueueSize /\ i + 1 < j + 1 /\ j + 1 <= Len(s)
      BY <1>1, <1>2, <1>3, ConnectionAssumption
    <2>2. s[i + 1] # s[j + 1]
      BY <1>3, <2>1 DEF Distinct
    <2>3. i \in 1..Len(Tail(s)) /\ j \in 1..Len(Tail(s))
      BY <1>1, <1>2, ConnectionAssumption
    <2> QED BY <1>1, <2>2, <2>3
  <1>4. ASSUME NEW f, Absent(f, s), Len(s) <= QueueSize
        PROVE  Absent(f, Tail(s))
    <2> SUFFICES ASSUME NEW i \in 1..QueueSize, i <= Len(Tail(s))
                 PROVE  Tail(s)[i] # f
      BY DEF Absent
    <2>1. i + 1 \in 1..QueueSize /\ i + 1 <= Len(s) /\ i \in 1..Len(Tail(s))
      BY <1>1, <1>2, <1>4, ConnectionAssumption
    <2> QED BY <1>1, <1>4, <2>1 DEF Absent
  <1> QED BY <1>1, <1>3, <1>4

LEMMA PushedOnce ==
  ASSUME NEW s \in Seq(Forwarders), NEW f \in Forwarders, Len(s) < QueueSize
  PROVE  /\ Append(s, f) \in Seq(Forwarders) /\ Len(Append(s, f)) = Len(s) + 1
         /\ Distinct(s) /\ Absent(f, s) => Distinct(Append(s, f))
         /\ \A g : g # f /\ Absent(g, s) => Absent(g, Append(s, f))
  <1>1. /\ Append(s, f) \in Seq(Forwarders) /\ Len(Append(s, f)) = Len(s) + 1
        /\ \A i \in 1..Len(s) : Append(s, f)[i] = s[i]
        /\ Append(s, f)[Len(s) + 1] = f
    BY AppendProperties
  <1>2. Len(s) \in Nat
    BY LenProperties
  <1>3. ASSUME Distinct(s), Absent(f, s)
        PROVE  Distinct(Append(s, f))
    <2> SUFFICES ASSUME NEW i \in 1..QueueSize, NEW j \in 1..QueueSize,
                        i < j, j <= Len(s) + 1
                 PROVE  Append(s, f)[i] # Append(s, f)[j]
      BY <1>1 DEF Distinct
    <2>1. i \in 1..Len(s) /\ (j \in 1..Len(s) \/ j = Len(s) + 1)
      BY <1>2, ConnectionAssumption
    <2>2. s[i] # f
      BY <2>1, <1>3 DEF Absent
    <2>3. j \in 1..Len(s) => s[i] # s[j]
      BY <1>3 DEF Distinct
    <2> QED BY <1>1, <2>1, <2>2, <2>3
  <1>4. ASSUME NEW g, g # f, Absent(g, s)
        PROVE  Absent(g, Append(s, f))
    <2> SUFFICES ASSUME NEW i \in 1..QueueSize, i <= Len(s) + 1
                 PROVE  Append(s, f)[i] # g
      BY <1>1 DEF Absent
    <2>1. i \in 1..Len(s) \/ i = Len(s) + 1
      BY <1>2, ConnectionAssumption
    <2>2. i \in 1..Len(s) => s[i] # g
      BY <1>4 DEF Absent
    <2> QED BY <1>1, <1>4, <2>1, <2>2
  <1> QED BY <1>1, <1>3, <1>4

LEMMA EmptyQueue ==
  /\ <<>> \in Seq(Forwarders) /\ Len(<<>>) = 0
  /\ Distinct(<<>>) /\ \A f : Absent(f, <<>>)
  BY ConnectionAssumption DEF Distinct, Absent

\* Taking a packet, by the routine or by the flush, leaves the other queue alone.
LEMMA PacketTaken ==
  ASSUME TypeOK, NEW q \in Queues, queue[q] # <<>>,
         queue' = [queue EXCEPT ![q] = Tail(@)]
  PROVE  /\ queue' \in [Queues -> Seq(Forwarders)]
         /\ \A p \in Queues :
              /\ Len(queue'[p]) <= QueueSize
              /\ Distinct(queue[p]) => Distinct(queue'[p])
              /\ \A f : Absent(f, queue[p]) => Absent(f, queue'[p])
  <1>1. PICK s : s = queue[q]
    OBVIOUS
  <1>2. s \in Seq(Forwarders) /\ s # <<>> /\ Len(s) \in Nat /\ Len(s) <= QueueSize
    BY <1>1, QueueTyped
  <1>3. /\ Tail(s) \in Seq(Forwarders) /\ Len(Tail(s)) = Len(s) - 1
        /\ Distinct(s) => Distinct(Tail(s))
        /\ \A f : Absent(f, s) => Absent(f, Tail(s))
    BY <1>2, TailShrinks
  <1>4. queue'[q] = Tail(s) /\ \A p \in Queues : p # q => queue'[p] = queue[p]
    BY <1>1 DEF TypeOK
  <1>5. queue' \in [Queues -> Seq(Forwarders)]
    BY <1>1, <1>3 DEF TypeOK
  <1>6. Len(Tail(s)) <= QueueSize
    BY <1>2, <1>3, ConnectionAssumption
  <1>7. \A p \in Queues : Len(queue[p]) <= QueueSize
    BY DEF TypeOK
  <1> QED BY <1>1, <1>3, <1>4, <1>5, <1>6, <1>7

LEMMA PacketPushed ==
  ASSUME TypeOK, NEW f \in Forwarders, NEW q \in Queues, Len(queue[q]) < QueueSize,
         queue' = [queue EXCEPT ![q] = Append(@, f)]
  PROVE  /\ queue' \in [Queues -> Seq(Forwarders)]
         /\ \A p \in Queues :
              /\ Len(queue'[p]) <= QueueSize
              /\ p # q => queue'[p] = queue[p]
              /\ \A g : g # f /\ Absent(g, queue[p]) => Absent(g, queue'[p])
         /\ Distinct(queue[q]) /\ Absent(f, queue[q]) => Distinct(queue'[q])
  <1>1. PICK s : s = queue[q]
    OBVIOUS
  <1>2. s \in Seq(Forwarders) /\ Len(s) \in Nat /\ Len(s) < QueueSize
    BY <1>1, QueueTyped
  <1>3. /\ Append(s, f) \in Seq(Forwarders) /\ Len(Append(s, f)) = Len(s) + 1
        /\ Distinct(s) /\ Absent(f, s) => Distinct(Append(s, f))
        /\ \A g : g # f /\ Absent(g, s) => Absent(g, Append(s, f))
    BY <1>2, PushedOnce
  <1>4. queue'[q] = Append(s, f) /\ \A p \in Queues : p # q => queue'[p] = queue[p]
    BY <1>1 DEF TypeOK
  <1>5. queue' \in [Queues -> Seq(Forwarders)]
    BY <1>1, <1>3 DEF TypeOK
  <1>6. Len(Append(s, f)) <= QueueSize
    BY <1>2, <1>3, ConnectionAssumption
  <1>7. \A p \in Queues : Len(queue[p]) <= QueueSize
    BY DEF TypeOK
  <1> QED BY <1>1, <1>3, <1>4, <1>5, <1>6, <1>7

-----------------------------------------------------------------------------
(* Types.                                                                  *)

LEMMA TypeStep ==
  ASSUME TypeOK, [Next]_vars
  PROVE  TypeOK'
  <1> USE DEF data, sending, requests
  <1>1. ASSUME NEW f \in Forwarders, Forward(f) \/ Advance(f)
        PROVE  TypeOK'
    <2>1. CASE Push(f)
      <3>1. QueueOf(f) \in Queues
        BY DEF QueueOf, Queues
      <3>2. queue' \in [Queues -> Seq(Forwarders)] /\ \A q \in Queues : Len(queue'[q]) <= QueueSize
        <4>1. CASE channels = "open"
          BY <2>1, <3>1, <4>1, PacketPushed DEF Push
        <4>2. CASE channels # "open"
          BY <2>1, <4>2 DEF Push, TypeOK
        <4> QED BY <4>1, <4>2
      <3>3. crashed' \in BOOLEAN
        BY <2>1, Zenon DEF Push, Panic, TypeOK
      <3> QED BY <2>1, <3>2, <3>3 DEF Push, ForwardAt, TypeOK
    <2>2. CASE SendBlockSignal(f)
      <3>1. crashed' \in BOOLEAN
        BY <2>2 DEF SendBlockSignal
      <3> QED BY <2>2, <3>1 DEF SendBlockSignal, ForwardAt, TypeOK
    <2>3. CASE Forward(f)
      BY <2>3, ConnectionAssumption DEF Forward, ForwardAt, TypeOK
    <2>4. CASE TestClosed(f) \/ EnterSelect(f) \/ SeeStop(f)
      BY <2>4 DEF TestClosed, EnterSelect, SeeStop, ForwardAt, TypeOK
    <2> QED BY <1>1, <2>1, <2>2, <2>3, <2>4 DEF Advance
  <1>2. ASSUME (\E f \in Senders : Block(f)) \/ ReaderEnds \/ Select \/ Quit
        PROVE  TypeOK'
    <2>1. CASE \E f \in Senders : Block(f)
      <3>1. PICK f \in Forwarders : Block(f)
        BY <2>1 DEF Forwarders
      <3> QED BY <3>1, ConnectionAssumption DEF Block, ForwardAt, TypeOK
    <2>2. CASE ReaderEnds
      <3>1. reader \in Forwarders
        BY DEF Forwarders
      <3> QED BY <2>2, <3>1 DEF ReaderEnds, ForwardAt, TypeOK
    <2>3. CASE Select \/ Quit
      BY <2>3 DEF Select, Quit, TypeOK
    <2> QED BY <1>2, <2>1, <2>2, <2>3
  <1>3. ASSUME NEW q \in Queues, TakePacket(q) \/ \E k \in AllClosers : Flush(k, q)
        PROVE  TypeOK'
    <2>1. queue[q] # <<>> /\ queue' = [queue EXCEPT ![q] = Tail(@)]
      BY <1>3 DEF TakePacket, Flush
    <2>2. queue' \in [Queues -> Seq(Forwarders)] /\ \A p \in Queues : Len(queue'[p]) <= QueueSize
      BY <2>1, PacketTaken
    <2> QED BY <1>3, <2>2 DEF TakePacket, Flush, TypeOK
  <1>4. ASSUME NEW k \in AllClosers,
               \/ CloseNet(k) \/ CloseTest(k) \/ CloseStop(k) \/ CloseFlag(k)
               \/ FlushEnds(k) \/ CloseChannels(k) \/ SetNil(k) \/ Wait(k)
        PROVE  TypeOK'
    BY <1>4 DEF CloseNet, CloseTest, CloseStop, CloseFlag, FlushEnds, CloseChannels, SetNil,
                Wait, CloseAt, TypeOK
  <1>5. ASSUME NEW r \in Requests, AddRemoteTransaction(r) \/ Run(r)
        PROVE  TypeOK'
    <2>1. CASE AddRemoteTransaction(r)
      <3>1. PICK to \in {"find", "none"} : handler' = [handler EXCEPT ![r] = to]
        BY <2>1 DEF AddRemoteTransaction
      <3>2. /\ trxMap' = [trxMap EXCEPT ![Id[r]] = r]
            /\ trx' = [trx EXCEPT ![r] = "select"]
            /\ UNCHANGED <<data, sending, routine, closer, holds, crashed>>
        BY <2>1 DEF AddRemoteTransaction
      <3>3. trxMap' \in [{Id[x] : x \in Requests} -> Requests \cup {NoRequest}]
        BY <3>2 DEF TypeOK
      <3> QED BY <3>1, <3>2, <3>3 DEF TypeOK
    <2>2. CASE TimeOut(r)
      BY <2>2 DEF TimeOut, TypeOK
    <2>3. CASE DeleteTransaction(r)
      <3>1. trxMap' \in [{Id[x] : x \in Requests} -> Requests \cup {NoRequest}]
        BY <2>3 DEF DeleteTransaction, TypeOK
      <3> QED BY <2>3, <3>1 DEF DeleteTransaction, TypeOK
    <2> QED BY <1>5, <2>1, <2>2, <2>3 DEF Run
  <1>6. ASSUME NEW r \in Requests, Handle(r)
        PROVE  TypeOK'
    <2>1. CASE FindRemoteTransaction(r)
      BY <2>1 DEF FindRemoteTransaction, TypeOK
    <2>2. CASE SendNext(r)
      <3>1. crashed' \in BOOLEAN
        BY <2>2, Zenon DEF SendNext, Panic, TypeOK
      <3> QED BY <2>2, <3>1 DEF SendNext, TypeOK
    <2> QED BY <1>6, <2>1, <2>2 DEF Handle
  <1>7. CASE UNCHANGED vars
    BY <1>7 DEF vars, TypeOK
  <1> QED BY <1>1, <1>2, <1>3, <1>4, <1>5, <1>6, <1>7 DEF Next, Serve, Close

-----------------------------------------------------------------------------
(* What a close leaves behind.                                             *)

\* The flag is never lowered, and is raised before the flush.
LEMMA FlagStep ==
  ASSUME TypeOK, FlagFirst, [Next]_vars
  PROVE  FlagFirst' /\ (closed => closed')
  <1> USE DEF data, sending, requests, FlagFirst
  <1>1. CASE UNCHANGED <<closer, closed>>
    BY <1>1
  <1>2. ASSUME NEW k \in AllClosers, CloseNet(k) \/ Close(k)
        PROVE  FlagFirst' /\ (closed => closed')
    BY <1>2 DEF CloseNet, Close, CloseTest, CloseStop, CloseFlag, Flush, FlushEnds,
                CloseChannels, SetNil, Wait, CloseAt, TypeOK
  <1>3. ASSUME \/ \E f \in Forwarders : Forward(f) \/ Advance(f)
               \/ \E f \in Senders : Block(f)
               \/ ReaderEnds \/ Serve \/ Quit
               \/ \E r \in Requests : AddRemoteTransaction(r) \/ Run(r) \/ Handle(r)
        PROVE  UNCHANGED <<closer, closed>>
    BY <1>3 DEF Forward, Advance, TestClosed, EnterSelect, Push, SeeStop, SendBlockSignal,
                Block, ReaderEnds, Serve, Select, TakePacket, Quit, AddRemoteTransaction, Run,
                TimeOut, DeleteTransaction, Handle, FindRemoteTransaction, SendNext
  <1> QED BY <1>1, <1>2, <1>3 DEF Next, vars

LEMMA PastFlushStays ==
  ASSUME TypeOK, [Next]_vars, PastFlush', ~PastFlush
  PROVE  \E k \in AllClosers : FlushEnds(k)
  <1> USE DEF data, sending, requests, PastFlush
  <1>1. CASE UNCHANGED <<closer, channels>>
    BY <1>1
  <1>2. ASSUME NEW k \in AllClosers, CloseNet(k) \/ Close(k)
        PROVE  FlushEnds(k)
    <2>1. CASE FlushEnds(k)
      BY <2>1
    <2>2. CASE CloseChannels(k) \/ SetNil(k)
      BY <2>2 DEF CloseChannels, SetNil, CloseAt
    <2>3. CASE \/ CloseNet(k) \/ CloseTest(k) \/ CloseStop(k) \/ CloseFlag(k)
               \/ \E q \in Queues : Flush(k, q)
               \/ Wait(k)
      BY <2>3 DEF CloseNet, CloseTest, CloseStop, CloseFlag, Flush, Wait, CloseAt, TypeOK
    <2> QED BY <1>2, <2>1, <2>2, <2>3 DEF Close
  <1>3. ASSUME \/ \E f \in Forwarders : Forward(f) \/ Advance(f)
               \/ \E f \in Senders : Block(f)
               \/ ReaderEnds \/ Serve \/ Quit
               \/ \E r \in Requests : AddRemoteTransaction(r) \/ Run(r) \/ Handle(r)
        PROVE  UNCHANGED <<closer, channels>>
    BY <1>3 DEF Forward, Advance, TestClosed, EnterSelect, Push, SeeStop, SendBlockSignal,
                Block, ReaderEnds, Serve, Select, TakePacket, Quit, AddRemoteTransaction, Run,
                TimeOut, DeleteTransaction, Handle, FindRemoteTransaction, SendNext
  <1> QED BY <1>1, <1>2, <1>3 DEF Next, vars

LEMMA OvertakenStep ==
  ASSUME IInv, [Next]_vars
  PROVE  Overtaken'
  <1> USE DEF data, sending, requests
  <1> SUFFICES ASSUME PastFlush'
               PROVE  /\ closed'
                      /\ \A q \in Queues : Distinct(queue'[q])
                      /\ \A f \in Forwarders :
                           forwarder'[f] \in {"enter", "select"} => Absent(f, queue'[QueueOf(f)])
    BY DEF Overtaken
  <1>1. \A f \in Forwarders : QueueOf(f) \in Queues
    BY DEF QueueOf, Queues
  <1>2. CASE ~PastFlush
    <2>1. PICK k \in AllClosers : FlushEnds(k)
      BY <1>2, PastFlushStays DEF IInv
    <2>2. closed /\ UNCHANGED <<closed, queue>> /\ \A q \in Queues : queue[q] = <<>>
      BY <2>1 DEF FlushEnds, CloseAt, IInv, FlagFirst
    <2> QED BY <1>1, <2>2, EmptyQueue
  <1>3. CASE PastFlush
    <2>1. /\ closed
          /\ \A q \in Queues : Distinct(queue[q])
          /\ \A f \in Forwarders :
               forwarder[f] \in {"enter", "select"} => Absent(f, queue[QueueOf(f)])
      BY <1>3 DEF IInv, Overtaken
    <2>2. closed'
      BY <2>1, FlagStep DEF IInv
    <2>3. CASE UNCHANGED <<queue, forwarder>>
      BY <2>1, <2>2, <2>3
    <2>4. ASSUME NEW f \in Forwarders, UNCHANGED queue,
                 \A g \in Forwarders : g # f => forwarder'[g] = forwarder[g],
                 \/ forwarder'[f] \notin {"enter", "select"}
                 \/ forwarder[f] \in {"enter", "select"}
          PROVE  /\ \A q \in Queues : Distinct(queue'[q])
                 /\ \A g \in Forwarders :
                      forwarder'[g] \in {"enter", "select"} => Absent(g, queue'[QueueOf(g)])
      BY <2>1, <2>4
    <2>5. ASSUME NEW f \in Forwarders, Push(f)
          PROVE  /\ \A q \in Queues : Distinct(queue'[q])
                 /\ \A g \in Forwarders :
                      forwarder'[g] \in {"enter", "select"} => Absent(g, queue'[QueueOf(g)])
      <3>1. /\ forwarder[f] = "select" /\ forwarder'[f] = "idle"
            /\ \A g \in Forwarders : g # f => forwarder'[g] = forwarder[g]
        BY <2>5 DEF Push, ForwardAt, IInv, TypeOK
      <3>2. CASE channels # "open"
        <4>1. UNCHANGED queue
          BY <2>5, <3>2 DEF Push
        <4> QED BY <2>4, <3>1, <4>1
      <3>3. CASE channels = "open"
        <4> DEFINE q == QueueOf(f)
        <4>1. /\ Len(queue[q]) < QueueSize
              /\ queue' = [queue EXCEPT ![q] = Append(@, f)]
          BY <2>5, <3>3 DEF Push
        <4>2. Distinct(queue[q]) /\ Absent(f, queue[q])
          BY <1>1, <2>1, <3>1
        <4>3. /\ \A p \in Queues :
                   /\ p # q => queue'[p] = queue[p]
                   /\ \A g : g # f /\ Absent(g, queue[p]) => Absent(g, queue'[p])
              /\ Distinct(queue[q]) /\ Absent(f, queue[q]) => Distinct(queue'[q])
          BY <1>1, <4>1, PacketPushed DEF IInv
        <4> HIDE DEF q
        <4>4. \A p \in Queues : Distinct(queue'[p])
          BY <2>1, <4>2, <4>3
        <4>5. ASSUME NEW g \in Forwarders, forwarder'[g] \in {"enter", "select"}
              PROVE  Absent(g, queue'[QueueOf(g)])
          <5>1. g # f /\ forwarder[g] \in {"enter", "select"}
            BY <3>1, <4>5
          <5> QED BY <1>1, <2>1, <4>3, <5>1
        <4> QED BY <4>4, <4>5
      <3> QED BY <3>2, <3>3
    <2>6. ASSUME NEW q \in Queues, queue[q] # <<>>, queue' = [queue EXCEPT ![q] = Tail(@)],
                 UNCHANGED forwarder
          PROVE  /\ \A p \in Queues : Distinct(queue'[p])
                 /\ \A g \in Forwarders :
                      forwarder'[g] \in {"enter", "select"} => Absent(g, queue'[QueueOf(g)])
      BY <1>1, <2>1, <2>6, PacketTaken DEF IInv
    <2>7. ASSUME NEW f \in Forwarders, Forward(f) \/ Advance(f)
          PROVE  /\ \A q \in Queues : Distinct(queue'[q])
                 /\ \A g \in Forwarders :
                      forwarder'[g] \in {"enter", "select"} => Absent(g, queue'[QueueOf(g)])
      <3>1. CASE Push(f)
        BY <2>5, <3>1
      <3>2. CASE Forward(f) \/ TestClosed(f) \/ EnterSelect(f) \/ SeeStop(f) \/ SendBlockSignal(f)
        <4>1. /\ UNCHANGED queue
              /\ \A g \in Forwarders : g # f => forwarder'[g] = forwarder[g]
              /\ \/ forwarder'[f] \notin {"enter", "select"}
                 \/ forwarder[f] \in {"enter", "select"}
          BY <2>1, <3>2 DEF Forward, TestClosed, EnterSelect, SeeStop, SendBlockSignal,
                            ForwardAt, IInv, TypeOK
        <4> QED BY <2>4, <4>1
      <3> QED BY <2>7, <3>1, <3>2 DEF Advance
    <2>8. ASSUME NEW f \in Forwarders, Block(f) \/ (f = reader /\ ReaderEnds)
          PROVE  /\ UNCHANGED queue
                 /\ \A g \in Forwarders : g # f => forwarder'[g] = forwarder[g]
                 /\ forwarder'[f] \notin {"enter", "select"}
      BY <2>8 DEF Block, ReaderEnds, ForwardAt, IInv, TypeOK
    <2>9. CASE \/ Serve \/ Quit \/ \E k \in AllClosers : CloseNet(k) \/ Close(k)
               \/ \E r \in Requests : AddRemoteTransaction(r) \/ Run(r) \/ Handle(r)
      <3>1. CASE \E q \in Queues : TakePacket(q) \/ \E k \in AllClosers : Flush(k, q)
        BY <2>2, <2>6, <3>1 DEF TakePacket, Flush
      <3>2. CASE \/ Select \/ Quit
                 \/ \E k \in AllClosers :
                      \/ CloseNet(k) \/ CloseTest(k) \/ CloseStop(k) \/ CloseFlag(k)
                      \/ FlushEnds(k) \/ CloseChannels(k) \/ SetNil(k) \/ Wait(k)
                 \/ \E r \in Requests : AddRemoteTransaction(r) \/ Run(r) \/ Handle(r)
        <4>1. UNCHANGED <<queue, forwarder>>
          BY <3>2 DEF Select, Quit, CloseNet, CloseTest, CloseStop, CloseFlag, FlushEnds,
                      CloseChannels, SetNil, Wait, AddRemoteTransaction, Run, TimeOut,
                      DeleteTransaction, Handle, FindRemoteTransaction, SendNext
        <4> QED BY <2>3, <4>1
      <3> QED BY <2>9, <3>1, <3>2 DEF Serve, Close
    <2>10. CASE (\E f \in Senders : Block(f)) \/ ReaderEnds
      <3>1. \E f \in Forwarders : Block(f) \/ (f = reader /\ ReaderEnds)
        BY <2>10 DEF Forwarders
      <3> QED BY <2>2, <2>4, <2>8, <3>1
    <2> QED BY <2>2, <2>3, <2>7, <2>9, <2>10 DEF Next, vars
  <1> QED BY <1>2, <1>3

-----------------------------------------------------------------------------
(* Transactions and handlers.                                              *)

Late(r) == closed \/ trx[r] \in {"shut", "gone"}

LEMMA TransactionStep ==
  ASSUME UniqueIds, TInv, [Next]_vars, closed => closed'
  PROVE  TInv'
  <1> USE DEF data, sending, requests
  <1>1. TypeOK'
    BY TypeStep DEF TInv
  <1>2. CASE UNCHANGED <<trxMap, trx, handler>>
    BY <1>1, <1>2 DEF TInv, Present, MissedOnlyLate
  <1>3. ASSUME NEW r \in Requests, AddRemoteTransaction(r)
        PROVE  Present' /\ MissedOnlyLate'
    <2>1. PICK to \in {"find", "none"} : handler' = [handler EXCEPT ![r] = to]
      BY <1>3 DEF AddRemoteTransaction
    <2>2. /\ trx[r] = "none" /\ trx' = [trx EXCEPT ![r] = "select"]
          /\ trxMap' = [trxMap EXCEPT ![Id[r]] = r]
          /\ closed' = closed
      BY <1>3 DEF AddRemoteTransaction
    <2>3. \A x \in Requests : x # r => /\ trxMap'[Id[x]] = trxMap[Id[x]]
                                        /\ trx'[x] = trx[x] /\ handler'[x] = handler[x]
      BY <2>1, <2>2 DEF UniqueIds, TInv, TypeOK
    <2>4. trxMap'[Id[r]] = r /\ trx'[r] = "select" /\ handler'[r] = to
      BY <2>1, <2>2 DEF TInv, TypeOK
    <2> QED BY <2>2, <2>3, <2>4 DEF TInv, Present, MissedOnlyLate
  <1>4. ASSUME NEW r \in Requests, TimeOut(r)
        PROVE  Present' /\ MissedOnlyLate'
    BY <1>4 DEF TimeOut, TInv, TypeOK, Present, MissedOnlyLate
  <1>5. ASSUME NEW r \in Requests, DeleteTransaction(r)
        PROVE  Present' /\ MissedOnlyLate'
    <2>1. \A x \in Requests : x # r => trxMap'[Id[x]] = trxMap[Id[x]] /\ trx'[x] = trx[x]
      BY <1>5 DEF DeleteTransaction, UniqueIds, TInv, TypeOK
    <2>2. trx'[r] = "gone" /\ handler' = handler /\ closed' = closed
      BY <1>5 DEF DeleteTransaction, TInv, TypeOK
    <2> QED BY <2>1, <2>2 DEF TInv, Present, MissedOnlyLate
  <1>6. ASSUME NEW r \in Requests, FindRemoteTransaction(r)
        PROVE  Present' /\ MissedOnlyLate'
    <2>1. /\ UNCHANGED <<trxMap, trx, closed>> /\ handler[r] = "find"
          /\ \A x \in Requests : x # r => handler'[x] = handler[x]
          /\ handler'[r] = "missed" => closed \/ trxMap[Id[r]] = NoRequest
      BY <1>6 DEF FindRemoteTransaction, TInv, TypeOK
    <2>2. trx[r] # "none" /\ (trx[r] = "select" => trxMap[Id[r]] # NoRequest)
      BY <2>1, ConnectionAssumption DEF TInv, Present
    <2>3. handler'[r] = "missed" => Late(r)
      BY <2>1, <2>2 DEF TInv, TypeOK, Late
    <2> QED BY <2>1, <2>2, <2>3 DEF TInv, Present, MissedOnlyLate, Late
  <1>7. ASSUME NEW r \in Requests, SendNext(r)
        PROVE  Present' /\ MissedOnlyLate'
    <2>1. /\ handler[r] = "send" /\ handler' = [handler EXCEPT ![r] = "answered"]
          /\ UNCHANGED <<trxMap, closed>>
          /\ \A x \in Requests : trx'[x] = trx[x] \/ (trx[x] = "select" /\ trx'[x] = "shut")
      BY <1>7 DEF SendNext, TInv, TypeOK
    <2> QED BY <2>1 DEF TInv, TypeOK, Present, MissedOnlyLate
  <1>8. ASSUME \/ \E f \in Forwarders : Forward(f) \/ Advance(f)
               \/ \E f \in Senders : Block(f)
               \/ ReaderEnds \/ Serve \/ Quit
               \/ \E k \in AllClosers : CloseNet(k) \/ Close(k)
        PROVE  UNCHANGED <<trxMap, trx, handler>>
    BY <1>8 DEF Forward, Advance, TestClosed, EnterSelect, Push, SeeStop, SendBlockSignal,
                Block, ReaderEnds, Serve, Select, TakePacket, Quit, Close, CloseNet, CloseTest,
                CloseStop, CloseFlag, Flush, FlushEnds, CloseChannels, SetNil, Wait
  <1> QED BY <1>1, <1>2, <1>3, <1>4, <1>5, <1>6, <1>7, <1>8
          DEF Next, vars, Run, Handle, TInv

-----------------------------------------------------------------------------
LEMMA Initially ==
  ASSUME Init
  PROVE  IInv /\ TInv
  <1>1. TypeOK
    <2>1. queue \in [Queues -> Seq(Forwarders)] /\ \A q \in Queues : Len(queue[q]) <= QueueSize
      BY EmptyQueue, ConnectionAssumption DEF Init
    <2>2. made \in 0..PacketBound
      BY ConnectionAssumption DEF Init
    <2>3. /\ trxMap \in [{Id[r] : r \in Requests} -> Requests \cup {NoRequest}]
          /\ holds \in [Requests -> Requests \cup {NoRequest}]
      BY DEF Init
    <2> QED BY <2>1, <2>2, <2>3 DEF Init, TypeOK
  <1>2. FlagFirst /\ Overtaken
    BY DEF Init, FlagFirst, Overtaken, PastFlush
  <1>3. Present /\ MissedOnlyLate
    BY DEF Init, Present, MissedOnlyLate
  <1> QED BY <1>1, <1>2, <1>3 DEF IInv, TInv

THEOREM Invariance == Spec => []IInv
  <1>1. Init => IInv
    BY Initially
  <1>2. IInv /\ [Next]_vars => IInv'
    BY TypeStep, FlagStep, OvertakenStep DEF IInv
  <1> QED BY <1>1, <1>2, PTL DEF Spec

\* The queues, senders, closers, transactions and handlers keep their types, and the
\* queues their capacity.
THEOREM TypeCorrect == Spec => []TypeOK
  <1>1. IInv => TypeOK
    BY DEF IInv
  <1> QED BY <1>1, Invariance, PTL

\* Once the channels are closed no queue holds two packets of one sender, for any
\* number of senders and of routines that call Close.
THEOREM LossBounded == Spec => []AtMostOneLost
  <1>1. IInv => AtMostOneLost
    BY DEF IInv, Overtaken, PastFlush, Distinct, AtMostOneLost
  <1> QED BY <1>1, Invariance, PTL

\* With ids of their own, a handler misses its transaction only after the transaction
\* or the connection has ended, for any number of requests.
THEOREM MissesOnlyLate ==
  ASSUME UniqueIds
  PROVE  Spec => []MissedOnlyLate
  <1>1. Init => IInv /\ TInv
    BY Initially
  <1>2. IInv /\ TInv /\ [Next]_vars => IInv' /\ TInv'
    BY UniqueIds, TypeStep, FlagStep, OvertakenStep, TransactionStep DEF IInv
  <1>3. TInv => MissedOnlyLate
    BY DEF TInv
  <1> QED BY <1>1, <1>2, <1>3, PTL DEF Spec

-----------------------------------------------------------------------------
(* Who waits, and who panics.                                              *)

\* StopSignal is closed before anything that a sender or the routine can see.
StopFirst ==
    /\ \A k \in AllClosers : closer[k] \notin {"no", "test", "stop"} => stopped
    /\ closed \/ channels # "open" \/ routine = "selectNil" => stopped
    /\ \A f \in Forwarders : forwarder[f] = "selectNil" => stopped

\* What is in the map or was found there is a transaction that was added.
Added ==
    /\ \A r \in Requests : trxMap[Id[r]] # NoRequest => trx[trxMap[Id[r]]] # "none"
    /\ \A r \in Requests : handler[r] = "send" => holds[r] \in Requests /\ trx[holds[r]] # "none"

LEMMA StopFirstStep ==
  ASSUME TypeOK, StopFirst, [Next]_vars
  PROVE  StopFirst' /\ (stopped => stopped')
  <1> USE DEF data, sending, requests, StopFirst
  <1>1. CASE UNCHANGED <<closer, closed, channels, routine, forwarder, stopped>>
    BY <1>1
  <1>2. ASSUME NEW k \in AllClosers, CloseNet(k) \/ Close(k)
        PROVE  StopFirst' /\ (stopped => stopped')
    BY <1>2 DEF CloseNet, Close, CloseTest, CloseStop, CloseFlag, Flush, FlushEnds,
                CloseChannels, SetNil, Wait, CloseAt, TypeOK
  <1>3. ASSUME NEW f \in Forwarders, Forward(f) \/ Advance(f) \/ Block(f) \/ (f = reader /\ ReaderEnds)
        PROVE  StopFirst' /\ (stopped => stopped')
    <2>1. UNCHANGED <<closer, closed, channels, stopped>>
      BY <1>3 DEF Forward, Advance, TestClosed, EnterSelect, Push, SeeStop, SendBlockSignal,
                  Block, ReaderEnds
    <2>2. /\ \A g \in Forwarders : g # f => forwarder'[g] = forwarder[g]
          /\ forwarder'[f] = "selectNil" => channels = "nil"
      BY <1>3 DEF Forward, Advance, TestClosed, EnterSelect, Push, SeeStop, SendBlockSignal,
                  Block, ReaderEnds, ForwardAt, TypeOK
    <2>3. routine' = "selectNil" => routine = "selectNil"
      BY <1>3 DEF Forward, Advance, TestClosed, EnterSelect, Push, SeeStop, SendBlockSignal,
                  Block, ReaderEnds
    <2> QED BY <2>1, <2>2, <2>3
  <1>4. CASE Serve \/ Quit
    BY <1>4 DEF Serve, Select, TakePacket, Quit
  <1>5. ASSUME NEW r \in Requests, AddRemoteTransaction(r) \/ Run(r) \/ Handle(r)
        PROVE  UNCHANGED <<closer, closed, channels, routine, forwarder, stopped>>
    BY <1>5 DEF AddRemoteTransaction, Run, TimeOut, DeleteTransaction, Handle,
                FindRemoteTransaction, SendNext
  <1> QED BY <1>1, <1>2, <1>3, <1>4, <1>5 DEF Next, vars, Forwarders

LEMMA AddedStep ==
  ASSUME TypeOK, Added, [Next]_vars
  PROVE  Added'
  <1> USE DEF data, sending, requests
  <1>1. CASE UNCHANGED <<trxMap, trx, handler, holds>>
    BY <1>1 DEF Added
  <1>2. ASSUME NEW r \in Requests, AddRemoteTransaction(r)
        PROVE  Added'
    <2>1. PICK to \in {"find", "none"} : handler' = [handler EXCEPT ![r] = to]
      BY <1>2 DEF AddRemoteTransaction
    <2>2. /\ trx' = [trx EXCEPT ![r] = "select"] /\ holds' = holds
          /\ trxMap' = [trxMap EXCEPT ![Id[r]] = r]
      BY <1>2 DEF AddRemoteTransaction
    <2>3. \A x \in Requests : trxMap'[Id[x]] \in {trxMap[Id[x]], r}
      BY <2>2 DEF TypeOK
    <2>4. \A x \in Requests : trx[x] # "none" => trx'[x] # "none"
      BY <2>2 DEF TypeOK
    <2>5. trx'[r] # "none" /\ \A x \in Requests : handler'[x] = "send" => handler[x] = "send"
      BY <2>1, <2>2 DEF TypeOK
    <2>6. \A x \in Requests : trxMap[Id[x]] \in Requests \cup {NoRequest}
      BY DEF TypeOK
    <2> QED BY <2>2, <2>3, <2>4, <2>5, <2>6, ConnectionAssumption DEF Added
  <1>3. ASSUME NEW r \in Requests, TimeOut(r) \/ SendNext(r)
        PROVE  Added'
    <2>1. UNCHANGED <<trxMap, holds>>
      BY <1>3 DEF TimeOut, SendNext
    <2>2. \A x \in Requests : trx[x] # "none" => trx'[x] # "none"
      BY <1>3 DEF TimeOut, SendNext, TypeOK
    <2>3. \A x \in Requests : handler'[x] = "send" => handler[x] = "send"
      BY <1>3 DEF TimeOut, SendNext, TypeOK
    <2>4. \A x \in Requests : trxMap[Id[x]] \in Requests \cup {NoRequest}
      BY DEF TypeOK
    <2> QED BY <2>1, <2>2, <2>3, <2>4 DEF Added
  <1>4. ASSUME NEW r \in Requests, DeleteTransaction(r)
        PROVE  Added'
    <2>1. /\ UNCHANGED <<handler, holds>>
          /\ \A x \in Requests : trxMap'[Id[x]] \in {trxMap[Id[x]], NoRequest}
          /\ \A x \in Requests : trx[x] # "none" => trx'[x] # "none"
      BY <1>4 DEF DeleteTransaction, TypeOK
    <2>2. \A x \in Requests : trxMap[Id[x]] \in Requests \cup {NoRequest}
      BY DEF TypeOK
    <2> QED BY <2>1, <2>2 DEF Added
  <1>5. ASSUME NEW r \in Requests, FindRemoteTransaction(r)
        PROVE  Added'
    <2>1. UNCHANGED <<trxMap, trx>>
      BY <1>5 DEF FindRemoteTransaction
    <2>2. \A x \in Requests : x # r => handler'[x] = handler[x] /\ holds'[x] = holds[x]
      BY <1>5 DEF FindRemoteTransaction, TypeOK
    <2>3. handler'[r] = "send" => holds'[r] # NoRequest /\ holds'[r] = trxMap[Id[r]]
      BY <1>5 DEF FindRemoteTransaction, TypeOK
    <2>4. trxMap[Id[r]] \in Requests \cup {NoRequest}
      BY DEF TypeOK
    <2> QED BY <2>1, <2>2, <2>3, <2>4 DEF Added
  <1>6. ASSUME \/ \E f \in Forwarders : Forward(f) \/ Advance(f)
               \/ \E f \in Senders : Block(f)
               \/ ReaderEnds \/ Serve \/ Quit
               \/ \E k \in AllClosers : CloseNet(k) \/ Close(k)
        PROVE  UNCHANGED <<trxMap, trx, handler, holds>>
    BY <1>6 DEF Forward, Advance, TestClosed, EnterSelect, Push, SeeStop, SendBlockSignal,
                Block, ReaderEnds, Serve, Select, TakePacket, Quit, Close, CloseNet, CloseTest,
                CloseStop, CloseFlag, Flush, FlushEnds, CloseChannels, SetNil, Wait
  <1> QED BY <1>1, <1>2, <1>3, <1>4, <1>5, <1>6 DEF Next, vars, Run, Handle

\* Nobody waits in a select for what cannot come: the safety under NobodyStuck, for any
\* number of senders and of routines that call Close.
THEOREM WaitersAlwaysReleased == Spec => []WaitersReleased
  <1>1. Init => StopFirst
    BY DEF Init, StopFirst
  <1>2. IInv /\ StopFirst /\ [Next]_vars => StopFirst'
    BY StopFirstStep DEF IInv
  <1>3. IInv /\ StopFirst => WaitersReleased
    <2> SUFFICES ASSUME IInv, StopFirst, NEW f \in Forwarders, ~stopped,
                        forwarder[f] \in {"select", "selectNil"}
                 PROVE  /\ forwarder[f] = "select" /\ channels = "open"
                        /\ \/ routine \in {"busy", "select"}
                           \/ routine = "close" /\ closer[owner] \in {"no", "test", "stop"}
      BY DEF WaitersReleased
    <2>1. owner \in AllClosers /\ routine \in {"busy", "select", "selectNil", "close"}
      BY DEF AllClosers, IInv, TypeOK
    <2> QED BY <2>1 DEF StopFirst
  <1> QED BY <1>1, <1>2, <1>3, Invariance, PTL DEF Spec

\* An open connection whose transactions all run does not panic, whatever the requests,
\* repeated ids too.
THEOREM NoEarlyPanic == Spec => []PanicsOnlyLate
  <1> DEFINE J == StopFirst /\ Added /\ PanicsOnlyLate
  <1>1. Init => J
    BY DEF Init, StopFirst, Added, PanicsOnlyLate
  <1>2. IInv /\ J /\ [Next]_vars => J'
    <2> SUFFICES ASSUME IInv, J, [Next]_vars, crashed'
                 PROVE  stopped' \/ \E r \in Requests : trx'[r] \in {"shut", "gone"}
      BY StopFirstStep, AddedStep DEF IInv, PanicsOnlyLate
    <2> USE DEF data, sending, requests
    <2>1. CASE crashed
      <3>1. [Next]_vars /\ crashed => UNCHANGED vars
        BY <2>1 DEF Next
      <3> QED BY <2>1, <3>1 DEF PanicsOnlyLate, vars
    <2>2. CASE ~crashed
      <3>1. ASSUME NEW f \in Forwarders, Push(f) \/ SendBlockSignal(f)
            PROVE  stopped'
        BY <2>2, <3>1 DEF Push, SendBlockSignal, StopFirst
      <3>2. ASSUME NEW k \in AllClosers, CloseStop(k)
            PROVE  stopped'
        BY <3>2 DEF CloseStop
      <3>3. ASSUME NEW r \in Requests, SendNext(r)
            PROVE  \E x \in Requests : trx'[x] \in {"shut", "gone"}
        <4>1. holds[r] \in Requests /\ trx[holds[r]] \in {"select", "shut", "gone"}
          BY <3>3 DEF SendNext, Added, IInv, TypeOK
        <4>2. trx'[holds[r]] \in {"shut", "gone"}
          BY <3>3, <4>1 DEF SendNext, IInv, TypeOK
        <4> QED BY <4>1, <4>2
      <3> QED BY <2>2, <3>1, <3>2, <3>3
              DEF Next, vars, Forward, Advance, TestClosed, EnterSelect, SeeStop, Block,
                  ReaderEnds, Serve, Select, TakePacket, Quit, Close, CloseNet, CloseTest,
                  CloseFlag, Flush, FlushEnds, CloseChannels, SetNil, Wait, Run, TimeOut,
                  AddRemoteTransaction, DeleteTransaction, Handle, FindRemoteTransaction
    <2> QED BY <2>1, <2>2
  <1>3. J => PanicsOnlyLate
    OBVIOUS
  <1> QED BY <1>1, <1>2, <1>3, Invariance, PTL DEF Spec

\* With ids of their own, no answer goes out over the transaction of another request.
THEOREM AnswersStayApart ==
  ASSUME UniqueIds
  PROVE  Spec => []AnswersOwnRequest
  <1> DEFINE Own == \A r \in Requests : trxMap[Id[r]] \in {r, NoRequest}
  <1>1. Init => Own /\ AnswersOwnRequest
    BY DEF Init, AnswersOwnRequest
  <1>2. IInv /\ Own /\ AnswersOwnRequest /\ [Next]_vars => Own' /\ AnswersOwnRequest'
    <2> SUFFICES ASSUME IInv, Own, AnswersOwnRequest, [Next]_vars
                 PROVE  Own' /\ AnswersOwnRequest'
      OBVIOUS
    <2> USE DEF data, sending, requests
    <2>1. TypeOK
      BY DEF IInv
    <2>2. CASE UNCHANGED <<trxMap, holds>>
      BY <2>2 DEF AnswersOwnRequest
    <2>3. ASSUME NEW r \in Requests, AddRemoteTransaction(r)
          PROVE  Own' /\ AnswersOwnRequest'
      BY <2>1, <2>3 DEF AddRemoteTransaction, UniqueIds, TypeOK, AnswersOwnRequest
    <2>4. ASSUME NEW r \in Requests, DeleteTransaction(r)
          PROVE  Own' /\ AnswersOwnRequest'
      BY <2>1, <2>4 DEF DeleteTransaction, TypeOK, AnswersOwnRequest
    <2>5. ASSUME NEW r \in Requests, FindRemoteTransaction(r)
          PROVE  Own' /\ AnswersOwnRequest'
      BY <2>1, <2>5 DEF FindRemoteTransaction, TypeOK, AnswersOwnRequest
    <2> QED BY <2>2, <2>3, <2>4, <2>5
            DEF Next, vars, Forward, Advance, TestClosed, EnterSelect, Push, SeeStop,
                SendBlockSignal, Block, ReaderEnds, Serve, Select, TakePacket, Quit, Close,
                CloseNet, CloseTest, CloseStop, CloseFlag, Flush, FlushEnds, CloseChannels,
                SetNil, Wait, Run, TimeOut, Handle, SendNext
  <1> QED BY <1>1, <1>2, Invariance, PTL DEF Spec

-----------------------------------------------------------------------------
(* The packet pool: what holds whatever is released.                       *)

\* Who has a packet, and who has passed the point where its buffer is in the pool again.
Having == Releasing \cup {"using", "serving", "release", "crashed"}
Gone == Releasing \ {"put"}

HoldersAt(at, S) == {h \in Holders : at[h] \in S}

\* When two sleep, or one does and another is about to, as many wake-ups are on their
\* way as there are places: only a signal that meets an empty list is lost.
Crowded == Len(sleepers) >= 2 \/ (sleepers # <<>> /\ lock # none)
Waking == {"signal", "woken"}
WakeupsSuffice == Crowded => MaxBuffers - count <= Cardinality(HoldersAt(pc, Waking))

\* The lock and the list of the condition variable.
Listed ==
    /\ \A u \in Users : pc[u] = "full" <=> lock = u
    /\ \A u \in Users : pc[u] = "asleep" => \E i \in 1..Len(sleepers) : sleepers[i] = u
    /\ \A i \in 1..Len(sleepers) : pc[sleepers[i]] = "asleep"
    /\ \A i, j \in 1..Len(sleepers) : sleepers[i] = sleepers[j] => i = j

\* A packet has one user, and one transaction; with a transaction it is no longer in use.
Held ==
    /\ \A h \in Holders : packet[h] # none <=> pc[h] \in Having
    /\ \A u, v \in Users : u # v /\ packet[u] = packet[v] => packet[u] = none
    /\ \A t, s \in Transactions : t # s /\ packet[t] = packet[s] => packet[t] = none
    /\ \A u \in Users, t \in Transactions :
          packet[u] = packet[t] /\ packet[t] # none => pc[u] # "using"
    /\ \A t \in Transactions : pc[t] \notin {"using", "crashed"}

-----------------------------------------------------------------------------
(* What holds until a packet is released twice.                            *)

\* A packet with a buffer that is not in the pool yet.
Live(p) ==
    /\ buf[p] # none
    /\ \A h \in Holders : packet[h] = p => pc[h] \notin Gone

\* A buffer has one packet or a place in the pool, a packet one who releases it, and its
\* user is there as long as it has a buffer.
Owned ==
    /\ \A p \in Packets : Live(p) => pool[buf[p]] = 0
    /\ \A p, q \in Packets : p # q /\ Live(p) /\ Live(q) => buf[p] # buf[q]
    /\ (\A b \in Buffers : pool[b] \in 0..1) /\ pool[none] = 0
    /\ \A h, o \in Holders : h # o /\ packet[h] = packet[o] /\ pc[h] \in Releasing
                                => pc[o] \notin Releasing
    /\ \A h \in Holders : pc[h] \in Releasing \cup {"using"} => buf[packet[h]] # none
    /\ \A p \in Packets : buf[p] # none => \E u \in Users : packet[u] = p

PoolIInv ==
    PoolTypeOK /\ PlacesCounted /\ WakeupsSuffice /\ Listed /\ Held /\ (doubled \/ Owned)

LEMMA HoldersFinite ==
  ASSUME NEW at, NEW S
  PROVE  IsFiniteSet(HoldersAt(at, S)) /\ Cardinality(HoldersAt(at, S)) \in Nat
  <1>1. HoldersAt(at, S) \in SUBSET Holders /\ IsFiniteSet(Holders)
    BY PacketPoolAssumption DEF HoldersAt
  <1> QED BY <1>1, FS_Subset, FS_CardinalityType

LEMMA InsideFinite ==
  IsFiniteSet(Inside) /\ Cardinality(Inside) \in Nat
  <1>1. Inside \in SUBSET Holders /\ IsFiniteSet(Holders)
    BY PacketPoolAssumption DEF Inside, Holders
  <1> QED BY <1>1, FS_Subset, FS_CardinalityType

\* How a step of one holder changes the number of those at S.
LEMMA OneStays ==
  ASSUME NEW at, NEW new, NEW S, \A h \in Holders : at[h] \in S <=> new[h] \in S
  PROVE  HoldersAt(new, S) = HoldersAt(at, S)
  BY DEF HoldersAt

LEMMA OneEnters ==
  ASSUME NEW at, NEW new, NEW S, NEW h \in Holders, at[h] \notin S, new[h] \in S,
         \A o \in Holders : o # h => new[o] = at[o]
  PROVE  Cardinality(HoldersAt(new, S)) = Cardinality(HoldersAt(at, S)) + 1
  <1>1. HoldersAt(new, S) = HoldersAt(at, S) \cup {h} /\ h \notin HoldersAt(at, S)
    BY DEF HoldersAt
  <1> QED BY <1>1, HoldersFinite, FS_AddElement

LEMMA OneLeaves ==
  ASSUME NEW at, NEW new, NEW S, NEW h \in Holders, at[h] \in S, new[h] \notin S,
         \A o \in Holders : o # h => new[o] = at[o]
  PROVE  Cardinality(HoldersAt(new, S)) = Cardinality(HoldersAt(at, S)) - 1
  <1>1. HoldersAt(new, S) = HoldersAt(at, S) \ {h} /\ h \in HoldersAt(at, S)
    BY DEF HoldersAt
  <1> QED BY <1>1, HoldersFinite, FS_RemoveElement

LEMMA NobodyThere ==
  ASSUME NEW at, NEW S, \A h \in Holders : at[h] \notin S
  PROVE  Cardinality(HoldersAt(at, S)) = 0
  <1>1. HoldersAt(at, S) = {}
    BY DEF HoldersAt
  <1> QED BY <1>1, FS_EmptySet

\* A signal moves two, the one that calls it away from S and the one it wakes to it.
LEMMA OneRelieves ==
  ASSUME NEW at, NEW new, NEW S, NEW h \in Holders, NEW v \in Holders, h # v,
         at[h] \in S, new[h] \notin S, at[v] \notin S, new[v] \in S,
         \A o \in Holders : o # h /\ o # v => new[o] = at[o]
  PROVE  Cardinality(HoldersAt(new, S)) = Cardinality(HoldersAt(at, S))
  <1>1. HoldersAt(new, S) = (HoldersAt(at, S) \ {h}) \cup {v}
    BY DEF HoldersAt
  <1>2. h \in HoldersAt(at, S) /\ v \notin HoldersAt(at, S) \ {h}
    BY DEF HoldersAt
  <1>3. Cardinality(HoldersAt(at, S) \ {h}) = Cardinality(HoldersAt(at, S)) - 1
    BY <1>2, HoldersFinite, FS_RemoveElement
  <1>4. IsFiniteSet(HoldersAt(at, S) \ {h})
    BY HoldersFinite, FS_Subset
  <1>5. Cardinality(HoldersAt(new, S)) = Cardinality(HoldersAt(at, S) \ {h}) + 1
    BY <1>1, <1>2, <1>4, FS_AddElement
  <1> QED BY <1>3, <1>5, HoldersFinite

\* The arithmetic of p.count.
LEMMA WordPlus ==
  ASSUME NEW n \in Nat, n < MaxBuffers
  PROVE  (n + 1) % Word = n + 1
  BY PacketPoolAssumption

LEMMA WordMinus ==
  ASSUME NEW n \in 0..(Word - 1)
  PROVE  (n + Word - 1) % Word = IF n = 0 THEN Word - 1 ELSE n - 1
  <1>1. CASE n = 0
    BY <1>1, PacketPoolAssumption
  <1>2. CASE n # 0
    <2>1. n - 1 \in 0..(Word - 1) /\ n + Word - 1 = (n - 1) + Word
      BY <1>2, PacketPoolAssumption
    <2>2. ((n - 1) + Word) % Word = n - 1
      BY <2>1, PacketPoolAssumption
    <2> QED BY <1>2, <2>1, <2>2
  <1> QED BY <1>1, <1>2

LEMMA NewIn ==
  ASSUME NEW S, NEW x \in New(S)
  PROVE  x \in S
  BY DEF New

-----------------------------------------------------------------------------
(* The steps.                                                              *)

\* The packet has no buffer any more.
LeaveIt(h) ==
    /\ pc[h] = "release" /\ buf[packet[h]] = none
    /\ Leave(h)
    /\ UNCHANGED <<lock, count, sleepers, pool, buf, dropped, doubled>>

\* It still has one.
KeepOn(h) ==
    /\ pc[h] = "release" /\ buf[packet[h]] # none
    /\ Go(h, "put")
    /\ doubled' = (doubled \/ Overlaps(h))
    /\ UNCHANGED <<lock, count, sleepers, pool, buf, packet, dropped>>

\* The fields of a new packet.
Obtain(u, p, b) ==
    /\ pc[u] = "got" /\ \A h \in Holders : packet[h] # p
    /\ pool[b] = 0 => b \in Buffers /\ \A q \in Packets : buf[q] # b
    /\ pool' = [pool EXCEPT ![b] = IF @ = 0 THEN 0 ELSE @ - 1]
    /\ packet' = [packet EXCEPT ![u] = p]
    /\ buf' = [buf EXCEPT ![p] = b]
    /\ Go(u, IF b = none THEN "crashed" ELSE "using")
    /\ UNCHANGED <<lock, count, sleepers, dropped, doubled>>

PoolStep ==
    \/ \E h \in Holders :
          LeaveIt(h) \/ KeepOn(h) \/ PoolPut(h) \/ Subtract(h) \/ Signal(h) \/ Clear(h)
    \/ \E u \in Users :
          \/ TakePlace(u) \/ FindFull(u) \/ Sleep(u) \/ Release(u) \/ Drop(u)
          \/ \E p \in Packets, b \in Buffers \cup {none} : Obtain(u, p, b)
          \/ \E t \in Transactions : Hand(u, t)
    \/ \E t \in Transactions : TransactionEnds(t)

LEMMA PoolSteps ==
  ASSUME PoolTypeOK, PoolNext
  PROVE  PoolStep
  <1>1. ASSUME NEW h \in Holders, TestBuffer(h)
        PROVE  LeaveIt(h) \/ KeepOn(h)
    BY <1>1 DEF TestBuffer, LeaveIt, KeepOn, At
  <1>2. ASSUME NEW u \in Users, PoolGet(u)
        PROVE  \E p \in Packets, b \in Buffers \cup {none} : Obtain(u, p, b)
    <2>1. PICK p \in NewPacket, b \in Pooled \cup New(Unreferenced) :
              /\ pool' = [pool EXCEPT ![b] = IF @ = 0 THEN 0 ELSE @ - 1]
              /\ packet' = [packet EXCEPT ![u] = p]
              /\ buf' = [buf EXCEPT ![p] = b]
              /\ Go(u, IF b = none THEN "crashed" ELSE "using")
      BY <1>2 DEF PoolGet
    <2>2. p \in Packets /\ \A h \in Holders : packet[h] # p
      BY NewIn DEF NewPacket
    <2>3. b \in Buffers \cup {none} /\ (pool[b] = 0 => b \in Buffers /\ \A q \in Packets : buf[q] # b)
      <3>1. CASE b \in Pooled
        BY <3>1 DEF Pooled, PoolTypeOK
      <3>2. CASE b \in New(Unreferenced)
        BY <3>2, NewIn DEF Unreferenced
      <3> QED BY <3>1, <3>2
    <2>4. Obtain(u, p, b)
      BY <1>2, <2>1, <2>2, <2>3 DEF Obtain, PoolGet, At
    <2> QED BY <2>2, <2>3, <2>4
  <1> QED BY <1>1, <1>2 DEF PoolNext, PoolStep, Put, Get, Use

\* One goroutine goes on, the others stay where they are.
Moved(h, from, to) ==
    pc[h] \in from /\ pc'[h] = to /\ \A o \in Holders : o # h => pc'[o] = pc[o]

LEMMA Moves ==
  ASSUME PoolTypeOK, NEW h \in Holders
  PROVE  /\ TakePlace(h) => Moved(h, {"idle", "woken"}, "got")
         /\ FindFull(h) => Moved(h, {"idle", "woken"}, "full")
         /\ Sleep(h) => Moved(h, {"full"}, "asleep")
         /\ LeaveIt(h) => Moved(h, {"release"}, "idle")
         /\ KeepOn(h) => Moved(h, {"release"}, "put")
         /\ PoolPut(h) => Moved(h, {"put"}, "subtract")
         /\ Subtract(h) => Moved(h, {"subtract"}, "signal")
         /\ Clear(h) => Moved(h, {"clear"}, "idle")
         /\ Release(h) => Moved(h, {"using"}, "release")
         /\ Drop(h) => Moved(h, {"using"}, "idle")
         /\ TransactionEnds(h) => Moved(h, {"serving"}, "release")
  <1> USE DEF At, Go, Moved
  <1>1. DOMAIN pc = Holders
    BY DEF PoolTypeOK
  <1>2. /\ TakePlace(h) => Moved(h, {"idle", "woken"}, "got")
        /\ FindFull(h) => Moved(h, {"idle", "woken"}, "full")
        /\ Sleep(h) => Moved(h, {"full"}, "asleep")
    BY <1>1 DEF TakePlace, FindFull, Sleep, Enters, PoolTypeOK
  <1>3. /\ LeaveIt(h) => Moved(h, {"release"}, "idle")
        /\ KeepOn(h) => Moved(h, {"release"}, "put")
        /\ PoolPut(h) => Moved(h, {"put"}, "subtract")
        /\ Subtract(h) => Moved(h, {"subtract"}, "signal")
    BY <1>1 DEF LeaveIt, Leave, KeepOn, PoolPut, Subtract, PoolTypeOK
  <1>4. /\ Clear(h) => Moved(h, {"clear"}, "idle")
        /\ Release(h) => Moved(h, {"using"}, "release")
        /\ Drop(h) => Moved(h, {"using"}, "idle")
        /\ TransactionEnds(h) => Moved(h, {"serving"}, "release")
    BY <1>1 DEF Clear, Release, Drop, Leave, TransactionEnds, PoolTypeOK
  <1> QED BY <1>2, <1>3, <1>4

LEMMA ObtainMoves ==
  ASSUME PoolTypeOK, NEW u \in Users, NEW p, NEW b, Obtain(u, p, b)
  PROVE  Moved(u, {"got"}, IF b = none THEN "crashed" ELSE "using")
  BY DEF Obtain, Go, Moved, Holders, PoolTypeOK

LEMMA HandMoves ==
  ASSUME PoolTypeOK, NEW u \in Users, NEW t \in Transactions, Hand(u, t)
  PROVE  /\ pc[u] = "using" /\ pc[t] = "idle" /\ pc'[u] = "release" /\ pc'[t] = "serving"
         /\ \A o \in Holders : o \notin {u, t} => pc'[o] = pc[o]
  BY PacketPoolAssumption DEF Hand, At, Holders, PoolTypeOK

\* A signal goes on alone, or with the caller that came first.
LEMMA SignalMoves ==
  ASSUME PoolTypeOK, Listed, NEW h \in Holders, Signal(h)
  PROVE  \/ sleepers = <<>> /\ UNCHANGED sleepers /\ Moved(h, {"signal"}, "clear")
         \/ /\ sleepers # <<>> /\ sleepers' = Tail(sleepers)
            /\ Head(sleepers) \in Users /\ Head(sleepers) # h
            /\ pc[h] = "signal" /\ pc'[h] = "clear"
            /\ pc[Head(sleepers)] = "asleep" /\ pc'[Head(sleepers)] = "woken"
            /\ \A o \in Holders : o \notin {h, Head(sleepers)} => pc'[o] = pc[o]
  <1>1. CASE sleepers = <<>>
    BY <1>1 DEF Signal, At, Go, Moved, PoolTypeOK
  <1>2. CASE sleepers # <<>>
    <2>1. Head(sleepers) \in Users /\ pc[Head(sleepers)] = "asleep"
      BY <1>2, HeadTailProperties, LenProperties DEF PoolTypeOK, Listed
    <2> QED BY <1>2, <2>1 DEF Signal, Wakes, At, Holders, PoolTypeOK
  <1> QED BY <1>1, <1>2

-----------------------------------------------------------------------------
(* The lock and the list.                                                  *)

LEMMA ListedStep ==
  ASSUME PoolTypeOK, Listed, PoolStep
  PROVE  Listed'
  <1>1. /\ sleepers \in Seq(Users) /\ Len(sleepers) \in Nat
        /\ \A i \in 1..Len(sleepers) : sleepers[i] \in Users
    BY LenProperties, ElementOfSeq DEF PoolTypeOK
  <1>2. /\ Users \subseteq Holders /\ Transactions \subseteq Holders
        /\ Users \cap Transactions = {} /\ none \notin Users
    BY PacketPoolAssumption DEF Holders
  <1>3. ASSUME UNCHANGED <<lock, sleepers>>,
               \A v \in Users : /\ pc[v] = "full" <=> pc'[v] = "full"
                                /\ pc[v] = "asleep" <=> pc'[v] = "asleep"
        PROVE  Listed'
    BY <1>1, <1>3 DEF Listed
  <1>4. ASSUME NEW h \in Holders,
               \/ LeaveIt(h) \/ KeepOn(h) \/ PoolPut(h) \/ Subtract(h) \/ Clear(h)
               \/ TakePlace(h) \/ Release(h) \/ Drop(h) \/ TransactionEnds(h)
        PROVE  Listed'
    <2>1. \A v \in Users : /\ pc[v] = "full" <=> pc'[v] = "full"
                           /\ pc[v] = "asleep" <=> pc'[v] = "asleep"
      BY <1>2, <1>4, Moves DEF Moved
    <2> QED BY <1>3, <1>4, <2>1 DEF LeaveIt, KeepOn, PoolPut, Subtract, Clear, TakePlace,
                                     Release, Drop, TransactionEnds
  <1>5. ASSUME NEW u \in Users, NEW p \in Packets, NEW b \in Buffers \cup {none}, Obtain(u, p, b)
        PROVE  Listed'
    <2>1. \A v \in Users : /\ pc[v] = "full" <=> pc'[v] = "full"
                           /\ pc[v] = "asleep" <=> pc'[v] = "asleep"
      BY <1>2, <1>5, ObtainMoves DEF Moved
    <2> QED BY <1>3, <1>5, <2>1 DEF Obtain
  <1>6. ASSUME NEW u \in Users, NEW t \in Transactions, Hand(u, t)
        PROVE  Listed'
    <2>1. \A v \in Users : /\ pc[v] = "full" <=> pc'[v] = "full"
                           /\ pc[v] = "asleep" <=> pc'[v] = "asleep"
      BY <1>2, <1>6, HandMoves
    <2> QED BY <1>3, <1>6, <2>1 DEF Hand
  <1>8. ASSUME NEW u \in Users, FindFull(u)
        PROVE  Listed'
    <2>1. Moved(u, {"idle", "woken"}, "full") /\ lock = none /\ lock' = u /\ sleepers' = sleepers
      BY <1>2, <1>8, Moves DEF FindFull, Enters
    <2>2. \A v \in Users : v # u => pc'[v] = pc[v]
      BY <1>2, <2>1 DEF Moved
    <2>3. \A v \in Users : pc'[v] = "full" <=> lock' = v
      BY <1>2, <2>1, <2>2 DEF Moved, Listed
    <2>4. \A v \in Users : pc'[v] = "asleep" <=> pc[v] = "asleep"
      BY <2>1, <2>2 DEF Moved
    <2> QED BY <1>1, <2>1, <2>3, <2>4 DEF Listed
  <1>9. ASSUME NEW u \in Users, Sleep(u)
        PROVE  Listed'
    <2>1. /\ Moved(u, {"full"}, "asleep") /\ lock' = none
          /\ sleepers' = Append(sleepers, u)
      BY <1>2, <1>9, Moves DEF Sleep
    <2>2. \A v \in Users : v # u => pc'[v] = pc[v]
      BY <1>2, <2>1 DEF Moved
    <2>3. /\ Len(sleepers') = Len(sleepers) + 1
          /\ \A i \in 1..Len(sleepers) : sleepers'[i] = sleepers[i]
          /\ sleepers'[Len(sleepers) + 1] = u
      BY <1>1, <2>1, AppendProperties
    <2>4. \A i \in 1..Len(sleepers) : sleepers[i] # u
      BY <1>1, <2>1 DEF Moved, Listed
    <2>5. \A i \in 1..Len(sleepers') : i \in 1..Len(sleepers) \/ i = Len(sleepers) + 1
      BY <1>1, <2>3
    <2>6. \A v \in Users : pc'[v] = "full" <=> lock' = v
      BY <1>1, <1>2, <2>1, <2>2 DEF Moved, Listed
    <2>7. \A v \in Users : pc'[v] = "asleep" => \E i \in 1..Len(sleepers') : sleepers'[i] = v
      <3> SUFFICES ASSUME NEW v \in Users, pc'[v] = "asleep"
                   PROVE  \E i \in 1..Len(sleepers') : sleepers'[i] = v
        OBVIOUS
      <3>1. CASE v = u
        BY <1>1, <2>3, <3>1
      <3>2. CASE v # u
        <4>1. PICK i \in 1..Len(sleepers) : sleepers[i] = v
          BY <1>1, <2>2, <3>2 DEF Listed
        <4> QED BY <1>1, <2>3, <4>1
      <3> QED BY <3>1, <3>2
    <2>8. \A i \in 1..Len(sleepers') : pc'[sleepers'[i]] = "asleep"
      BY <1>1, <2>1, <2>2, <2>3, <2>5 DEF Moved, Listed
    <2>9. \A i, j \in 1..Len(sleepers') : sleepers'[i] = sleepers'[j] => i = j
      BY <1>1, <2>3, <2>4, <2>5 DEF Listed
    <2> QED BY <2>6, <2>7, <2>8, <2>9 DEF Listed
  <1>10. ASSUME NEW h \in Holders, Signal(h)
         PROVE  Listed'
    <2>1. lock' = lock
      BY <1>10 DEF Signal
    <2>2. CASE sleepers = <<>> /\ UNCHANGED sleepers /\ Moved(h, {"signal"}, "clear")
      <3>1. \A v \in Users : /\ pc[v] = "full" <=> pc'[v] = "full"
                             /\ pc[v] = "asleep" <=> pc'[v] = "asleep"
        BY <1>2, <2>2 DEF Moved
      <3> QED BY <1>3, <2>1, <2>2, <3>1
    <2>3. CASE sleepers # <<>>
      <3>1. PICK w \in Users :
              /\ w = Head(sleepers) /\ w # h /\ sleepers' = Tail(sleepers)
              /\ pc[h] = "signal" /\ pc'[h] = "clear" /\ pc[w] = "asleep" /\ pc'[w] = "woken"
              /\ \A v \in Users : v # h /\ v # w => pc'[v] = pc[v]
        BY <1>2, <1>10, <2>3, SignalMoves
      <3>2. /\ sleepers[1] = w /\ Len(sleepers) > 0 /\ Len(sleepers') = Len(sleepers) - 1
            /\ \A i \in 1..Len(sleepers') : sleepers'[i] = sleepers[i + 1]
        BY <1>1, <2>3, <3>1, HeadTailProperties
      <3>3. \A i \in 1..Len(sleepers') : i + 1 \in 1..Len(sleepers) /\ i + 1 # 1
        BY <1>1, <3>2
      <3>4. \A v \in Users : pc'[v] = "full" <=> lock' = v
        BY <1>1, <2>1, <3>1 DEF Listed
      <3>5. \A v \in Users : pc'[v] = "asleep" => \E i \in 1..Len(sleepers') : sleepers'[i] = v
        <4> SUFFICES ASSUME NEW v \in Users, pc'[v] = "asleep"
                     PROVE  \E i \in 1..Len(sleepers') : sleepers'[i] = v
          OBVIOUS
        <4>1. v # w /\ pc[v] = "asleep"
          BY <3>1
        <4>2. PICK i \in 1..Len(sleepers) : sleepers[i] = v
          BY <1>1, <4>1 DEF Listed
        <4>3. i # 1
          BY <3>2, <4>1, <4>2
        <4>4. i - 1 \in 1..Len(sleepers') /\ (i - 1) + 1 = i
          BY <1>1, <3>2, <4>3
        <4>5. sleepers'[i - 1] = v
          BY <3>2, <4>2, <4>4
        <4> QED BY <4>4, <4>5
      <3>6. \A i \in 1..Len(sleepers') : pc'[sleepers'[i]] = "asleep"
        <4> SUFFICES ASSUME NEW i \in 1..Len(sleepers')
                     PROVE  pc'[sleepers'[i]] = "asleep"
          OBVIOUS
        <4>1. i + 1 \in 1..Len(sleepers) /\ i + 1 # 1 /\ 1 \in 1..Len(sleepers)
          BY <1>1, <3>2, <3>3
        <4>2. sleepers[i + 1] \in Users /\ pc[sleepers[i + 1]] = "asleep" /\ sleepers[i + 1] # w
          BY <1>1, <3>2, <4>1 DEF Listed
        <4> QED BY <3>1, <3>2, <4>2
      <3>7. \A i, j \in 1..Len(sleepers') : sleepers'[i] = sleepers'[j] => i = j
        <4> SUFFICES ASSUME NEW i \in 1..Len(sleepers'), NEW j \in 1..Len(sleepers'),
                            sleepers'[i] = sleepers'[j]
                     PROVE  i = j
          OBVIOUS
        <4>1. i + 1 = j + 1
          BY <1>1, <3>2, <3>3 DEF Listed
        <4> QED BY <4>1
      <3> QED BY <3>4, <3>5, <3>6, <3>7 DEF Listed
    <2> QED BY <1>10, <2>2, <2>3, SignalMoves
  <1> QED BY <1>2, <1>4, <1>5, <1>6, <1>8, <1>9, <1>10 DEF PoolStep

-----------------------------------------------------------------------------
(* The wake-ups on their way.                                              *)

LEMMA WakeupsStep ==
  ASSUME PoolTypeOK, Listed, WakeupsSuffice, PoolStep
  PROVE  WakeupsSuffice'
  <1> DEFINE n == Cardinality(HoldersAt(pc, Waking))
             m == Cardinality(HoldersAt(pc', Waking))
  <1>1. /\ n \in Nat /\ m \in Nat /\ count \in 0..(Word - 1)
        /\ sleepers \in Seq(Users) /\ Len(sleepers) \in Nat
    BY HoldersFinite, LenProperties DEF PoolTypeOK
  <1>2. Users \subseteq Holders /\ Transactions \subseteq Holders /\ Users \cap Transactions = {}
    BY PacketPoolAssumption DEF Holders
  <1>3. /\ Crowded => MaxBuffers - count <= n
        /\ WakeupsSuffice' <=> (Crowded' => MaxBuffers - count' <= m)
    BY DEF WakeupsSuffice, HoldersAt, Waking
  <1>4. MaxBuffers \in Nat /\ none \notin Users /\ Word \in Nat /\ Word > MaxBuffers
    BY PacketPoolAssumption DEF Holders
  <1>5. (\A o \in Holders : pc[o] \in Waking <=> pc'[o] \in Waking) => m = n
    BY OneStays
  <1> HIDE DEF n, m
  <1> USE DEF Waking
  <1>6. ASSUME NEW u \in Users, TakePlace(u)
        PROVE  WakeupsSuffice'
    <2>1. Moved(u, {"idle", "woken"}, "got")
      BY <1>2, <1>6, Moves
    <2>2. m >= n - 1
      <3>1. CASE pc[u] = "woken"
        <4>1. pc[u] \in Waking /\ pc'[u] \notin Waking /\ \A o \in Holders : o # u => pc'[o] = pc[o]
          BY <2>1, <3>1 DEF Moved
        <4>2. m = n - 1
          BY <1>2, <4>1, OneLeaves DEF n, m
        <4> QED BY <4>2, <1>1
      <3>2. CASE pc[u] = "idle"
        BY <1>1, <1>5, <2>1, <3>2 DEF Moved
      <3> QED BY <2>1, <3>1, <3>2 DEF Moved
    <2>3. count' = count + 1 /\ UNCHANGED <<sleepers, lock>>
      BY <1>1, <1>6, WordPlus, PacketPoolAssumption DEF TakePlace
    <2> QED BY <1>1, <1>3, <1>4, <2>2, <2>3 DEF Crowded
  <1>7. ASSUME NEW h \in Holders, Subtract(h)
        PROVE  WakeupsSuffice'
    <2>1. pc[h] \notin Waking /\ pc'[h] \in Waking /\ \A o \in Holders : o # h => pc'[o] = pc[o]
      BY <1>7, Moves DEF Moved
    <2>2. m = n + 1
      BY <2>1, OneEnters DEF n, m
    <2>3. count' = IF count = 0 THEN Word - 1 ELSE count - 1
      BY <1>1, <1>7, WordMinus DEF Subtract
    <2>4. UNCHANGED <<sleepers, lock>>
      BY <1>7 DEF Subtract
    <2>5. CASE count = 0
      BY <1>1, <1>3, <1>4, <2>3, <2>5
    <2>6. CASE count # 0
      BY <1>1, <1>3, <1>4, <2>2, <2>3, <2>4, <2>6 DEF Crowded
    <2> QED BY <2>5, <2>6
  <1>8. ASSUME NEW u \in Users, FindFull(u)
        PROVE  WakeupsSuffice'
    <2>1. count >= MaxBuffers /\ count' = count
      BY <1>8 DEF FindFull
    <2> QED BY <1>1, <1>3, <1>4, <2>1
  <1>9. ASSUME NEW u \in Users, Sleep(u)
        PROVE  WakeupsSuffice'
    <2>1. Moved(u, {"full"}, "asleep")
      BY <1>2, <1>9, Moves
    <2>2. m = n
      BY <1>5, <2>1 DEF Moved
    <2>3. lock # none
      BY <1>4, <2>1 DEF Moved, Listed
    <2>4. Len(sleepers') = Len(sleepers) + 1 /\ lock' = none /\ count' = count
      BY <1>1, <1>9, AppendProperties DEF Sleep
    <2>5. Crowded' => Crowded
      <3>1. Crowded' => Len(sleepers) >= 1
        BY <1>1, <2>4 DEF Crowded
      <3> QED BY <3>1, <2>3 DEF Crowded
    <2> QED BY <1>1, <1>3, <1>4, <2>2, <2>4, <2>5
  <1>10. ASSUME NEW h \in Holders, Signal(h)
         PROVE  WakeupsSuffice'
    <2>1. UNCHANGED <<count, lock>>
      BY <1>10 DEF Signal
    <2>2. CASE sleepers = <<>>
      <3>1. ~Crowded'
        BY <1>10, <2>2 DEF Signal, Crowded
      <3> QED BY <1>3, <3>1
    <2>3. CASE sleepers # <<>>
      <3>1. PICK v \in Holders :
              /\ v # h /\ sleepers' = Tail(sleepers)
              /\ pc[h] = "signal" /\ pc'[h] = "clear" /\ pc[v] = "asleep" /\ pc'[v] = "woken"
              /\ \A o \in Holders : o # h /\ o # v => pc'[o] = pc[o]
        BY <1>2, <1>10, <2>3, SignalMoves
      <3>2. /\ pc[h] \in Waking /\ pc'[h] \notin Waking
            /\ pc[v] \notin Waking /\ pc'[v] \in Waking
        BY <3>1
      <3>3. m = n
        BY <3>1, <3>2, OneRelieves DEF n, m
      <3>4. Len(sleepers') = Len(sleepers) - 1
        BY <1>1, <2>3, <3>1, HeadTailProperties
      <3>5. Crowded' => Crowded
        BY <1>1, <2>1, <2>3, <3>4 DEF Crowded
      <3> QED BY <1>3, <2>1, <3>3, <3>5
    <2> QED BY <2>2, <2>3
  <1>11. ASSUME UNCHANGED <<count, sleepers, lock>>,
                \A o \in Holders : pc[o] \in Waking <=> pc'[o] \in Waking
         PROVE  WakeupsSuffice'
    BY <1>3, <1>5, <1>11 DEF Crowded
  <1>12. ASSUME NEW h \in Holders,
                \/ LeaveIt(h) \/ KeepOn(h) \/ PoolPut(h) \/ Clear(h) \/ Release(h) \/ Drop(h)
                \/ TransactionEnds(h)
         PROVE  WakeupsSuffice'
    <2>1. \A o \in Holders : pc[o] \in Waking <=> pc'[o] \in Waking
      BY <1>12, Moves DEF Moved
    <2> QED BY <1>11, <1>12, <2>1
            DEF LeaveIt, KeepOn, PoolPut, Clear, Release, Drop, TransactionEnds
  <1>13. ASSUME NEW u \in Users, NEW p \in Packets, NEW b \in Buffers \cup {none}, Obtain(u, p, b)
         PROVE  WakeupsSuffice'
    <2>1. \A o \in Holders : pc[o] \in Waking <=> pc'[o] \in Waking
      BY <1>2, <1>13, ObtainMoves DEF Moved
    <2> QED BY <1>11, <1>13, <2>1 DEF Obtain
  <1>14. ASSUME NEW u \in Users, NEW t \in Transactions, Hand(u, t)
         PROVE  WakeupsSuffice'
    <2>1. \A o \in Holders : pc[o] \in Waking <=> pc'[o] \in Waking
      BY <1>2, <1>14, HandMoves
    <2> QED BY <1>11, <1>14, <2>1 DEF Hand
  <1> QED BY <1>2, <1>6, <1>7, <1>8, <1>9, <1>10, <1>12, <1>13, <1>14 DEF PoolStep


-----------------------------------------------------------------------------
(* Who has which packet.                                                   *)

LEMMA HeldStep ==
  ASSUME PoolTypeOK, Listed, Held, PoolStep
  PROVE  Held'
  <1>1. /\ Users \subseteq Holders /\ Transactions \subseteq Holders
        /\ Users \cap Transactions = {} /\ none \notin Packets
    BY PacketPoolAssumption DEF Holders
  <1> USE DEF Having, Releasing
  <1>2. ASSUME UNCHANGED packet,
               \A h \in Holders : /\ pc'[h] \in Having <=> pc[h] \in Having
                                  /\ pc'[h] \in {"using", "crashed"} => pc'[h] = pc[h]
        PROVE  Held'
    BY <1>1, <1>2 DEF Held
  <1>3. ASSUME NEW h \in Holders,
               \/ KeepOn(h) \/ PoolPut(h) \/ Subtract(h) \/ TakePlace(h) \/ FindFull(h)
               \/ Sleep(h) \/ Release(h) \/ TransactionEnds(h)
        PROVE  Held'
    <2>1. \A o \in Holders : /\ pc'[o] \in Having <=> pc[o] \in Having
                             /\ pc'[o] \in {"using", "crashed"} => pc'[o] = pc[o]
      BY <1>3, Moves DEF Moved
    <2>2. UNCHANGED packet
      BY <1>3 DEF KeepOn, PoolPut, Subtract, TakePlace, FindFull, Sleep, Release, TransactionEnds
    <2> QED BY <1>2, <2>1, <2>2
  <1>4. ASSUME NEW h \in Holders, Signal(h)
        PROVE  Held'
    <2>1. \A o \in Holders : /\ pc'[o] \in Having <=> pc[o] \in Having
                             /\ pc'[o] \in {"using", "crashed"} => pc'[o] = pc[o]
      BY <1>1, <1>4, SignalMoves DEF Moved
    <2> QED BY <1>2, <1>4, <2>1 DEF Signal
  <1>5. ASSUME NEW h \in Holders, LeaveIt(h) \/ Clear(h) \/ Drop(h)
        PROVE  Held'
    <2>1. Moved(h, {"release", "clear", "using"}, "idle")
      BY <1>5, Moves DEF Moved
    <2>2. packet' = [packet EXCEPT ![h] = none]
      BY <1>5 DEF LeaveIt, Clear, Drop, Leave
    <2>3. /\ pc'[h] = "idle" /\ packet'[h] = none
          /\ \A o \in Holders : o # h => pc'[o] = pc[o] /\ packet'[o] = packet[o]
      BY <2>1, <2>2 DEF Moved, PoolTypeOK
    <2> QED BY <1>1, <2>3 DEF Held
  <1>6. ASSUME NEW u \in Users, NEW t \in Transactions, Hand(u, t)
        PROVE  Held'
    <2>1. /\ pc[u] = "using" /\ pc[t] = "idle" /\ pc'[u] = "release" /\ pc'[t] = "serving"
          /\ packet'[t] = packet[u] /\ u # t
          /\ \A o \in Holders : o \notin {u, t} => pc'[o] = pc[o]
          /\ \A o \in Holders : o # t => packet'[o] = packet[o]
      BY <1>1, <1>6, HandMoves DEF Hand, PoolTypeOK
    <2>2. packet[u] # none /\ packet[t] = none
      BY <1>1, <2>1 DEF Held
    <2>3. \A h \in Holders : packet'[h] # none <=> pc'[h] \in Having
      BY <1>1, <2>1, <2>2 DEF Held
    <2>4. \A v, w \in Users : v # w /\ packet'[v] = packet'[w] => packet'[v] = none
      BY <1>1, <2>1 DEF Held
    <2>5. \A r, s \in Transactions : r # s /\ packet'[r] = packet'[s] => packet'[r] = none
      BY <1>1, <2>1, <2>2 DEF Held
    <2>6. \A v \in Users, s \in Transactions :
             packet'[v] = packet'[s] /\ packet'[s] # none => pc'[v] # "using"
      BY <1>1, <2>1, <2>2 DEF Held
    <2>7. \A s \in Transactions : pc'[s] \notin {"using", "crashed"}
      BY <1>1, <2>1 DEF Held
    <2> QED BY <2>3, <2>4, <2>5, <2>6, <2>7 DEF Held
  <1>7. ASSUME NEW u \in Users, NEW p \in Packets, NEW b \in Buffers \cup {none}, Obtain(u, p, b)
        PROVE  Held'
    <2>1. /\ pc[u] = "got" /\ pc'[u] \in {"using", "crashed"} /\ packet'[u] = p
          /\ \A o \in Holders : o # u => pc'[o] = pc[o] /\ packet'[o] = packet[o]
          /\ \A o \in Holders : packet[o] # p
      BY <1>1, <1>7, ObtainMoves DEF Moved, Obtain, PoolTypeOK
    <2>2. p # none /\ \A t \in Transactions : t # u
      BY <1>1
    <2> QED BY <1>1, <2>1, <2>2 DEF Held
  <1> QED BY <1>1, <1>3, <1>4, <1>5, <1>6, <1>7 DEF PoolStep

-----------------------------------------------------------------------------
(* Who has which buffer.                                                   *)

LEMMA OwnedStep ==
  ASSUME PoolTypeOK, Listed, Held, Owned, PoolStep, ~doubled'
  PROVE  Owned'
  <1>1. /\ Users \subseteq Holders /\ Transactions \subseteq Holders
        /\ Users \cap Transactions = {} /\ none \notin Packets /\ none \notin Buffers
        /\ Holders = Users \cup Transactions
    BY PacketPoolAssumption DEF Holders
  <1> USE DEF Releasing, Gone
  <1>2. ASSUME UNCHANGED <<packet, buf, pool>>,
               \A h \in Holders : /\ pc[h] \in Gone <=> pc'[h] \in Gone
                                  /\ pc'[h] \in Releasing \cup {"using"}
                                       => {pc[h], pc'[h]} \subseteq Releasing \/ pc'[h] = pc[h]
        PROVE  Owned'
    <2>1. \A p \in Packets : Live(p)' => Live(p)
      BY <1>2 DEF Live
    <2> QED BY <1>2, <2>1 DEF Owned
  <1>3. ASSUME NEW h \in Holders,
               \/ Subtract(h) \/ TakePlace(h) \/ FindFull(h) \/ Sleep(h) \/ Release(h)
               \/ TransactionEnds(h)
        PROVE  Owned'
    <2>1. \A o \in Holders : /\ pc[o] \in Gone <=> pc'[o] \in Gone
                             /\ pc'[o] \in Releasing \cup {"using"}
                                  => {pc[o], pc'[o]} \subseteq Releasing \/ pc'[o] = pc[o]
      BY <1>3, Moves DEF Moved
    <2>2. UNCHANGED <<packet, buf, pool>>
      BY <1>3 DEF Subtract, TakePlace, FindFull, Sleep, Release, TransactionEnds
    <2> QED BY <1>2, <2>1, <2>2
  <1>4. ASSUME NEW h \in Holders, Signal(h)
        PROVE  Owned'
    <2>1. \A o \in Holders : /\ pc[o] \in Gone <=> pc'[o] \in Gone
                             /\ pc'[o] \in Releasing \cup {"using"}
                                  => {pc[o], pc'[o]} \subseteq Releasing \/ pc'[o] = pc[o]
      BY <1>1, <1>4, SignalMoves DEF Moved
    <2> QED BY <1>2, <1>4, <2>1 DEF Signal
  <1>5. ASSUME NEW h \in Holders, KeepOn(h)
        PROVE  Owned'
    <2>1. Moved(h, {"release"}, "put") /\ UNCHANGED <<packet, buf, pool>> /\ buf[packet[h]] # none
      BY <1>5, Moves DEF KeepOn
    <2>2. \A o \in Holders \ {h} : packet[o] = packet[h] => pc[o] \notin Releasing
      BY <1>5 DEF KeepOn, Overlaps
    <2>3. \A p \in Packets : Live(p)' => Live(p)
      BY <2>1 DEF Live, Moved
    <2>4. \A g, o \in Holders : g # o /\ packet'[g] = packet'[o] /\ pc'[g] \in Releasing
                                  => pc'[o] \notin Releasing
      BY <2>1, <2>2 DEF Owned, Moved
    <2>5. \A o \in Holders : pc'[o] \in Releasing \cup {"using"} => buf'[packet'[o]] # none
      BY <2>1 DEF Owned, Moved
    <2> QED BY <2>1, <2>3, <2>4, <2>5 DEF Owned
  <1>6. ASSUME NEW h \in Holders, LeaveIt(h)
        PROVE  Owned'
    <2>1. /\ Moved(h, {"release"}, "idle") /\ UNCHANGED <<buf, pool>> /\ buf[packet[h]] = none
          /\ packet'[h] = none /\ \A o \in Holders : o # h => packet'[o] = packet[o]
      BY <1>6, Moves DEF LeaveIt, Leave, PoolTypeOK
    <2>2. \A p \in Packets : Live(p)' => Live(p)
      BY <2>1 DEF Live, Moved
    <2>3. \A g, o \in Holders : g # o /\ packet'[g] = packet'[o] /\ pc'[g] \in Releasing
                                  => pc'[o] \notin Releasing
      BY <2>1 DEF Owned, Moved
    <2>4. \A o \in Holders : pc'[o] \in Releasing \cup {"using"} => buf'[packet'[o]] # none
      BY <2>1 DEF Owned, Moved
    <2>5. \A p \in Packets : buf'[p] # none => \E u \in Users : packet'[u] = p
      BY <1>1, <2>1 DEF Owned
    <2> QED BY <2>1, <2>2, <2>3, <2>4, <2>5 DEF Owned
  <1>7. ASSUME NEW h \in Holders, PoolPut(h)
        PROVE  Owned'
    <2>1. Moved(h, {"put"}, "subtract") /\ UNCHANGED <<packet, buf>>
      BY <1>7, Moves DEF PoolPut
    <2>2. PICK p0 \in Packets : p0 = packet[h] /\ Live(p0) /\ pc[h] = "put"
      <3>1. pc[h] = "put" /\ packet[h] \in Packets
        BY <2>1 DEF Moved, Held, Having, PoolTypeOK
      <3>2. buf[packet[h]] # none
        BY <3>1 DEF Owned
      <3>3. \A o \in Holders : packet[o] = packet[h] => pc[o] \notin Gone
        BY <3>1 DEF Owned
      <3> QED BY <3>1, <3>2, <3>3 DEF Live
    <2>3. PICK b \in Buffers : b = buf[p0] /\ pool[b] = 0
      BY <2>2 DEF Live, Owned, PoolTypeOK
    <2>4. pool'[b] = 1 /\ \A a \in Buffers \cup {none} : a # b => pool'[a] = pool[a]
      BY <1>7, <2>2, <2>3 DEF PoolPut, PoolTypeOK
    <2>5. ASSUME NEW p \in Packets, Live(p)'
          PROVE  Live(p) /\ p # p0 /\ pool'[buf'[p]] = 0
      <3>1. Live(p) /\ p # p0
        BY <2>1, <2>2, <2>5 DEF Live, Moved
      <3>2. buf[p] # b /\ pool[buf[p]] = 0 /\ buf[p] \in Buffers \cup {none}
        BY <2>2, <2>3, <3>1 DEF Owned, PoolTypeOK
      <3> QED BY <2>1, <2>4, <3>1, <3>2
    <2>6. \A p, q \in Packets : p # q /\ Live(p)' /\ Live(q)' => buf'[p] # buf'[q]
      BY <2>1, <2>5 DEF Owned
    <2>7. (\A a \in Buffers : pool'[a] \in 0..1) /\ pool'[none] = 0
      BY <1>1, <2>4 DEF Owned
    <2>8. \A g, o \in Holders : g # o /\ packet'[g] = packet'[o] /\ pc'[g] \in Releasing
                                  => pc'[o] \notin Releasing
      BY <2>1 DEF Owned, Moved
    <2>9. \A o \in Holders : pc'[o] \in Releasing \cup {"using"} => buf'[packet'[o]] # none
      BY <2>1 DEF Owned, Moved
    <2> QED BY <2>1, <2>5, <2>6, <2>7, <2>8, <2>9 DEF Owned
  <1>8. ASSUME NEW h \in Holders, Clear(h) \/ Drop(h)
        PROVE  Owned'
    <2>1. PICK p0 \in Packets :
            /\ p0 = packet[h] /\ pool' = pool
            /\ buf'[p0] = none /\ \A p \in Packets : p # p0 => buf'[p] = buf[p]
            /\ packet'[h] = none /\ \A o \in Holders : o # h => packet'[o] = packet[o]
            /\ pc[h] \in {"clear", "using"} /\ pc'[h] = "idle"
            /\ \A o \in Holders : o # h => pc'[o] = pc[o]
      <3>1. Moved(h, {"clear", "using"}, "idle")
        BY <1>8, Moves DEF Moved
      <3>2. packet[h] \in Packets
        BY <3>1 DEF Moved, Held, Having, PoolTypeOK
      <3> QED BY <1>8, <3>1, <3>2 DEF Clear, Drop, Leave, Moved, PoolTypeOK
    <2>2. ASSUME NEW p \in Packets, Live(p)'
          PROVE  Live(p) /\ p # p0 /\ buf'[p] = buf[p]
      BY <2>1, <2>2 DEF Live
    <2>3. ASSUME NEW o \in Holders, o # h, packet[o] = p0
          PROVE  pc[o] \notin Releasing \cup {"using"}
      <3>1. pc[h] = "using" => h \in Users
        BY <1>1 DEF Held
      <3>2. pc[o] # "using"
        BY <1>1, <2>1, <2>3 DEF Held
      <3>3. CASE pc[h] = "clear"
        BY <2>1, <2>3, <3>2, <3>3 DEF Owned
      <3>4. CASE pc[h] = "using"
        BY <1>1, <2>1, <2>3, <3>1, <3>4 DEF Held
      <3> QED BY <2>1, <3>3, <3>4
    <2>4. ASSUME NEW o \in Holders, pc'[o] \in Releasing \cup {"using"}
          PROVE  buf'[packet'[o]] # none
      <3>1. o # h /\ pc[o] \in Releasing \cup {"using"} /\ packet[o] # p0
        BY <2>1, <2>3, <2>4
      <3>2. packet[o] \in Packets /\ buf[packet[o]] # none
        BY <3>1 DEF Held, Having, Owned, PoolTypeOK
      <3> QED BY <2>1, <3>1, <3>2
    <2>5. \A g, o \in Holders : g # o /\ packet'[g] = packet'[o] /\ pc'[g] \in Releasing
                                  => pc'[o] \notin Releasing
      BY <2>1 DEF Owned
    <2>6. \A p \in Packets : buf'[p] # none => \E u \in Users : packet'[u] = p
      BY <1>1, <2>1 DEF Owned
    <2> QED BY <2>1, <2>2, <2>4, <2>5, <2>6 DEF Owned
  <1>9. ASSUME NEW u \in Users, NEW t \in Transactions, Hand(u, t)
        PROVE  Owned'
    <2>1. /\ pc[u] = "using" /\ pc[t] = "idle" /\ pc'[u] = "release" /\ pc'[t] = "serving"
          /\ packet'[t] = packet[u] /\ u # t /\ UNCHANGED <<buf, pool>>
          /\ \A o \in Holders : o \notin {u, t} => pc'[o] = pc[o]
          /\ \A o \in Holders : o # t => packet'[o] = packet[o]
      BY <1>1, <1>9, HandMoves DEF Hand, PoolTypeOK
    <2>2. \A p \in Packets : Live(p)' => Live(p)
      BY <2>1 DEF Live
    <2>3. \A o \in Holders : pc'[o] \in Releasing \cup {"using"} => o \notin {u, t}
      BY <2>1
    <2>4. \A g, o \in Holders : g # o /\ packet'[g] = packet'[o] /\ pc'[g] \in Releasing
                                  => pc'[o] \notin Releasing
      BY <2>1, <2>3 DEF Owned
    <2>5. \A o \in Holders : pc'[o] \in Releasing \cup {"using"} => buf'[packet'[o]] # none
      BY <2>1, <2>3 DEF Owned
    <2>6. \A p \in Packets : buf'[p] # none => \E v \in Users : packet'[v] = p
      BY <1>1, <2>1 DEF Owned
    <2> QED BY <2>1, <2>2, <2>4, <2>5, <2>6 DEF Owned
  <1>10. ASSUME NEW u \in Users, NEW p0 \in Packets, NEW b \in Buffers \cup {none}, Obtain(u, p0, b)
         PROVE  Owned'
    <2>1. b \in Buffers
      BY <1>1, <1>10 DEF Obtain, Owned
    <2>2. /\ pc[u] = "got" /\ pc'[u] = "using" /\ packet'[u] = p0 /\ packet[u] = none
          /\ buf'[p0] = b /\ \A p \in Packets : p # p0 => buf'[p] = buf[p]
          /\ pool'[b] = 0 /\ \A a \in Buffers \cup {none} : a # b => pool'[a] = pool[a]
          /\ \A o \in Holders : o # u => pc'[o] = pc[o] /\ packet'[o] = packet[o]
          /\ \A o \in Holders : packet[o] # p0
      <3>1. Moved(u, {"got"}, "using")
        BY <1>1, <1>10, <2>1, ObtainMoves
      <3>2. packet[u] = none
        BY <1>1, <3>1 DEF Moved, Held, Having
      <3>3. pool[b] \in 0..1
        BY <2>1 DEF Owned
      <3> QED BY <1>1, <1>10, <2>1, <3>1, <3>2, <3>3 DEF Obtain, Moved, PoolTypeOK
    <2>3. ASSUME NEW p \in Packets, p # p0, Live(p)'
          PROVE  Live(p) /\ buf'[p] = buf[p] /\ buf[p] # b /\ pool'[buf[p]] = 0
      <3>1. Live(p)
        BY <1>1, <2>2, <2>3 DEF Live
      <3>2. pool[buf[p]] = 0 /\ buf[p] \in Buffers
        BY <3>1 DEF Owned, Live, PoolTypeOK
      <3>3. buf[p] # b
        BY <1>10, <3>2 DEF Obtain
      <3> QED BY <2>2, <2>3, <3>1, <3>2, <3>3
    <2>4. \A p \in Packets : Live(p)' => pool'[buf'[p]] = 0
      BY <2>2, <2>3
    <2>5. \A p, q \in Packets : p # q /\ Live(p)' /\ Live(q)' => buf'[p] # buf'[q]
      BY <2>2, <2>3 DEF Owned
    <2>6. (\A a \in Buffers : pool'[a] \in 0..1) /\ pool'[none] = 0
      BY <1>1, <2>1, <2>2 DEF Owned
    <2>7. \A g, o \in Holders : g # o /\ packet'[g] = packet'[o] /\ pc'[g] \in Releasing
                                  => pc'[o] \notin Releasing
      BY <2>2 DEF Owned
    <2>8. ASSUME NEW o \in Holders, pc'[o] \in Releasing \cup {"using"}
          PROVE  buf'[packet'[o]] # none
      <3>1. CASE o = u
        BY <1>1, <2>1, <2>2, <3>1
      <3>2. CASE o # u
        <4>1. packet[o] \in Packets /\ packet[o] # p0 /\ buf[packet[o]] # none
          BY <2>2, <2>8, <3>2 DEF Held, Having, Owned, PoolTypeOK
        <4> QED BY <2>2, <3>2, <4>1
      <3> QED BY <3>1, <3>2
    <2>9. \A p \in Packets : buf'[p] # none => \E v \in Users : packet'[v] = p
      BY <1>1, <2>2 DEF Owned
    <2> QED BY <2>4, <2>5, <2>6, <2>7, <2>8, <2>9 DEF Owned
  <1>11. ASSUME NEW h \in Holders,
                \/ LeaveIt(h) \/ KeepOn(h) \/ PoolPut(h) \/ Subtract(h) \/ Signal(h) \/ Clear(h)
         PROVE  Owned'
    <2>1. CASE Clear(h)
      BY <1>8, <2>1
    <2>2. CASE Subtract(h)
      BY <1>3, <2>2
    <2> QED BY <1>4, <1>5, <1>6, <1>7, <1>11, <2>1, <2>2
  <1>12. ASSUME NEW u \in Users,
                \/ TakePlace(u) \/ FindFull(u) \/ Sleep(u) \/ Release(u) \/ Drop(u)
         PROVE  Owned'
    <2>1. u \in Holders
      BY <1>1
    <2>2. CASE Drop(u)
      BY <1>8, <2>1, <2>2
    <2>3. CASE TakePlace(u) \/ FindFull(u) \/ Sleep(u) \/ Release(u)
      BY <1>3, <2>1, <2>3
    <2> QED BY <1>12, <2>2, <2>3
  <1> QED BY <1>1, <1>3, <1>9, <1>10, <1>11, <1>12 DEF PoolStep

-----------------------------------------------------------------------------
(* The places.                                                             *)

\* Who is past the point of Put where its place is given back.
Past == {"signal", "clear"}

LEMMA InsideStays ==
  ASSUME \A u \in Users : HasPlace(u)' <=> HasPlace(u)
  PROVE  Inside' = Inside
  BY DEF Inside

\* The users who have a place change with three steps only, until a packet is released
\* twice: a Get that finds room, the subtraction of a Put, and a packet let fall.
LEMMA InsideStep ==
  ASSUME PoolTypeOK, Listed, Held, Owned, PoolStep, ~doubled'
  PROVE  \/ \E u \in Users :
              /\ TakePlace(u) /\ u \notin Inside /\ Inside' = Inside \cup {u}
              /\ UNCHANGED dropped
         \/ \E u \in Users, h \in Holders :
              /\ Subtract(h) /\ u \in Inside /\ Inside' = Inside \ {u}
              /\ UNCHANGED dropped
         \/ \E u \in Users : Drop(u) /\ u \in Inside /\ Inside' = Inside \ {u}
         \/ Inside' = Inside /\ UNCHANGED <<count, dropped>>
  <1>1. /\ Users \subseteq Holders /\ Transactions \subseteq Holders
        /\ Users \cap Transactions = {} /\ none \notin Packets /\ none \notin Buffers
        /\ Holders = Users \cup Transactions
    BY PacketPoolAssumption DEF Holders
  <1> USE DEF Having, Releasing, Past
  <1>2. ASSUME UNCHANGED <<packet, buf>>,
               \A h \in Holders : /\ pc'[h] \in Past <=> pc[h] \in Past
                                  /\ pc'[h] = "got" <=> pc[h] = "got"
        PROVE  Inside' = Inside
    BY <1>1, <1>2, InsideStays DEF HasPlace
  <1>3. ASSUME NEW h \in Holders,
               \/ KeepOn(h) \/ PoolPut(h) \/ FindFull(h) \/ Sleep(h) \/ Release(h)
               \/ TransactionEnds(h)
        PROVE  Inside' = Inside /\ UNCHANGED <<count, dropped>>
    <2>1. \A o \in Holders : /\ pc'[o] \in Past <=> pc[o] \in Past
                             /\ pc'[o] = "got" <=> pc[o] = "got"
      BY <1>3, Moves DEF Moved
    <2>2. UNCHANGED <<packet, buf, count, dropped>>
      BY <1>3 DEF KeepOn, PoolPut, FindFull, Sleep, Release, TransactionEnds
    <2> QED BY <1>2, <2>1, <2>2
  <1>4. ASSUME NEW h \in Holders, Signal(h)
        PROVE  Inside' = Inside /\ UNCHANGED <<count, dropped>>
    <2>1. \A o \in Holders : /\ pc'[o] \in Past <=> pc[o] \in Past
                             /\ pc'[o] = "got" <=> pc[o] = "got"
      BY <1>1, <1>4, SignalMoves DEF Moved
    <2> QED BY <1>2, <1>4, <2>1 DEF Signal
  <1>5. ASSUME NEW u \in Users, TakePlace(u)
        PROVE  u \notin Inside /\ Inside' = Inside \cup {u} /\ UNCHANGED dropped
    <2>1. Moved(u, {"idle", "woken"}, "got") /\ UNCHANGED <<packet, buf, dropped>>
      BY <1>1, <1>5, Moves DEF TakePlace
    <2>2. ~HasPlace(u) /\ HasPlace(u)'
      BY <1>1, <2>1 DEF Moved, Held, HasPlace
    <2>3. \A v \in Users : v # u => (HasPlace(v)' <=> HasPlace(v))
      BY <1>1, <2>1 DEF Moved, HasPlace
    <2> QED BY <2>1, <2>2, <2>3 DEF Inside
  <1>6. ASSUME NEW h \in Holders, Subtract(h)
        PROVE  \E u \in Users : u \in Inside /\ Inside' = Inside \ {u} /\ UNCHANGED dropped
    <2>1. Moved(h, {"subtract"}, "signal") /\ UNCHANGED <<packet, buf, dropped>>
      BY <1>6, Moves DEF Subtract
    <2>2. packet[h] \in Packets /\ buf[packet[h]] # none
      BY <2>1 DEF Moved, Held, Owned, PoolTypeOK
    <2>3. PICK u \in Users : packet[u] = packet[h]
      BY <2>2 DEF Owned
    <2>4. \A o \in Holders : packet[o] = packet[h] => pc[o] \notin Past
      BY <2>1 DEF Moved, Owned
    <2>5. HasPlace(u) /\ ~HasPlace(u)'
      <3>1. HasPlace(u)
        BY <1>1, <2>2, <2>3, <2>4 DEF HasPlace
      <3>2. pc'[u] # "got"
        BY <1>1, <2>1, <2>2, <2>3 DEF Moved, Held
      <3>3. packet'[h] = packet'[u] /\ pc'[h] \in Past
        BY <2>1, <2>3 DEF Moved
      <3> QED BY <3>1, <3>2, <3>3 DEF HasPlace
    <2>6. ASSUME NEW v \in Users, v # u
          PROVE  HasPlace(v)' <=> HasPlace(v)
      <3>1. packet[v] # packet[h]
        BY <1>1, <2>2, <2>3, <2>6 DEF Held
      <3>2. pc'[v] = "got" <=> pc[v] = "got"
        BY <1>1, <2>1 DEF Moved
      <3>3. \A o \in Holders : packet[o] = packet[v] => pc'[o] = pc[o]
        BY <2>1, <3>1 DEF Moved
      <3> QED BY <2>1, <3>2, <3>3 DEF HasPlace
    <2> QED BY <2>1, <2>5, <2>6 DEF Inside
  <1>7. ASSUME NEW h \in Holders, LeaveIt(h) \/ Clear(h)
        PROVE  Inside' = Inside /\ UNCHANGED <<count, dropped>>
    <2>1. PICK p0 \in Packets :
            /\ p0 = packet[h] /\ UNCHANGED <<count, dropped>>
            /\ buf'[p0] = none /\ \A p \in Packets : p # p0 => buf'[p] = buf[p]
            /\ packet'[h] = none /\ \A o \in Holders : o # h => packet'[o] = packet[o]
            /\ pc[h] \in {"release", "clear"} /\ pc'[h] = "idle"
            /\ pc[h] = "clear" \/ buf[p0] = none
            /\ \A o \in Holders : o # h => pc'[o] = pc[o]
      <3>1. Moved(h, {"release", "clear"}, "idle")
        BY <1>7, Moves DEF Moved
      <3>2. packet[h] \in Packets
        BY <3>1 DEF Moved, Held, PoolTypeOK
      <3>3. CASE LeaveIt(h)
        BY <3>1, <3>2, <3>3 DEF LeaveIt, Leave, Moved, PoolTypeOK
      <3>4. CASE Clear(h)
        BY <3>1, <3>2, <3>4 DEF Clear, Leave, At, Moved, PoolTypeOK
      <3> QED BY <1>7, <3>3, <3>4
    <2>2. ASSUME NEW v \in Users, packet[v] = p0
          PROVE  ~HasPlace(v) /\ ~HasPlace(v)'
      <3>1. pc[v] # "got" /\ pc'[v] # "got"
        BY <1>1, <2>1, <2>2 DEF Held
      <3>2. ~HasPlace(v)
        BY <1>1, <2>1, <2>2, <3>1 DEF HasPlace
      <3>3. packet'[v] = none \/ buf'[packet'[v]] = none
        BY <1>1, <2>1, <2>2
      <3> QED BY <3>1, <3>2, <3>3 DEF HasPlace
    <2>3. ASSUME NEW v \in Users, packet[v] # p0
          PROVE  HasPlace(v)' <=> HasPlace(v)
      <3>1. v # h /\ packet'[v] = packet[v] /\ pc'[v] = pc[v]
        BY <1>1, <2>1, <2>3
      <3>2. packet[v] # none => packet[v] \in Packets /\ buf'[packet[v]] = buf[packet[v]]
        BY <1>1, <2>1, <2>3 DEF PoolTypeOK
      <3>3. packet[v] # none => \A o \in Holders : packet'[o] = packet[v]
                                   <=> packet[o] = packet[v] /\ o # h
        BY <2>1, <2>3
      <3>4. packet[h] # packet[v] /\ \A o \in Holders : o # h => pc'[o] = pc[o]
        BY <2>1, <2>3
      <3>5. packet[v] # none =>
              ((\A o \in Holders : packet'[o] = packet[v] => pc'[o] \notin Past)
                 <=> (\A o \in Holders : packet[o] = packet[v] => pc[o] \notin Past))
        BY <3>3, <3>4
      <3> QED BY <3>1, <3>2, <3>5 DEF HasPlace
    <2> QED BY <2>1, <2>2, <2>3, InsideStays
  <1>8. ASSUME NEW u \in Users, Drop(u)
        PROVE  u \in Inside /\ Inside' = Inside \ {u}
    <2>1. PICK p0 \in Packets :
            /\ p0 = packet[u] /\ buf[p0] # none
            /\ buf'[p0] = none /\ \A p \in Packets : p # p0 => buf'[p] = buf[p]
            /\ packet'[u] = none /\ \A o \in Holders : o # u => packet'[o] = packet[o]
            /\ pc[u] = "using" /\ pc'[u] = "idle"
            /\ \A o \in Holders : o # u => pc'[o] = pc[o]
      <3>1. Moved(u, {"using"}, "idle")
        BY <1>1, <1>8, Moves
      <3>2. packet[u] \in Packets /\ buf[packet[u]] # none
        BY <1>1, <3>1 DEF Moved, Held, Owned, PoolTypeOK
      <3> QED BY <1>1, <1>8, <3>1, <3>2 DEF Drop, Leave, Moved, PoolTypeOK
    <2>2. \A o \in Holders : packet[o] = p0 => o = u
      BY <1>1, <2>1 DEF Held
    <2>3. HasPlace(u) /\ ~HasPlace(u)'
      BY <1>1, <2>1, <2>2 DEF HasPlace
    <2>4. ASSUME NEW v \in Users, v # u
          PROVE  HasPlace(v)' <=> HasPlace(v)
      <3>1. packet[v] # p0 /\ packet'[v] = packet[v] /\ pc'[v] = pc[v]
        BY <1>1, <2>1, <2>2, <2>4
      <3>2. packet[v] # none => buf'[packet[v]] = buf[packet[v]]
        BY <1>1, <2>1, <3>1 DEF PoolTypeOK
      <3>3. packet[v] # none =>
              ((\A o \in Holders : packet'[o] = packet[v] => pc'[o] \notin Past)
                 <=> (\A o \in Holders : packet[o] = packet[v] => pc[o] \notin Past))
        BY <2>1, <3>1
      <3> QED BY <3>1, <3>2, <3>3 DEF HasPlace
    <2> QED BY <2>3, <2>4 DEF Inside
  <1>9. ASSUME NEW u \in Users, NEW t \in Transactions, Hand(u, t)
        PROVE  Inside' = Inside /\ UNCHANGED <<count, dropped>>
    <2>1. /\ pc[u] = "using" /\ pc[t] = "idle" /\ pc'[u] = "release" /\ pc'[t] = "serving"
          /\ packet'[t] = packet[u] /\ u # t /\ UNCHANGED <<buf, count, dropped>>
          /\ \A o \in Holders : o \notin {u, t} => pc'[o] = pc[o]
          /\ \A o \in Holders : o # t => packet'[o] = packet[o]
      BY <1>1, <1>9, HandMoves DEF Hand, PoolTypeOK
    <2>2. packet[t] = none
      BY <1>1, <2>1 DEF Held
    <2>3. \A v \in Users : /\ packet'[v] = packet[v]
                           /\ pc'[v] = "got" <=> pc[v] = "got"
      BY <1>1, <2>1
    <2>4. \A v \in Users : packet[v] # none =>
              ((\A o \in Holders : packet'[o] = packet[v] => pc'[o] \notin Past)
                 <=> (\A o \in Holders : packet[o] = packet[v] => pc[o] \notin Past))
      BY <1>1, <2>1, <2>2
    <2>5. \A v \in Users : HasPlace(v)' <=> HasPlace(v)
      BY <2>1, <2>3, <2>4 DEF HasPlace
    <2> QED BY <2>1, <2>5, InsideStays
  <1>10. ASSUME NEW u \in Users, NEW p0 \in Packets, NEW b \in Buffers \cup {none}, Obtain(u, p0, b)
         PROVE  Inside' = Inside /\ UNCHANGED <<count, dropped>>
    <2>1. b \in Buffers
      BY <1>1, <1>10 DEF Obtain, Owned
    <2>2. /\ pc[u] = "got" /\ pc'[u] = "using" /\ packet'[u] = p0
          /\ buf'[p0] = b /\ \A p \in Packets : p # p0 => buf'[p] = buf[p]
          /\ \A o \in Holders : o # u => pc'[o] = pc[o] /\ packet'[o] = packet[o]
          /\ \A o \in Holders : packet[o] # p0
          /\ UNCHANGED <<count, dropped>>
      <3>1. Moved(u, {"got"}, "using")
        BY <1>1, <1>10, <2>1, ObtainMoves
      <3> QED BY <1>1, <1>10, <3>1 DEF Obtain, Moved, PoolTypeOK
    <2>3. packet[u] = none
      BY <1>1, <2>2 DEF Held
    <2>4. HasPlace(u) /\ HasPlace(u)'
      BY <1>1, <2>1, <2>2 DEF HasPlace
    <2>5. ASSUME NEW v \in Users, v # u
          PROVE  HasPlace(v)' <=> HasPlace(v)
      <3>1. packet[v] # p0 /\ packet'[v] = packet[v] /\ pc'[v] = pc[v]
        BY <1>1, <2>2, <2>5
      <3>2. packet[v] # none => buf'[packet[v]] = buf[packet[v]]
        BY <1>1, <2>2, <3>1 DEF PoolTypeOK
      <3>3. packet[v] # none =>
              ((\A o \in Holders : packet'[o] = packet[v] => pc'[o] \notin Past)
                 <=> (\A o \in Holders : packet[o] = packet[v] => pc[o] \notin Past))
        BY <2>2, <2>3, <3>1
      <3> QED BY <3>1, <3>2, <3>3 DEF HasPlace
    <2> QED BY <2>2, <2>4, <2>5, InsideStays
  <1>11. CASE \E h \in Holders :
                LeaveIt(h) \/ KeepOn(h) \/ PoolPut(h) \/ Subtract(h) \/ Signal(h) \/ Clear(h)
    BY <1>3, <1>4, <1>6, <1>7, <1>11
  <1>12. CASE \E u \in Users :
                \/ TakePlace(u) \/ FindFull(u) \/ Sleep(u) \/ Release(u) \/ Drop(u)
                \/ \E p \in Packets, b \in Buffers \cup {none} : Obtain(u, p, b)
                \/ \E t \in Transactions : Hand(u, t)
    BY <1>1, <1>3, <1>5, <1>8, <1>9, <1>10, <1>12
  <1>13. CASE \E t \in Transactions : TransactionEnds(t)
    BY <1>1, <1>3, <1>13
  <1> QED BY <1>11, <1>12, <1>13 DEF PoolStep

\* Together with the count.
LEMMA PlacesStep ==
  ASSUME PoolIInv, PoolStep, ~doubled'
  PROVE  count' = Cardinality(Inside') + dropped' /\ (count <= MaxBuffers => count' <= MaxBuffers)
  <1>1. ~doubled
    BY DEF PoolStep, LeaveIt, KeepOn, PoolPut, Subtract, Signal, Clear, TakePlace, FindFull,
           Sleep, Release, Drop, Obtain, Hand, TransactionEnds
  <1>2. /\ count \in 0..(Word - 1) /\ dropped \in Nat /\ MaxBuffers \in Nat
        /\ count = Cardinality(Inside) + dropped
        /\ IsFiniteSet(Inside) /\ Cardinality(Inside) \in Nat
    BY <1>1, InsideFinite, PacketPoolAssumption DEF PoolIInv, PoolTypeOK, PlacesCounted
  <1>3. ASSUME NEW u \in Users, TakePlace(u), u \notin Inside, Inside' = Inside \cup {u},
               UNCHANGED dropped
        PROVE  count' = Cardinality(Inside') + dropped' /\ count' <= MaxBuffers
    <2>1. count < MaxBuffers /\ count' = count + 1
      BY <1>2, <1>3, WordPlus DEF TakePlace
    <2>2. Cardinality(Inside') = Cardinality(Inside) + 1
      BY <1>2, <1>3, FS_AddElement
    <2> QED BY <1>2, <1>3, <2>1, <2>2
  <1>4. ASSUME NEW u \in Inside, Inside' = Inside \ {u}
        PROVE  Cardinality(Inside') = Cardinality(Inside) - 1 /\ Cardinality(Inside) # 0
    <2>1. Cardinality(Inside') = Cardinality(Inside) - 1
      BY <1>2, <1>4, FS_RemoveElement
    <2>2. Cardinality(Inside) # 0
      BY <1>2, FS_EmptySet
    <2> QED BY <2>1, <2>2
  <1>5. ASSUME NEW u \in Users, NEW h \in Holders, Subtract(h), u \in Inside,
               Inside' = Inside \ {u}, UNCHANGED dropped
        PROVE  count' = Cardinality(Inside') + dropped' /\ count' <= count
    <2>1. count' = IF count = 0 THEN Word - 1 ELSE count - 1
      BY <1>2, <1>5, WordMinus DEF Subtract
    <2>2. Cardinality(Inside') = Cardinality(Inside) - 1 /\ Cardinality(Inside) # 0
      BY <1>4, <1>5
    <2>3. count # 0
      BY <1>2, <2>2
    <2>4. count' = count - 1 /\ dropped' = dropped
      BY <1>5, <2>1, <2>3
    <2>5. count' = Cardinality(Inside') + dropped'
      BY <1>2, <2>2, <2>4
    <2>6. count' <= count
      BY <1>2, <2>4
    <2> QED BY <2>5, <2>6
  <1>6. ASSUME NEW u \in Users, Drop(u), u \in Inside, Inside' = Inside \ {u}
        PROVE  count' = Cardinality(Inside') + dropped' /\ count' <= count
    <2>1. count' = count /\ dropped' = dropped + 1
      BY <1>6 DEF Drop
    <2>2. Cardinality(Inside') = Cardinality(Inside) - 1
      BY <1>4, <1>6
    <2>3. count' = Cardinality(Inside') + dropped'
      BY <1>2, <2>1, <2>2
    <2>4. count' <= count
      BY <1>2, <2>1
    <2> QED BY <2>3, <2>4
  <1>7. CASE Inside' = Inside /\ UNCHANGED <<count, dropped>>
    BY <1>2, <1>7
  <1>8. CASE \E u \in Users : /\ TakePlace(u) /\ u \notin Inside /\ Inside' = Inside \cup {u}
                              /\ UNCHANGED dropped
    BY <1>3, <1>8
  <1>9. ASSUME count' = Cardinality(Inside') + dropped', count' <= count
        PROVE  count' = Cardinality(Inside') + dropped' /\ (count <= MaxBuffers => count' <= MaxBuffers)
    <2>1. count' \in Int
      <3>1. Inside' \subseteq Holders /\ IsFiniteSet(Holders)
        BY PacketPoolAssumption DEF Inside, Holders
      <3>2. Cardinality(Inside') \in Nat
        BY <3>1, FS_Subset, FS_CardinalityType
      <3>3. dropped' \in Nat
        BY <1>2 DEF PoolStep, LeaveIt, KeepOn, PoolPut, Subtract, Signal, Clear, TakePlace,
                    FindFull, Sleep, Release, Drop, Obtain, Hand, TransactionEnds
      <3> QED BY <1>9, <3>2, <3>3
    <2> QED BY <1>2, <1>9, <2>1
  <1>10. CASE \E u \in Users, h \in Holders :
                /\ Subtract(h) /\ u \in Inside /\ Inside' = Inside \ {u}
                /\ UNCHANGED dropped
    BY <1>5, <1>9, <1>10
  <1>11. CASE \E u \in Users : Drop(u) /\ u \in Inside /\ Inside' = Inside \ {u}
    BY <1>6, <1>9, <1>11
  <1>12. PoolTypeOK /\ Listed /\ Held /\ Owned
    BY <1>1 DEF PoolIInv
  <1> QED BY <1>7, <1>8, <1>10, <1>11, <1>12, InsideStep

-----------------------------------------------------------------------------
(* The types.                                                              *)

LEMMA PoolTypeStep ==
  ASSUME PoolTypeOK, Listed, Held, PoolStep, ~doubled' => count' <= MaxBuffers
  PROVE  PoolTypeOK'
  <1>1. /\ Users \subseteq Holders /\ Transactions \subseteq Holders
        /\ none \notin Packets /\ Word \in Nat /\ Word > 0 /\ DropBound \in Nat
    BY PacketPoolAssumption DEF Holders
  <1>2. \A n \in Int : n % Word \in 0..(Word - 1)
    BY <1>1
  <1>3. \A n \in 0..(Word - 1) : n + 1 \in Int /\ n + Word - 1 \in Int
    BY <1>1
  <1> DEFINE Places == {"idle", "full", "asleep", "woken", "got", "using", "serving",
                        "release", "put", "subtract", "signal", "clear", "crashed"}
             Lists == lock' \in Users \cup {none} /\ sleepers' \in Seq(Users)
             Data == /\ count' \in 0..(Word - 1) /\ pool' \in [Buffers \cup {none} -> Nat]
                     /\ buf' \in [Packets -> Buffers \cup {none}]
                     /\ packet' \in [Holders -> Packets \cup {none}]
                     /\ dropped' \in 0..DropBound /\ doubled' \in BOOLEAN
  <1>4. ASSUME NEW h \in Holders,
               \/ LeaveIt(h) \/ KeepOn(h) \/ Clear(h) \/ Drop(h) \/ Release(h) \/ TransactionEnds(h)
        PROVE  PoolTypeOK'
    <2>1. Lists
      BY <1>4 DEF LeaveIt, KeepOn, Clear, Drop, Release, TransactionEnds, PoolTypeOK
    <2>2. pc' \in [Holders -> Places]
      BY <1>4 DEF LeaveIt, KeepOn, Clear, Drop, Release, TransactionEnds, Leave, Go, PoolTypeOK
    <2>3. doubled' \in BOOLEAN
      BY <1>4, Zenon DEF LeaveIt, KeepOn, Clear, Drop, Release, TransactionEnds, PoolTypeOK
    <2>4. dropped' \in 0..DropBound
      BY <1>1, <1>4 DEF LeaveIt, KeepOn, Clear, Drop, Release, TransactionEnds, PoolTypeOK
    <2>5. /\ count' \in 0..(Word - 1) /\ pool' \in [Buffers \cup {none} -> Nat]
          /\ buf' \in [Packets -> Buffers \cup {none}]
          /\ packet' \in [Holders -> Packets \cup {none}]
      BY <1>4 DEF LeaveIt, KeepOn, Clear, Drop, Release, TransactionEnds, Leave, PoolTypeOK
    <2> QED BY <2>1, <2>2, <2>3, <2>4, <2>5 DEF PoolTypeOK
  <1>5. ASSUME NEW h \in Holders, PoolPut(h)
        PROVE  PoolTypeOK'
    <2>1. packet[h] \in Packets
      <3>1. pc[h] = "put"
        BY <1>5 DEF PoolPut, At
      <3> QED BY <3>1 DEF Held, Having, Releasing, PoolTypeOK
    <2>2. buf[packet[h]] \in Buffers \cup {none}
      BY <2>1 DEF PoolTypeOK
    <2>3. pool' \in [Buffers \cup {none} -> Nat]
      BY <1>5, <2>2 DEF PoolPut, PoolTypeOK
    <2>4. pc' \in [Holders -> Places]
      BY <1>5 DEF PoolPut, Go, PoolTypeOK
    <2> QED BY <1>5, <2>3, <2>4 DEF PoolPut, PoolTypeOK
  <1>6. ASSUME NEW h \in Holders, TakePlace(h) \/ Subtract(h)
        PROVE  PoolTypeOK'
    <2>1. count' \in 0..(Word - 1)
      BY <1>2, <1>3, <1>6 DEF TakePlace, Subtract, PoolTypeOK
    <2>2. pc' \in [Holders -> Places]
      BY <1>6 DEF TakePlace, Subtract, Go, PoolTypeOK
    <2> QED BY <1>6, <2>1, <2>2 DEF TakePlace, Subtract, PoolTypeOK
  <1>7. ASSUME NEW u \in Users, FindFull(u) \/ Sleep(u)
        PROVE  PoolTypeOK'
    <2>1. sleepers' \in Seq(Users)
      <3>1. sleepers \in Seq(Users) /\ Append(sleepers, u) \in Seq(Users)
        BY AppendProperties DEF PoolTypeOK
      <3> QED BY <1>7, <3>1 DEF FindFull, Sleep
    <2>2. pc' \in [Holders -> Places]
      BY <1>7 DEF FindFull, Sleep, Go, PoolTypeOK
    <2> QED BY <1>7, <2>1, <2>2 DEF FindFull, Sleep, PoolTypeOK
  <1>8. ASSUME NEW h \in Holders, Signal(h)
        PROVE  PoolTypeOK'
    <2>1. sleepers' \in Seq(Users)
      BY <1>8, HeadTailProperties DEF Signal, PoolTypeOK
    <2>2. pc' \in [Holders -> Places]
      BY <1>8 DEF Signal, Wakes, Go, PoolTypeOK
    <2> QED BY <1>8, <2>1, <2>2 DEF Signal, PoolTypeOK
  <1>9. ASSUME NEW u \in Users, NEW p \in Packets, NEW b \in Buffers \cup {none}, Obtain(u, p, b)
        PROVE  PoolTypeOK'
    <2>1. pool' \in [Buffers \cup {none} -> Nat]
      BY <1>9 DEF Obtain, PoolTypeOK
    <2>2. pc' \in [Holders -> Places]
      BY <1>9 DEF Obtain, Go, PoolTypeOK
    <2>3. /\ buf' \in [Packets -> Buffers \cup {none}]
          /\ packet' \in [Holders -> Packets \cup {none}]
      BY <1>9 DEF Obtain, PoolTypeOK
    <2> QED BY <1>9, <2>1, <2>2, <2>3 DEF Obtain, PoolTypeOK
  <1>10. ASSUME NEW u \in Users, NEW t \in Transactions, Hand(u, t)
         PROVE  PoolTypeOK'
    <2>1. pc' \in [Holders -> Places] /\ packet' \in [Holders -> Packets \cup {none}]
      BY <1>1, <1>10 DEF Hand, PoolTypeOK
    <2> QED BY <1>10, <2>1 DEF Hand, PoolTypeOK
  <1>11. CASE \E h \in Holders :
                LeaveIt(h) \/ KeepOn(h) \/ PoolPut(h) \/ Subtract(h) \/ Signal(h) \/ Clear(h)
    BY <1>4, <1>5, <1>6, <1>8, <1>11
  <1>12. CASE \E u \in Users :
                \/ TakePlace(u) \/ FindFull(u) \/ Sleep(u) \/ Release(u) \/ Drop(u)
                \/ \E p \in Packets, b \in Buffers \cup {none} : Obtain(u, p, b)
                \/ \E t \in Transactions : Hand(u, t)
    BY <1>1, <1>4, <1>6, <1>7, <1>9, <1>10, <1>12
  <1>13. CASE \E t \in Transactions : TransactionEnds(t)
    BY <1>1, <1>4, <1>13
  <1> QED BY <1>11, <1>12, <1>13 DEF PoolStep

-----------------------------------------------------------------------------
(* The theorems.                                                           *)

LEMMA PoolInitially ==
  ASSUME PoolInit
  PROVE  PoolIInv
  <1>1. PoolTypeOK
    <2>1. 0 \in 0..(Word - 1) /\ 0 \in 0..DropBound /\ 0 <= MaxBuffers
      BY PacketPoolAssumption
    <2>2. <<>> \in Seq(Users)
      OBVIOUS
    <2>3. pc \in [Holders -> {"idle"}] /\ packet \in [Holders -> {none}]
      BY DEF PoolInit
    <2> QED BY <2>1, <2>2, <2>3 DEF PoolInit, PoolTypeOK
  <1>2. PlacesCounted
    <2>1. Inside = {}
      BY DEF PoolInit, Inside, HasPlace, Holders
    <2>2. Cardinality(Inside) = 0
      BY <2>1, FS_EmptySet
    <2> QED BY <2>2 DEF PoolInit, PlacesCounted
  <1>3. Len(sleepers) = 0 /\ sleepers = <<>> /\ lock = none
    BY DEF PoolInit
  <1>4. WakeupsSuffice /\ Listed
    BY <1>3, PacketPoolAssumption DEF PoolInit, WakeupsSuffice, Crowded, Listed, Holders
  <1>5. Held
    BY PacketPoolAssumption DEF PoolInit, Held, Having, Releasing, Holders
  <1>6. Owned
    BY PacketPoolAssumption DEF PoolInit, Owned, Live, Releasing, Gone, Holders
  <1> QED BY <1>1, <1>2, <1>4, <1>5, <1>6 DEF PoolIInv

LEMMA PoolNextIInv ==
  ASSUME PoolIInv, [PoolNext]_poolVars
  PROVE  PoolIInv'
  <1>1. CASE PoolNext
    <2>1. PoolStep /\ PoolTypeOK /\ Listed /\ Held /\ WakeupsSuffice
      BY <1>1, PoolSteps DEF PoolIInv
    <2>2. doubled => doubled'
      BY <2>1 DEF PoolStep, LeaveIt, KeepOn, PoolPut, Subtract, Signal, Clear, TakePlace,
                  FindFull, Sleep, Release, Drop, Obtain, Hand, TransactionEnds
    <2>3. WakeupsSuffice' /\ Listed' /\ Held'
      BY <2>1, WakeupsStep, ListedStep, HeldStep
    <2>4. CASE doubled'
      <3>1. PoolTypeOK'
        BY <2>1, <2>4, PoolTypeStep
      <3> QED BY <2>3, <2>4, <3>1 DEF PoolIInv, PlacesCounted
    <2>5. CASE ~doubled'
      <3>1. Owned
        BY <2>2, <2>5 DEF PoolIInv
      <3>2. Owned'
        BY <2>1, <2>5, <3>1, OwnedStep
      <3>3. count <= MaxBuffers
        BY <2>1, <2>2, <2>5 DEF PoolTypeOK
      <3>4. count' = Cardinality(Inside') + dropped' /\ count' <= MaxBuffers
        BY <2>1, <2>5, <3>3, PlacesStep
      <3>5. PoolTypeOK'
        BY <2>1, <3>4, PoolTypeStep
      <3>6. PlacesCounted'
        BY <3>4 DEF PlacesCounted, Inside, HasPlace
      <3> QED BY <2>3, <3>2, <3>5, <3>6 DEF PoolIInv
    <2> QED BY <2>4, <2>5
  <1>2. CASE UNCHANGED poolVars
    <2>1. PoolTypeOK' /\ WakeupsSuffice' /\ Listed' /\ Held' /\ PlacesCounted'
      BY <1>2 DEF poolVars, PoolIInv, PoolTypeOK, PlacesCounted, Inside, HasPlace,
                  WakeupsSuffice, Crowded, HoldersAt, Listed, Held
    <2>2. (doubled \/ Owned)'
      BY <1>2 DEF poolVars, PoolIInv, Owned, Live
    <2> QED BY <2>1, <2>2 DEF PoolIInv
  <1> QED BY <1>1, <1>2

\* The inductive invariant: the list of callers asleep and the wake-ups on their way,
\* whatever is released; and, until a packet is released twice, the places and the owners
\* of the buffers.
THEOREM PoolInvariance == PoolSpec => []PoolIInv
  <1>1. PoolInit => PoolIInv
    BY PoolInitially
  <1>2. PoolIInv /\ [PoolNext]_poolVars => PoolIInv'
    BY PoolNextIInv
  <1> QED BY <1>1, <1>2, PTL DEF PoolSpec

\* Variables keep their types; and p.count, which Put lowers modulo 2^32, neither falls
\* below zero nor passes PacketBufferPoolSize before a packet is released twice.
THEOREM PoolTypeCorrect == PoolSpec => []PoolTypeOK
  <1>1. PoolIInv => PoolTypeOK
    BY DEF PoolIInv
  <1> QED BY <1>1, PoolInvariance, PTL

\* p.count is the places taken and the packets let fall, in whatever order the worker and
\* the transaction of a request release its packet, until one of them tests its buffer
\* while the other has tested it and not cleared it.
THEOREM PlacesAlwaysCounted == PoolSpec => []PlacesCounted
  <1>1. PoolIInv => PlacesCounted
    BY DEF PoolIInv
  <1> QED BY <1>1, PoolInvariance, PTL

\* Two packets in use have two buffers and one in use is not in the pool, in whatever
\* order the worker and the transaction of a request release its packet, until one of
\* them tests its buffer while the other has tested it and not cleared it.
THEOREM BufferHasOneOwner == PoolSpec => []NoSharing
  <1>1. ASSUME PoolIInv, ~doubled
        PROVE  Exclusive
    <2>1. PoolTypeOK /\ Held /\ Owned
      BY <1>1 DEF PoolIInv
    <2>2. Users \subseteq Holders /\ Holders = Users \cup Transactions /\ none \notin Packets
      BY PacketPoolAssumption DEF Holders
    <2>3. ASSUME NEW u \in Users, InUse(u)
          PROVE  packet[u] \in Packets /\ Live(packet[u])
      <3>1. packet[u] \in Packets
        BY <2>1, <2>2, <2>3 DEF InUse, Held, Having, PoolTypeOK
      <3>2. buf[packet[u]] # none
        BY <2>1, <2>2, <2>3 DEF InUse, Owned
      <3>3. \A h \in Holders : packet[h] = packet[u] => h = u
        BY <2>1, <2>2, <2>3, <3>1 DEF InUse, Held
      <3> QED BY <2>3, <3>1, <3>2, <3>3 DEF InUse, Live, Gone, Releasing
    <2>4. \A u, v \in Users : u # v /\ InUse(u) => packet[u] # packet[v]
      BY <2>1, <2>2, <2>3 DEF Held
    <2> QED BY <2>1, <2>3, <2>4 DEF Exclusive, Owned
  <1>2. PoolIInv => NoSharing
    BY <1>1 DEF NoSharing
  <1> QED BY <1>2, PoolInvariance, PTL

\* The signals Put loses leave at most one caller asleep once nobody is under way, unless
\* packets that were let fall have used up the pool or one was released twice.
THEOREM OneForgottenAtMost == PoolSpec => []AtMostOneForgotten
  <1>1. PoolIInv => AtMostOneForgotten
    <2> SUFFICES ASSUME PoolIInv, Quiet, dropped < MaxBuffers, ~doubled, ~(Len(sleepers) <= 1)
                 PROVE  FALSE
      BY DEF AtMostOneForgotten
    <2>1. Len(sleepers) \in Nat /\ count \in Nat /\ MaxBuffers \in Nat /\ dropped \in Nat
      BY LenProperties, PacketPoolAssumption DEF PoolIInv, PoolTypeOK
    <2>2. \A h \in Holders : pc[h] \in {"idle", "asleep"}
      BY DEF Quiet
    <2>3. Cardinality(HoldersAt(pc, Waking)) = 0
      BY <2>2, NobodyThere DEF Waking
    <2>4. Inside = {}
      BY <2>2 DEF PoolIInv, Held, Having, Releasing, Inside, HasPlace, Holders
    <2>5. Cardinality(Inside) = 0
      BY <2>4, FS_EmptySet
    <2>6. MaxBuffers - count <= 0
      BY <2>1, <2>3 DEF PoolIInv, WakeupsSuffice, Crowded
    <2>7. count = dropped
      BY <2>1, <2>5 DEF PoolIInv, PlacesCounted
    <2> QED BY <2>1, <2>6, <2>7
  <1> QED BY <1>1, PoolInvariance, PTL

-----------------------------------------------------------------------------
(* Refinement of Semaphore: a user enters when its Get raises the count,   *)
(* leaves when a Put of its packet lowers it, and loses its place with its *)
(* packet.                                                                 *)

\* The semaphore counts with the same operator.
LEMMA SameCardinality ==
  ASSUME NEW A
  PROVE  Sem!Cardinality(A) = Cardinality(A)
  BY Zenon DEF Sem!Cardinality, Cardinality

\* Every step of the pool that leaves no packet released twice is a step of the semaphore
\* or leaves its places as they are.
LEMMA SemaphoreStep ==
  ASSUME PoolIInv, PoolStep, ~doubled'
  PROVE  [Sem!Next]_<<Inside, dropped>>
  <1>1. ~doubled
    BY DEF PoolStep, LeaveIt, KeepOn, PoolPut, Subtract, Signal, Clear, TakePlace, FindFull,
           Sleep, Release, Drop, Obtain, Hand, TransactionEnds
  <1>2. PoolTypeOK /\ Listed /\ Held /\ Owned /\ count = Cardinality(Inside) + dropped
    BY <1>1 DEF PoolIInv, PlacesCounted
  <1>3. Sem!Cardinality(Inside) = Cardinality(Inside)
    BY SameCardinality
  <1>4. ASSUME NEW u \in Users, TakePlace(u), u \notin Inside, Inside' = Inside \cup {u},
               UNCHANGED dropped
        PROVE  Sem!Next
    <2>1. Sem!Cardinality(Inside) + dropped < MaxBuffers
      BY <1>2, <1>3, <1>4 DEF TakePlace
    <2> QED BY <1>4, <2>1 DEF Sem!Next, Sem!Enter
  <1>5. ASSUME NEW u \in Users, u \in Inside, Inside' = Inside \ {u}, UNCHANGED dropped
        PROVE  Sem!Next
    BY <1>5 DEF Sem!Next, Sem!Leave
  <1>6. ASSUME NEW u \in Users, Drop(u), u \in Inside, Inside' = Inside \ {u}
        PROVE  Sem!Next
    BY <1>6 DEF Sem!Next, Sem!Lose, Drop
  <1> QED BY <1>2, <1>4, <1>5, <1>6, InsideStep

\* WaitPool implements a semaphore of PacketBufferPoolSize places, for any users,
\* transactions, packets and size, in the executions in which no packet is released
\* twice; that connections may close and end a transaction under its worker included.
THEOREM PoolIsSemaphore == PoolSpec => ImplementsSemaphore
  <1>1. PoolInit => Sem!Init
    BY DEF PoolInit, Sem!Init, Holders, Inside, HasPlace
  <1>2. PoolIInv /\ [PoolNext]_poolVars /\ ~doubled' => [Sem!Next]_<<Inside, dropped>>
    <2>1. ASSUME PoolIInv, PoolNext, ~doubled'
          PROVE  [Sem!Next]_<<Inside, dropped>>
      BY <2>1, PoolSteps, SemaphoreStep DEF PoolIInv
    <2>2. ASSUME UNCHANGED poolVars
          PROVE  UNCHANGED <<Inside, dropped>>
      BY <2>2 DEF poolVars, Inside, HasPlace
    <2> QED BY <2>1, <2>2
  <1> QED BY <1>1, <1>2, PoolInvariance, PTL DEF PoolSpec, ImplementsSemaphore, Sem!Spec

-----------------------------------------------------------------------------
(* One closer.                                                             *)

\* When the connection's own routine is the only one to close it, it never closes
\* StopSignal twice, whatever the senders and the transactions do.
THEOREM OwnerClosesOnce ==
  ASSUME Closers = {}
  PROVE  Spec => []ClosesOnce
  <1> DEFINE J == closer[owner] \in {"no", "test", "stop"} => ~stopped
  <1>1. AllClosers = {owner}
    BY DEF AllClosers
  <1>2. Init => J
    BY <1>1 DEF Init
  <1>3. TypeOK /\ J /\ [Next]_vars => J'
    <2> SUFFICES ASSUME TypeOK, J, [Next]_vars
                 PROVE  J'
      OBVIOUS
    <2>1. closer \in [AllClosers -> {"no", "test", "stop", "flag", "flush", "close", "nil",
                                     "wait", "done"}]
      BY DEF TypeOK
    <2>2. CASE \E k \in AllClosers : CloseNet(k) \/ Close(k)
      BY <1>1, <2>1, <2>2
         DEF CloseNet, Close, CloseTest, CloseStop, CloseFlag, Flush, FlushEnds,
             CloseChannels, SetNil, Wait, CloseAt, data
    <2>3. CASE ~\E k \in AllClosers : CloseNet(k) \/ Close(k)
      <3>1. UNCHANGED <<closer, stopped>>
        BY <2>3 DEF Next, vars, data, Forward, Advance, TestClosed, EnterSelect, Push, SeeStop,
                    SendBlockSignal, Block, ReaderEnds, Serve, Select, TakePacket, Quit,
                    AddRemoteTransaction, Run, TimeOut, DeleteTransaction, Handle,
                    FindRemoteTransaction, SendNext
      <3> QED BY <3>1
    <2> QED BY <2>2, <2>3
  <1>4. J => ClosesOnce
    BY <1>1 DEF ClosesOnce
  <1> QED BY <1>2, <1>3, <1>4, TypeCorrect, PTL DEF Spec
=============================================================================
