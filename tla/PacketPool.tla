----------------------------- MODULE PacketPool -----------------------------
(***************************************************************************)
(* The pool of packet buffers of a device: utils.WaitPool, a sync.Pool     *)
(* with a limit and a condition variable, and ReleasePoolPacket.  A user   *)
(* takes a packet and gives it back; lets it fall, at a full               *)
(* packetToMsgQueue; or, when it is the request of a transaction, shares   *)
(* it with the goroutine of that transaction, and both give it back.       *)
(*                                                                         *)
(* Put changes the count and signals without the lock that Get holds       *)
(* between its test and its Wait: a signal that falls there is lost.       *)
(* ReleasePoolPacket tests and clears the packet's buffer without a lock:  *)
(* two who share a packet may both pass the test.                          *)
(*                                                                         *)
(* Connection and this module are proved about together (ConnectionProofs),*)
(* hence the pool in the names of Init, Next and so on.                    *)
(***************************************************************************)
EXTENDS Integers, Sequences, FiniteSets

CONSTANTS
    Users,          \* goroutines that take packets
    Transactions,   \* goroutines of remote transactions
    Packets,
    Buffers,        \* identities of *PacketBuffer
    none,           \* no packet, no buffer (nil), nobody
    MaxBuffers,     \* PacketBufferPoolSize
    Word,           \* 2^32
    DropBound,      \* bound: packets let fall
    Further         \* bound: whether to look further than a packet released twice

Holders == Users \cup Transactions

ASSUME PacketPoolAssumption ==
    /\ IsFiniteSet(Holders) /\ Users \cap Transactions = {}
    /\ none \notin Holders \cup Packets \cup Buffers
    /\ MaxBuffers \in Nat \ {0} /\ Word \in Nat /\ Word > MaxBuffers
    /\ DropBound \in Nat /\ Further \in BOOLEAN

VARIABLES
    lock,       \* who holds p.lock
    count,      \* p.count
    sleepers,   \* p.cond's list
    pool,       \* how often p.pool has each buffer
    buf,        \* Packet.Buf of each packet
    packet,     \* the packet of each user and transaction
    pc,         \* where each is
    dropped,    \* packets let fall
    doubled     \* history: a packet's buffer passed a test while it was being released

poolVars == <<lock, count, sleepers, pool, buf, packet, pc, dropped, doubled>>

\* Types; and the count, which Put lowers modulo 2^32, never falls below zero.
PoolTypeOK ==
    /\ lock \in Users \cup {none} /\ count \in 0..(Word - 1)
    /\ sleepers \in Seq(Users)
    /\ pool \in [Buffers \cup {none} -> Nat]
    /\ buf \in [Packets -> Buffers \cup {none}]
    /\ packet \in [Holders -> Packets \cup {none}]
    /\ pc \in [Holders -> {"idle", "full", "asleep", "woken", "got", "using", "serving",
                           "release", "put", "subtract", "signal", "clear", "crashed"}]
    /\ dropped \in 0..DropBound /\ doubled \in BOOLEAN
    /\ ~doubled => count <= MaxBuffers

PoolInit ==
    /\ lock = none /\ count = 0 /\ sleepers = <<>>
    /\ pool = [b \in Buffers \cup {none} |-> 0] /\ buf = [p \in Packets |-> none]
    /\ packet = [h \in Holders |-> none] /\ pc = [h \in Holders |-> "idle"]
    /\ dropped = 0 /\ doubled = FALSE

At(h, here) == pc[h] = here
Go(h, there) == pc' = [pc EXCEPT ![h] = there]

-----------------------------------------------------------------------------
(* WaitPool.Get.                                                           *)

\* The lock is free and the loop's test is done under it, by a new Get or one that
\* Wait has returned to.
Enters(u) == pc[u] \in {"idle", "woken"} /\ lock = none

\* There is room: the count is raised before the lock is given back.
TakePlace(u) ==
    /\ Enters(u) /\ count < MaxBuffers
    /\ count' = (count + 1) % Word
    /\ Go(u, "got")
    /\ UNCHANGED <<lock, sleepers, pool, buf, packet, dropped, doubled>>

\* Faulty variant: Wait lets go of the lock before it is on the list.
FindFullUnlocked(u) ==
    /\ Enters(u) /\ count >= MaxBuffers
    /\ Go(u, "full")
    /\ UNCHANGED <<lock, count, sleepers, pool, buf, packet, dropped, doubled>>

\* There is none: Wait follows, and the lock is held until it is on the list.
FindFull(u) ==
    /\ Enters(u) /\ count >= MaxBuffers
    /\ lock' = u
    /\ Go(u, "full")
    /\ UNCHANGED <<count, sleepers, pool, buf, packet, dropped, doubled>>

Sleep(u) ==
    /\ At(u, "full")
    /\ sleepers' = Append(sleepers, u)
    /\ lock' = none
    /\ Go(u, "asleep")
    /\ UNCHANGED <<count, pool, buf, packet, dropped, doubled>>

\* The pool gives a buffer it has or a new one.  New objects are alike: one will do.
Pooled == {b \in DOMAIN pool : pool[b] > 0}
Unreferenced == {b \in Buffers : pool[b] = 0 /\ \A p \in Packets : buf[p] # b}
New(S) == IF S = {} THEN {} ELSE {CHOOSE x \in S : TRUE}
NewPacket == New({p \in Packets : \A h \in Holders : packet[h] # p})

\* sync.Pool.Get and the new Packet of AllocatePoolPacket; to slice a nil buffer panics.
PoolGet(u) ==
    /\ At(u, "got")
    /\ \E p \in NewPacket, b \in Pooled \cup New(Unreferenced) :
        /\ pool' = [pool EXCEPT ![b] = IF @ = 0 THEN 0 ELSE @ - 1]
        /\ packet' = [packet EXCEPT ![u] = p]
        /\ buf' = [buf EXCEPT ![p] = b]
        /\ Go(u, IF b = none THEN "crashed" ELSE "using")
    /\ UNCHANGED <<lock, count, sleepers, dropped, doubled>>

-----------------------------------------------------------------------------
(* ReleasePoolPacket and WaitPool.Put.                                     *)

Leave(h) ==
    /\ Go(h, "idle")
    /\ packet' = [packet EXCEPT ![h] = none]

\* Between its test of the buffer and its clear.
Releasing == {"put", "subtract", "signal", "clear"}

\* Another who has the packet has passed the test and not yet cleared the buffer.
Overlaps(h) == \E o \in Holders \ {h} : packet[o] = packet[h] /\ pc[o] \in Releasing

\* Faulty variant: the packet is not looked at.
TestNothing(h) ==
    /\ At(h, "release") /\ Go(h, "put")
    /\ UNCHANGED <<lock, count, sleepers, pool, buf, packet, dropped, doubled>>

\* Nothing is to be released when the packet has no buffer any more.
TestBuffer(h) ==
    /\ At(h, "release")
    /\ \/ buf[packet[h]] = none /\ Leave(h) /\ UNCHANGED doubled
       \/ /\ buf[packet[h]] # none /\ Go(h, "put") /\ UNCHANGED packet
          /\ doubled' = (doubled \/ Overlaps(h))
    /\ UNCHANGED <<lock, count, sleepers, pool, buf, dropped>>

PoolPut(h) ==
    /\ At(h, "put")
    /\ pool' = [pool EXCEPT ![buf[packet[h]]] = @ + 1]
    /\ Go(h, "subtract")
    /\ UNCHANGED <<lock, count, sleepers, buf, packet, dropped, doubled>>

Subtract(h) ==
    /\ At(h, "subtract")
    /\ count' = (count + Word - 1) % Word
    /\ Go(h, "signal")
    /\ UNCHANGED <<lock, sleepers, pool, buf, packet, dropped, doubled>>

Wakes(h, u) == pc' = [pc EXCEPT ![h] = "clear", ![u] = "woken"]

\* Faulty variant: the one that came last is woken.
SignalLast(h) ==
    /\ At(h, "signal")
    /\ IF sleepers = <<>>
       THEN Go(h, "clear") /\ UNCHANGED sleepers
       ELSE /\ Wakes(h, sleepers[Len(sleepers)])
            /\ sleepers' = SubSeq(sleepers, 1, Len(sleepers) - 1)
    /\ UNCHANGED <<lock, count, pool, buf, packet, dropped, doubled>>

Signal(h) ==
    /\ At(h, "signal")
    /\ IF sleepers = <<>>
       THEN Go(h, "clear") /\ UNCHANGED sleepers
       ELSE Wakes(h, Head(sleepers)) /\ sleepers' = Tail(sleepers)
    /\ UNCHANGED <<lock, count, pool, buf, packet, dropped, doubled>>

\* Faulty variant: the packet keeps its pointer to the buffer.
ClearNot(h) ==
    /\ At(h, "clear")
    /\ Leave(h)
    /\ UNCHANGED <<lock, count, sleepers, pool, buf, dropped, doubled>>

Clear(h) ==
    /\ At(h, "clear")
    /\ buf' = [buf EXCEPT ![packet[h]] = none]
    /\ Leave(h)
    /\ UNCHANGED <<lock, count, sleepers, pool, dropped, doubled>>

-----------------------------------------------------------------------------
(* The use of a packet.                                                    *)

\* Destroy, SendPacket or a precheck that fails.
Release(u) ==
    /\ At(u, "using") /\ Go(u, "release")
    /\ UNCHANGED <<lock, count, sleepers, pool, buf, packet, dropped, doubled>>

\* RecvPacketToMsg discards the packet, whose buffer is for the garbage collector and
\* stays in the count.
Drop(u) ==
    /\ At(u, "using") /\ dropped < DropBound
    /\ dropped' = dropped + 1
    /\ buf' = [buf EXCEPT ![packet[u]] = none]
    /\ Leave(u)
    /\ UNCHANGED <<lock, count, sleepers, pool, doubled>>

\* The worker starts the remote transaction, which has the packet too, and releases it.
Hand(u, t) ==
    /\ At(u, "using") /\ At(t, "idle")
    /\ pc' = [pc EXCEPT ![u] = "release", ![t] = "serving"]
    /\ packet' = [packet EXCEPT ![t] = packet[u]]
    /\ UNCHANGED <<lock, count, sleepers, pool, buf, dropped, doubled>>

\* It has its answer, or the timeout; or the connection closes, also under the worker.
TransactionEnds(t) ==
    /\ At(t, "serving") /\ Go(t, "release")
    /\ UNCHANGED <<lock, count, sleepers, pool, buf, packet, dropped, doubled>>

-----------------------------------------------------------------------------
Put(h) == TestBuffer(h) \/ PoolPut(h) \/ Subtract(h) \/ Signal(h) \/ Clear(h)
Get(u) == TakePlace(u) \/ FindFull(u) \/ Sleep(u) \/ PoolGet(u)
Use(u) == Release(u) \/ Drop(u) \/ \E t \in Transactions : Hand(u, t)

\* A panic ends the process.
Alive == (\A h \in Holders : pc[h] # "crashed") /\ (doubled => Further)

PoolNext ==
    /\ Alive
    /\ \/ \E h \in Holders : Put(h)
       \/ \E u \in Users : Get(u) \/ Use(u)
       \/ \E t \in Transactions : TransactionEnds(t)

PoolSpec == PoolInit /\ [][PoolNext]_poolVars

\* Every goroutine that has begun goes on; nobody has to take another packet.
PoolFairness ==
    /\ \A h \in Holders : WF_poolVars(Alive /\ Put(h))
    /\ \A u \in Users : /\ WF_poolVars(Alive /\ Use(u))
                        /\ WF_poolVars(Alive /\ pc[u] # "idle" /\ Get(u))
    /\ \A t \in Transactions : WF_poolVars(Alive /\ TransactionEnds(t))

FairPoolSpec == PoolSpec /\ PoolFairness

-----------------------------------------------------------------------------
\* Two packets in use have two buffers, and one in use is not in the pool.  The code does
\* not have it (PacketPoolTwice.cfg).
InUse(h) == pc[h] = "using"
Exclusive ==
    /\ \A u \in Users : InUse(u) => pool[buf[packet[u]]] = 0
    /\ \A u, v \in Users : u # v /\ InUse(u) /\ InUse(v) => buf[packet[u]] # buf[packet[v]]

\* Though the worker and the transaction of a request both release it, in any order, a
\* buffer gets two owners only when one of them looks at the packet between the other's
\* test and clear.
NoSharing == doubled \/ Exclusive

\* A user has a place from the count in Get to the count in Put: its own, or that of the
\* transaction it shares the packet with.
HasPlace(u) ==
    \/ pc[u] = "got"
    \/ /\ packet[u] # none /\ buf[packet[u]] # none
       /\ \A h \in Holders : packet[h] = packet[u] => pc[h] \notin {"signal", "clear"}
Inside == {u \in Users : HasPlace(u)}

\* p.count is the places taken, and one for each packet that was let fall, which nobody
\* gives back, unless a packet was released twice.
PlacesCounted == doubled \/ count = Cardinality(Inside) + dropped

\* The signals Put loses, because it does not hold the lock, leave at most one caller
\* asleep once nobody is under way any more, unless packets that were let fall have used
\* up the pool, or a packet was released twice; its buffers are free then, and the next
\* Put wakes it.
Quiet == \A h \in Holders : pc[h] \in {"idle", "asleep"}
AtMostOneForgotten == Quiet /\ dropped < MaxBuffers => doubled \/ Len(sleepers) <= 1

\* A forgotten caller stays asleep for as long only as no buffer is put back: it
\* is woken in its turn.
SomebodyPuts == Alive /\ \E h \in Holders : pc[h] = "signal"
WokenInTurn ==
    \A u \in Users : []<>SomebodyPuts => (pc[u] = "asleep" ~> pc[u] # "asleep")

\* Nobody is left asleep beside a free buffer.  The code does not have it; no run lists it.
NobodyForgotten == Quiet /\ dropped < MaxBuffers => doubled \/ sleepers = <<>>
-----------------------------------------------------------------------------
(* Refinement of Semaphore.                                                *)

Sem == INSTANCE Semaphore WITH Size <- MaxBuffers, inside <- Inside, lost <- dropped

\* With the lock given up between count and signal, with the count modulo 2^32 and with
\* packets shared by worker and transaction, WaitPool counts places as long as no packet
\* is released twice: never too many are given, and each comes back once.  Proved in
\* ConnectionProofs; no run lists it.
ImplementsSemaphore == []~doubled => Sem!Spec
=============================================================================
