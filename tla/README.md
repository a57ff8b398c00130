# A TLA+ model of OpenNHP

OpenNHP keeps a service invisible until its client has knocked: an **agent** sends a
knock to the **server**, the server asks the **AC** in front of the service to open it
for the agent's address, and the AC opens it for a number of seconds.  The three
programs share one library, `nhp/core`, for connections, transactions and packets.
This directory models the concurrent and the timed part of that system, checks it
with TLC on small instances and proves the main invariants with TLAPS.

All paths below are relative to the repository.  Ciphers are not modelled: what they
decide (a packet authenticates or not, a peer is known or not) is a choice.

## 1. The system and its parts

| part | state it keeps | operations | hard behaviour |
|---|---|---|---|
| Server connections, `endpoints/server/udpserver.go`, `webrtcserver.go` | connection table by address, AC and DB records, overload flag, block list | read a packet, create a connection, its routine and cleanup, block, register an AC or DB, WebRTC open and close, stop | one reader against one goroutine per address; a table at its limit; a queue that is full; stop |
| Connection object, `nhp/core/udpconn.go` | queues, stop and block signals, closed flag, times, cookie store | forward in and out, close, signal a block | closing while others send |
| Request path, `nhp/core/device.go`, `transaction.go`, `initiator.go` | message and packet queues, local transactions, workers | send a message, encrypt, await, time out, hand over the response, stop | a caller blocked on a channel; a late or repeated response; full queues |
| Remote transactions, `nhp/core/transaction.go` | per connection map by id | add, find and answer, time out | an answer against the timeout |
| Packet validation, `nhp/core/responder.go` | last send time, threat count, cookies of a connection | check HMAC, cookie, peer, times; count threats; issue a cookie | several workers on one connection; reordered packets; cookie replaced under way |
| Packet pool, `nhp/core/packet.go`, `nhp/utils/waitpool.go` | count of buffers | get, put | waiting at the limit |
| Knock and access control, `endpoints/agent/knock.go`, `endpoints/server/nhpauth.go`, `udpserver.go`, `endpoints/ac/msghandler.go` | requests, transactions with the ACs, ipset entries with timeouts | knock, exit, open the resources, add an entry | three clocks and two timeouts; entries added one by one; overlapping knocks |
| Agent knock loop, `endpoints/agent/udpagent.go` | knock targets and their routines | start, restart on a change, stop | exit on stop, stopping twice |
| AC server discovery, `endpoints/ac/udpac.go` | connection map, discovery state per server, iptables input mode | report, keep alive, count failures, dial, clean up, open the input | restart of the server, dead connections, fall-back that must be undone |
| Tokens and temporary ports, `endpoints/ac/tokenstore.go`, `httpac.go`, `msghandler.go`, `endpoints/server/tokenstore.go` | tokens with an expiry, listeners | generate, verify, sweep, refresh, accept | use of what is about to expire |
| Packet filter, `nhp/ebpf/xdp/*.c`, `nhp/utils/ebpf/ebpf.go` | rule maps, tracked connections, both with an end | look a packet up on arrival, track it, open the way of a reply, add a rule | every CPU and every handler on the same maps without a lock; entries that run out between two calls |
| DB device, `endpoints/db` | as an AC | as an AC | as an AC |
| Configuration, plugins, DHP, key generation, data objects, KBS, verifier, relay, SDKs, logging | files, tables, none | | little: calls, files, arithmetic |

How they interact.  A caller puts a `MsgData` on `sendMsgCh`; the sending routine finds
or dials a connection and hands it to the device, whose workers encrypt it and put the
packet on the connection's `SendQueue`.  A packet that arrives goes from the reader to
the connection's `RecvQueue`, from its routine to a local transaction or to the
device's `packetToMsgQueue`, and from a worker to the caller's `ResponseMsgCh` or to
the endpoint's message handlers.  A handler answers through the remote transaction of
the request.  The overload flag, set by the server's reader, changes what the workers
of the device accept.

What makes the parts correct:

* connections: the table and the routines agree; a newer record of an AC is never lost
  to the cleanup of an older connection; the overload flag does not outlive the load;
  a blocked address gets no connection; the reader is always released; stop ends;
* requests: one answer per request, never two, and one in the end unless the request
  was given up at a known place;
* validation: an honest agent's cookie lets it in; a packet is accepted once and in
  order; an address is blocked only after enough refusals in a row;
* knock: what the agent is told is open is open for the time it is told, unless an exit or a
  knock for a shorter time comes after; an exit closes;
* packet filter: what passes has a rule that lasts until then; a client that sends again
  is not kept out by an entry that has run out;
* connection object: closing loses at most the packet each sender holds, nobody waits for
  good, and close returns; an answer reaches its transaction unless it is late;
* packet pool: a buffer has one owner; a caller is not left asleep for long;
* knock loop: the routines follow the targets, what is no target is exited, stop returns;
* discovery: an AC comes back into the server's records after any failure; the input
  it opened meanwhile is closed again.

## 2. The modules

| module | models | composes |
|---|---|---|
| `ServerConn` | the server's connections, with WebRTC and stop | reader, routines, cleanup, message handler |
| `Request` | what a caller may rely on: the abstract specification | |
| `Transaction` | the request path; implements `Request` | sender, workers, transaction, connection routine, cookie handler, network |
| `Responder` | validation and cookies on one connection | server workers, agent, network |
| `OpenResource` | a knock or an exit end to end | agent, server, ACs, clocks |
| `ACDiscovery` | the AC's registration with its servers | discovery, sender, connection routines, watcher, server |
| `PacketFilter` | the AC's filter in eBPF mode | the XDP program on each CPU, the TC program, the AC's handlers, the maps |
| `KnockLoop` | the agent's knock loop, its calls and its stop | loop, knock routines, configuration, SDK callers, sender, stop |
| `Connection` | `ConnectionData` from inside, with the remote transactions | workers, reader, routine, closers, transactions, handlers |
| `PacketPool` | the pool of packet buffers; implements `Semaphore` | callers, remote transactions, the condition variable |
| `Semaphore` | what a user of the pool may rely on: the abstract specification | |

`MC*` modules instantiate them for TLC, `*Proofs` modules hold the theorems
(`ConnectionProofs` those of `Connection` and of `PacketPool`).  Names of
actions and variables follow the functions and fields; `PROJECT.json` gives the lines
each definition stands for.  Definitions marked *Faulty variant* are plausible bugs of
the definition after them and are not part of the specifications: each property is
tested by putting one of them in the place of the original.

**ServerConn.**  `connMap` is `remoteConnectionMap`, `online` the AC and DB maps,
`blockMap` the block list, `rx` the local variables of `recvPacketRoutine` between two
locks (`RecvLookup`, `RecvRoom`, `RecvInsert`, `RecvForward` and so on), `phase` and
`closed` a connection and where its routine is in its deferred cleanup, `recvQ` its
queue.  A connection is one `ConnectionData` for all its life.  Closing a connection is
one step; `Connection` looks inside it.

**Transaction.**  The duty to answer `r` moves through `outbox` (`sendMsgCh`), `msgQ`,
`enc` (a worker), `trx` (the local transaction and its goroutine), `pktQ` and `parsing`.
Channels without a buffer are rendezvous; a send on a closed channel sets `crashed`.
Response packets are lost, delayed and duplicated.

**Responder.**  A worker takes a packet and the cookies it sees (`Take`), checks the
HMAC (`CheckPacket`), the peer (`RejectPeer`) and the times (`TimesBad`, `TimesGood`) as
separate steps, for nothing is held between them.  After the test each atomic operation is a
step: the addition to the threat count, the clamp and the signal of a refusal
(`CountThreat`, `ClampThreat`, `SendBlockSignal`), the two stores of a good packet
(`StoreTime`, `ClearThreat`).  `generateCookie` reads the clock (`ReadClock`) before it has the
lock (`GenerateCookie`).  `stored`, `newest`, `disordered` and `rejects` are history variables.
The network delivers any packet sent, any number of times.

**OpenResource.**  Per request the agent's record, the server's handler, one transaction
per resource and one handler at its AC, which adds entries in turn and may fail at
each.  Requests are for resource groups, each with its own open time, and groups may share
a destination.  An entry is the time at which it runs out; `setBy` remembers which request
last added it, since `ipset add -exist` of a shorter time shortens an entry.  Every timer
that is due fires before its clock moves on.

**ACDiscovery.**  Per server the local state of `serverDiscovery` (`d`), what
`ResponseMsgCh` brings (`reply`), the shared failure flag (`fail`), the map entry
(`connMap`) and the connections with their routines.  A closed connection's routine
either leaves its select or, when it was not in it, is left with nil channels until its
idle timeout (`deaf`); its cleanup then deletes the entry of the address, whoever's it
is.  A discovery begins with the test of the server's address (`Begin`) and looks at
`running`, which `Start` sets after it has launched it (`Started`); it is `ended` for good
when the address is nil or `running` still clear.  A read error ends `recvPacketRoutine` and leaves the connection in the map
(`reading`).

**PacketFilter.**  An entry of the maps (`rules`, `conns`) is the second in which it runs
out, 0 when there is none.  One call of a map helper is one step, and what a program has
read before stays in its local state (`cpu`): `ReceiveFlow`, `LookupRules`, `PassNew` and
the deletes `DropDead`, `DropExpired` interleave with those of other CPUs, with
`SendReply` (the TC program) and with the rules a handler adds one after another (`todo`).
The five lookups of `LookupRules` and the reads of what they found are one step, so that an
entry that changes between its lookup and a read of its `expire_time` is left out.
The keys are built as the code builds them.  In particular `port_list` and `src_port` rules
are written in host order and read in network order, so that ranges do not match
what they are meant for; a rule for port 0 matches port 0 only; protocols other than TCP
and UDP share the `nexthdr` 0; and nothing ever inserts the reversed direction of a tracked
connection (`ReverseUncovered` in the proofs).  One clock stands for both
`CLOCK_BOOTTIME` and `CLOCK_MONOTONIC`.  The kernel's maps are their documented behaviour.

**KnockLoop.**  Each change of `targets` is an `Edit` followed, outside the lock, by the
test of `knockTargetMapUpdated` and the send on it (`TestUpdated`, `SendUpdated`).  `launch`
counts the sets of routines the loop has started: a routine whose launch is over has
its quit channel closed.  A request is checked, sent, queued, asked and answered in steps of
its own (`client`); it is `lost` when the sender cannot dial, since nobody answers then.
`Stop` is four steps, in the order of the code.  A send on a closed channel is `Panic`.

**Connection.**  A forwarder tests `IsClosed`, enters its select and pushes, sees the stop or
the time-out; a channel that is set to nil later is still the one it waits on.  `Close`
goes statement by statement: `netConn`, the test, `StopSignal`, the flag, the two flushes,
the four channels, the four nils and `Wait`.  The routine, or any other goroutine, closes.
Transactions (`trx`) are entered in `trxMap` by id, end by answer, stop or time-out,
and leave the map in a step of their own.

**PacketPool.**  `Get` takes the lock and tests (`TakePlace`, `FindFull`) and keeps it
until it is on the list of the condition variable (`Sleep`); `Put` is `PoolPut`,
`Subtract`, `Signal`, none of them under the lock.  `ReleasePoolPacket` tests the
packet's buffer before (`TestBuffer`) and clears it after (`Clear`).  A user may share its
packet with a remote transaction (`Hand`), and both release it, each when it is ready: the
transaction may end at any time, also under the worker, since its connection may close.
`doubled` is a history variable: a holder of a packet has passed the test while another was
between its test and its clear (`Overlaps`).  New objects are alike, so that one is
chosen; a buffer the garbage collector takes out of the `sync.Pool` is one that is not
chosen again.

**Semaphore.**  A user of the pool is `inside` from the count in `Get` to the count in the
first `Put` of its packet, its own or that of the transaction it shares it with; a packet
dropped without a `Put` is a place `lost`.  Lock, list, signals, packets and buffers are
hidden.

## 3. What TLC checks

| run | instance | asks |
|---|---|---|
| `serverconn_safety` | two UDP addresses, an AC and a DB identity, a table of one, queues of one, two connections | types; `TableMatchesRoutines`; `OnlineKept`; `BlockedStaysOut` |
| `serverconn_live` | a UDP address and a data channel, fair | `OverloadOnlyUnderLoad`; `ReaderReleased`; `StopDrains` |
| `transaction` | two requests, queues of one, two response packets each, fair | types; `AtMostOneAnswer`; `OnePlace`; `ImplementsRequest`; `EventuallyAnswered` |
| `responder_cookie` | two workers, overload held | types; `HeldCookieWorks` |
| `responder_order` | two workers, knocks and NHP_ART | `BlockEarned`; `AcceptedInOrder` |
| `open_resource` | two requests, two groups of open times 2 and 1 on one resource of two entries, range mode | types; `OpenWhilePromised` |
| `ac_discovery` | one server, two failures to fail, two connections at a time, fair | types; `FailedNotConnected`; `ComesBack`; `InputClosesAgain` |
| `packet_filter` | two CPUs, one handler, maps of one entry, two operations | types; `PassedInTime`; `RetransmissionPasses` |
| `knock_loop` | one resource, two editors, one caller, two changes, fair | types; `KnocksEndBeforeClose`; `TargetsFollowed`; `UnwantedIsExited`; `StopReturns` |
| `connection` | a sender, the reader, two who close, a request, queues of two, fair | types; `AtMostOneLost`; `MissedOnlyLate`; `NobodyStuck`; `CloseReturns` |
| `packet_pool` | three callers, a transaction, a pool of one buffer, fair | types; `PlacesCounted`; `NoSharing`; `AtMostOneForgotten`; `WokenInTurn` |

One more, `transaction_late`, ends in a violation, of which section 5 tells.  Other
configurations in this directory are not part of the runs; section 5 names them.

What the properties say:

* `TableMatchesRoutines`: an entry of the table names an open connection of that address
  whose routine has not removed it, and each such routine is in the table; so the
  cleanup's delete by address never takes another connection's entry at the server.
* `OnlineKept`: the record of an AC that is online through a live connection is replaced
  by a newer announcement only, whatever the order of the old connection's cleanup and
  the new one's announcement.
* `OverloadOnlyUnderLoad`: the flag is up only with the load, or while the routine of a
  data channel that went away has still to lower it.
* `BlockedStaysOut`: a blocked address gets at most the packet already let in.
* `ReaderReleased`, `StopDrains`: one full queue does not stop the reader of all; stop
  ends every routine, the one created during the stop too.
* `OnePlace`: of every request asked, one queue or goroutine holds the duty to answer,
  until it is answered or was given up at a place `lost` names (a queue that was full, a
  connection that could not be dialled, a stopped device).
* `ImplementsRequest`: to its caller the path is the two-step `Request`.
* `EventuallyAnswered`: a request is answered in the end, whatever races for it, unless it
  is `lost`: the code answers no caller whose request was discarded, could not be sent or
  was queued at a stop.
* `HeldCookieWorks`: an overloaded server still takes an RKN made with the cookie that
  was current when the packet was received, if that cookie was older than a round trip
  then and has been replaced at most once before the packet is looked at, by a routine
  that was not held up a round trip between reading the clock and taking the lock.
* `BlockEarned`: a block comes after more refusals in a row than the threshold.  A good
  packet between them is possible in one way, which is a window of the code: one
  routine has passed the threshold, another clears the count for a good packet, and the
  first goes on with its clamp and its signal (`responder.go:359-363`, `:401`).
* `AcceptedInOrder`: no packet is accepted twice or after a later one, unless two were
  between their test and their store together or an NHP_ART, whose time is stored
  without being compared, has moved the time back; the next packet stored alone and
  later than all before ends the disorder.
* `OpenWhilePromised`: what an agent was told is open stays so for the time it was told,
  whatever is late or fails, unless an exit or a knock for a shorter time comes after.
* `FailedNotConnected`, `ComesBack`, `InputClosesAgain`: see section 1.
* `PassedInTime`: a packet that passes, by a rule or by a connection tracked long before,
  has a rule for its key that was to last until it arrived, give or take the second in
  which the packet that began the connection was under way.  The unsigned
  `expire_time - now` never wraps into a connection without an end.
* `RetransmissionPasses`: while a rule lasts, a client that sends again gets through: an
  entry that has run out drops one packet and is gone.  "While it lasts" is for ever only
  because the clock stops at `MaxTime`.
* `TargetsFollowed`: however edits and their signals interleave with the loop, each
  target has one routine in the end and nothing else has one.
* `UnwantedIsExited`: the last thing sent for a resource that is no target, or after
  `StopKnockLoop`, is an exit, unless the sender gave it up.
* `KnocksEndBeforeClose`, `StopReturns`: no knock is under way when `Stop` closes
  `sendMsgCh` (an exit of the SDK may be: it does not count itself in the wait group);
  `Stop` ends unless a request was never answered.
* `AtMostOneLost`: the packets left in closed queues are of senders that tested the flag
  before it was set, one of each.
* `MissedOnlyLate`: a handler misses its transaction only when that is over or the
  connection closed.  The run has one request: repeated ids are section 5's.
* `NobodyStuck`, `CloseReturns`: with the reader waiting on a full queue and `Close` waiting for
  the reader, both go on.
* `NoSharing`, `PlacesCounted`: the worker and the transaction of a request both release its
  packet, in any order.  No two packets in use have one buffer and none in use is in the
  pool, and the count is the places taken and those lost with a dropped packet, until one
  of the two tests the packet's buffer while the other has tested and not cleared it.  That
  overlap alone does harm, not that both release; the code does not exclude it (section 5).
* `AtMostOneForgotten`, `WokenInTurn`: `Put` signals without the lock, so a signal can be
  lost.  When nothing is under way any more at most one caller is asleep beside free
  buffers, because a signal is lost only while the list is empty; and while others go on
  putting buffers back, each sleeper is woken.  `AtMostOneForgotten` excepts a pool that
  dropped packets have used up, and what follows a double release.

### Bounds

Identities are model values, symmetric in the runs without liveness.  Two addresses,
requests, workers, knocks and connections are what it takes for one to interfere with
another; the table limit of one makes both the overload threshold and the limit bite;
queues of one are full at once.  A connection number stands for one life of a
connection: `ConnBound` 2 in `ServerConn` is an old and a new connection of a peer, in
`ACDiscovery` the connections alive at a time, whose numbers are used again, so that the
chain of cleanups that take each other's entry has no end there.  `MaxTime` lets every
window (stale time, cookie time, open time) close inside the run.  `ReplyBound` 2 is a
response and its duplicate.  `PacketFilter` has maps of one entry, so that they
are full, and lifetimes of a second within `MaxTime` 4.  `KnockLoop`'s `Bound` 2 is a
target removed and put back, or a change and a call; its queue has no limit.  In
`Connection` `QueueSize` 2 lets one sender leave a packet and be overtaken with another
(`PacketBound` 3).  A pool of one buffer is full at once; the instance with two places and
three buffers, 6.6 million states, satisfies the invariants too.  `Further` FALSE ends a
behaviour of `PacketPool` at a double release, after which its properties claim nothing;
`PacketPoolTwice.cfg` goes on.  The times are scaled: only their order and the relation
`AgentTimeout <= ACOpenCompensationTime` (5 s and 5 s in the code) matter, and the
latter is an assumption the proofs state.  A discovery round stands for the 5 s of
`MinialServerDiscoveryInterval`.  Deadlock is not an error in the runs, because each of
these systems may stop: the server and the device are told to, requests and knocks are
used up, and an AC that has crashed takes no step.

### Fairness

Weak fairness of what a goroutine can do at any time it is scheduled: the reader, a
connection's drain and its cleanup (`ServerConn`); the workers, the sender and a
transaction's goroutine, which has a timer (`Transaction`); discovery, which has timers,
the connections' routines, the watcher and the end of `Start` (`ACDiscovery`).  In `PacketFilter` the programs
run to their end, and the
client's packets arrive (strong fairness of `Receive` stands for a client that sends again:
two CPUs may hold each other up, but not for ever).  In `KnockLoop` the loop, its routines,
the editors once they have changed the targets, the sender, and `Stop` once it has begun.
In `Connection` who has begun to send or to close goes on, the reader ends when its
socket is closed, and transactions have a timer; that anybody closes the connection is assumed
of its routine only.  In `PacketPool` who has begun a `Get`, a `Put` or a use goes on;
nobody has to come again.  Nothing is assumed of the
network or of when anything is stopped; `ComesBack` and `InputClosesAgain` speak of runs
in which, from some time on, no message is lost and the server stays up (`calm`).

## 4. What is proved

For every value of the constants, with the named assumptions of each module:

| theorem | of | says |
|---|---|---|
| `TypeCorrect`; `PoolTypeCorrect` | the eight proof modules; `PacketPool` | every variable keeps its type |
| `TableAlwaysMatches`, `OverloadNeverLeftUp`, `NewerRecordKept`, `BlockedGetsNothing`, `ReaderNeverAbandoned` | `ServerConnProofs` | `TableMatchesRoutines`, `OverloadOnlyUnderLoad`, `OnlineKept`, `BlockedStaysOut`, `ReaderHasRoutine` |
| `OnePlaceAlways`, `AnsweredAtMostOnce`, `PathImplementsRequest` | `TransactionProofs` | `OnePlace`, `AtMostOneAnswer`, `ImplementsRequest` |
| `HeldCookieAlwaysWorks`, `BlockAlwaysEarned`, `ReplayNeverAccepted` | `ResponderProofs` | `HeldCookieWorks`, `BlockEarned`, `AcceptedInOrder` |
| `PromiseKept` | `OpenResourceProofs` | `OpenWhilePromised` |
| `NothingPassesLate` | `PacketFilterProofs` | `PassedInTime` |
| `KnocksHaveEnded`, `ChangesReachTheLoop`, `KnocksStayWatched`, `NoPanicBeforeStop` | `KnockLoopProofs` | `KnocksEndBeforeClose`, `NoChangeMissed`, `KnockedIsWatched`, `PanicsOnlyStopped` |
| `LossBounded`, `MissesOnlyLate`, `AnswersStayApart`, `WaitersAlwaysReleased`, `NoEarlyPanic`, `OwnerClosesOnce` | `ConnectionProofs` | `AtMostOneLost`, `MissedOnlyLate`, `AnswersOwnRequest`, `WaitersReleased`, `PanicsOnlyLate`, `ClosesOnce` |
| `PlacesAlwaysCounted`, `BufferHasOneOwner`, `OneForgottenAtMost`, `PoolIsSemaphore` | `ConnectionProofs` | `PlacesCounted`, `NoSharing`, `AtMostOneForgotten`, `ImplementsSemaphore` |
| `FailedNeverConnected`, `EntriesNeverClosed` | `ACDiscoveryProofs` | `FailedNotConnected`, `NoClosedEntry` |

`BlockPoolAlwaysBounded` in `ServerConnProofs` shows that the block list keeps its limit.

Seven theorems are about what a liveness property of the runs rests on, and no run lists
their invariants.  In four, who waits has somebody to wait for: `ReaderHasRoutine` is behind
`ReaderReleased`, `WaitersReleased` behind `NobodyStuck` and `CloseReturns`, `NoChangeMissed`
behind `TargetsFollowed`, `KnockedIsWatched` behind `UnwantedIsExited`; that the other then
takes its step is fairness, and TLC's.  `NoClosedEntry` is what `ComesBack` needs of the
connection map, and `PanicsOnlyLate` and `PanicsOnlyStopped` bound the `crashed` that
those properties except.  `ImplementsSemaphore` is listed by no run either, nor is
`ClosesOnce`, which needs the hypothesis below.

Some theorems have a hypothesis on the constants, because the code does not have the property
without it; each is a situation the programs are in.

| hypothesis | of | situation | without it |
|---|---|---|---|
| `UniqueIds` | `MissesOnlyLate`, `AnswersStayApart` | a peer does not repeat a transaction id on a connection | `SameId` in `MCConnection` |
| `Closers = {}` | `OwnerClosesOnce` | only the connection's routine closes it, as in the agent (`udpagent.go:471`); at the AC discovery does too (`udpac.go:680`), at the server the WebRTC handler (`webrtcserver.go:145`) | `NoPanic` below |

The arguments.

* **ServerConn.**  `TableMatchesRoutines` is not inductive: a connection created with a
  number already in use, or inserted by a reader whose address has got an entry
  meanwhile, would break it.  The invariant adds that numbers not yet given out are
  unused (`Fresh`), that entries are live (`EntriesLive`) and UDP connections in the
  table (`UdpInTable`), and what the reader knows between two locks (`ReaderHolds`): it
  is the only one that inserts UDP addresses, so the absence it saw still holds.  The
  overload proof is a cardinality argument on the table; the step properties follow
  from the invariant action by action.  `ReaderHasRoutine` adds only that a connection whose
  routine has ended is closed (`EndedAreClosed`): the reader holds a connection of the table
  from its lookup on, and its routine may go through the whole cleanup meanwhile.
* **Transaction.**  `OnePlace` is the invariant: each action moves the duty of one
  request from one stage to the next.  At most one answer, and the refinement of
  `Request` by the mapping `StatusOf`, are read off the stages.
* **Responder.**  `Remembered` says of a worker in the middle of a check that the cookie
  it read is the current one, or the previous one and then replaced after the packet came.
  `Counted`: the threat count does not run ahead of the refusals since the last good
  packet unless those have passed the threshold, and they have when somebody is to clamp
  or to signal; a clamp may *raise* the count, but then they have passed it too.
  For `AcceptedInOrder`, `Ordered` says that out of disorder the newest accepted time is
  behind the last stored one, one packet at most is between its test and its store, and a
  compared one is still later than the last.
* **OpenResource.**  From the clock discipline (`Waits`), the order of a knock's steps
  (`InTurn`) and what is reported (`Reported`) follows `Lasting`: an entry a request has
  added lasts from when that request was *sent* for its compensated time, unless it was
  last added for a shorter one; whoever adds it again does so later, for as long or for less.
  The agent waits at most `AgentTimeout`, which the compensation covers; this is
  where the assumption is used.
* **PacketFilter.**  `ConnsCovered` says that a tracked connection ends no later than a
  second after a rule that covers it was ever to last (`until`), `EntriesBounded` bounds the
  rules themselves; `Seen` carries both over the local state of a
  program between two map calls, whatever has happened to the maps meanwhile.
* **KnockLoop.**  `Phases` ties the steps of `Stop` to what is closed, `NoRoutines` says
  that the loop has ended and no routine runs once `Stop` has waited for it, `CallersWaited` that
  `Stop` has waited for every knock that passed the test of `IsRunning`, and `SignalsCounted`
  that launches and signals on their way are no more than the changes.  What the routines do
  for their resources needs `WInv` on top: no routine runs in a launch that is to come
  (`Fresh`), so that a launch begins without routines and ends with one per target; a routine
  sends its exit only after its quit channel was closed (`ExitsTold`), so that one that has sent it
  belongs to an earlier launch; and `Stop` ends the loop first (`LoopStopped`).
* **Connection.**  `FlagFirst` (the channels are touched only when the flag is up) and
  `Overtaken` (a sender that has a packet in a closed queue has none under way) give
  `AtMostOneLost`.  `MissesOnlyLate` needs that ids do not repeat (`UniqueIds`): then a
  transaction in its select is the one its id leads to (`Present`).  `StopFirst` orders what a
  sender can see of a close: stop signal, then flag, then channels; with it a select never
  waits on channels that are gone without a stop signal to leave by.  `Added` says that what
  is in the map or was found there is a transaction that was added.
* **PacketPool.**  No hypothesis: what a double release breaks says `doubled` itself.  Whatever
  is released, `Listed` ties the list to the sleepers and the lock to its holder, `Held` says
  that a packet has one user and one transaction, which do not both use it, and
  `WakeupsSuffice` is what makes `AtMostOneForgotten` inductive: that the last signal is lost
  says nothing of the one before, but once two sleep, or one does and another holds the lock
  to join it, the free places are no more than the wake-ups under way.  A signal is lost only
  when it meets an empty list, hence without a crowd; and whoever makes the crowd has tested
  under the lock that no place was free.  Until `doubled`, `Owned` holds too: one releases a
  packet at a time, a packet has a buffer only as long as its user has the packet, and a packet whose
  buffer is not in the pool yet (`Live`) shares it with no other and not with the pool.  So
  a subtraction always finds the user whose place it gives back, which is
  `PlacesCounted`; the count neither wraps nor passes the limit.  `PoolIsSemaphore` maps the
  users of `HasPlace` to `inside`, for the executions that are never `doubled`.
* **ACDiscovery.**  `FailedNotConnected` and `NoClosedEntry` are each inductive with the types.
  Discovery and a cleanup both delete the entry before they close the connection, a cleanup
  even when the entry is its successor's; and a new connection is entered open.

Model-checked only: liveness (`ReaderReleased`, `StopDrains`, `EventuallyAnswered`,
`ComesBack`, `InputClosesAgain`, `RetransmissionPasses`, `TargetsFollowed`,
`UnwantedIsExited`, `StopReturns`, `NobodyStuck`, `CloseReturns`, `WokenInTurn`), since the
prover treats neither leads-to under fairness nor ENABLED; and the run that ends in a
violation.  Every invariant and every action property of the passing runs is proved.

## 5. Where the code and its comments part

One of these is the counterexample of a run:

* `transaction_late` (`NoSendOnClosedChannel`).  `LocalTransaction.Run` closes
  `NextPacketCh` before it leaves the map, and the connection routine sends on what it
  found earlier: a late or repeated response can end the process.

The others are stated in their module, and a configuration kept here for use by hand
(`tlc -config ACDiscoveryConn.cfg MCACDiscovery`) shows the counterexample:

* `ConnAvailable` (`ACDiscoveryConn.cfg`).  "conn must be available at this point"
  (`endpoints/ac/udpac.go:710`): the connection's routine may have deleted the entry
  between the answer's arrival and the lookup, and a nil pointer is used.
* `DataChannelBridged` (`ServerConnBridge.cfg`).  `webrtcserver.go:25` says the WebRTC
  server bridges a data channel with the server's message pipeline.  Its packets do not
  go through `RecvPrecheck`, which sets `HeaderType`; they keep the zero value, which is
  NHP_KPL, and the connection routine releases each as a keepalive.
* `NeverReplayed` (`ResponderRace.cfg`).  The last send time is tested
  and stored with nothing held in between, by one worker per CPU: a packet sent twice
  can be accepted twice, where `responder.go:354` says "replay packet, drop".
* `ClampOnlyLowers` (`ResponderClamp.cfg`).  "clamp threat count to avoid overflow"
  (`responder.go:360`): when another worker has cleared the count for a good packet since
  the addition, the clamp raises it from 0 to the threshold.
* `ExitWithinASecond` (`OpenResourceExit.cfg`).  "timeout in 1 second"
  (`udpserver.go:1062`) becomes six, for the compensation is added to an exit too.
* `PassesForOpenTime` (`OpenResourceGroups.cfg`).  "seconds for traffic passing duration
  after successful knock" (`examples/server_plugin/etc/resource.toml:6`): a knock for
  another group of a shorter `OpenTime` that shares the destination sets the entry's
  time anew, and shortens it without any exit.
* `KeptStaysOpen` (`KnockLoopKept.cfg`).  On any change `udpagent.go:634` closes the quit
  channels of all routines and starts new ones, where `main/export.go` says that the targets
  "will be synchronized"; the exit of an old routine may come after the knock of the
  new one of the same target, which is then closed until the next knock.
* `Exclusive` (`PacketPoolTwice.cfg`).  "ppd is owned and to be
  destroyed by transaction" (`device.go:407`), but the worker destroys it too
  (`device.go:416`): when `StopSignal` is closed just then, both may find `Buf` set,
  put one buffer into the pool twice and lower the count twice.  `NoSharing` is what is left.

Nine more properties are stated in the modules, with the reason, and listed by no run,
since the code does not have them:

* `CapRespected` (`ServerConn`): `udpserver.go:447` tests the table's size only when it
  is not above the overload threshold, so "Reached maximum concurrent connection.
  Discard new packet" (`:449`) is not reached for any maximum above the threshold.
* `NoStaleRecord` (`ServerConn`): the cleanup at `:515` removes a peer's record only if
  the connection's *first* packet was its announcement, and only one; an announcement
  handled after the cleanup is stored all the same.
* `CurrentCookieWorks` (`Responder`): for 20 ms after a new cookie the server still
  checks with the one before (`responder.go:550`).
* `CalmServerTakesCookie` (`Responder`): an RKN that arrives when the overload is over
  is refused, because the cookie is then left out of the sum (`responder.go:146`).
* `ExitEndsRange` (`OpenResource`): `ac/msghandler.go:99` looks for an open time of 1,
  which the compensation has made 6.
* `OnlyExpiredDeleted` (`PacketFilter`): a rule that is renewed between the lookup and the
  delete (`nhp_ebpf_xdp.c:406`) is deleted with its new time.
* `AnswersOwnRequest` (`Connection`): with a repeated transaction id (`SameId` in
  `MCConnection`) the newer entry takes the place of one that runs, whose end deletes it;
  `MissedOnlyLate` does not hold then either.  Both are proved for ids that do not repeat.
* `NoPanic` (`Connection`): two who close between the test and the store of the flag
  close `StopSignal` twice; a sender that was overtaken may push to a closed channel; a
  handler that has found a transaction may send on its closed `NextMsgCh`.  `PanicsOnlyLate` and,
  with one closer, `ClosesOnce` are what is proved.
* `NobodyForgotten` (`PacketPool`): the lost signal above.

Met while modelling, and not a property of a module: `SendBlockSignal` drops the signal when
the routine is not in its select (`udpconn.go:136`); `StopKnockLoop` followed by
`Stop` closes `knockTargetStop` twice (`udpagent.go:271`), and a loop started again only
exits; `Stop` clears `running` first, so that the exits of the knock routines are skipped
(`knock.go:191`); the debounce of the file watcher may signal after `Stop` has closed the
channel; `expired` tokens are extended by a refresh before the sweep (`tokenstore.go:60`);
an exit in eBPF mode does not end a tracked connection, whose lifetime is fixed when it is
made; a failing eBPF rule leaves `artMsg.ErrCode` unset; the AC's reload of `server.toml`
replaces `serverPeerMap` without `serverMapUpdated` (`endpoints/ac/config.go:246`), and
`AddServerPeer`, which sends it, has no caller, so a new server is not contacted until
the AC is restarted; with no server at all `0 < 0` is false and the AC accepts all
input (`udpac.go:556`); a report whose connection cannot be dialled, or that finds the
device's queue full, leaves the discovery of its server waiting for good (`Abandon`,
`stuck`), so that `ComesBack` has to except it, as it does a discovery that has `ended`:
one whose server has no address returns at once (`udpac.go:590`), and so does one that
comes to its report before `Start` has set `running` (`:649`, `:191`); a connection whose routine was busy when
it was closed is cleaned up after its idle timeout, deletes the entry of its successor,
which then runs idle and does the same to the next, every 300 s.

## 6. What is not modelled

* Tokens and temporary ports: the plan below.
* Of the packet filter: the rules for the server at the start of the AC
  (`udpac.go:160-170`), IP options (the programs read TCP ports at a fixed place), the
  event log; the neighbours of an address are an empty list in the instance.
* Of the server's connections: a response to the server's own request goes to a
  transaction (`udpserver.go:593`); the send blocks until that takes it or ends, a delay
  of `ConnReceive`'s next step, and on a closed channel it is `transaction_late`.
* Of the request path: the queues that `Device.Stop` closes when its workers have ended
  (`device.go:139`), and the panic of a caller that still sends then.
* Of the knock loop: what else counts in `a.wg`, the connections' routines and
  `recvMessageRoutine`, which end when `signals.stop` is closed; the DHP loop, a second `StartKnockLoop`, the order and the capacity of
  `sendMsgCh`, the nil answer `knock.go:30` meets when `SendAddr` is nil.
* Of the connection: `SetTimeout`, which nothing calls; a local transaction that times out
  while its packet still waits in `SendQueue`, and releases it there.
* The DB device: its connection and discovery code is the AC's with other messages.
* DHP (data registration, access and attestation): chains of requests whose path
  `Transaction` has, with files on one side and external services on the other.
* Configuration, HTTP front ends, KBS, verifier, plugins: calls and files; they change
  the state above only through what is modelled (a peer known or not, a plugin's
  verdict).
* Key generation, ciphers, data object format: arithmetic.
* Relay (an empty file), SDK exports, main programs, logging.

## 7. What is left

Most important first.

1. `TokenStore`: the token stores of AC and server with their sweep, the HTTP refresh and
   the handler of a temporary port; a token that is about to expire under each of them.
2. Proofs: the safety cores of the liveness properties that have none yet
   (`EventuallyAnswered`, `RetransmissionPasses`, `InputClosesAgain`), and a bound on how long
   an entry of `OpenResource` outlives an exit.
3. A refinement that shows under which discipline of its callers `Connection` implements
   the one-step close of `ServerConn` and `ACDiscovery`.
4. `Stop` of the AC, and the restart of its discovery cycle.
5. The DHP chain of requests over `Transaction`.

Runs are few on purpose, one per question.
