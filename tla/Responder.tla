------------------------------ MODULE Responder ------------------------------
(***************************************************************************)
(* The server's side of nhp/core/responder.go for one connection:          *)
(* createPacketParserData and validatePeer, run by several packetToMsg     *)
(* routines at once on the shared ConnectionData, and the cookie exchange  *)
(* with the agent (endpoints/agent/knock.go, msghandler.go) over a network *)
(* that delays, reorders, duplicates and loses packets.                    *)
(*                                                                         *)
(* Ciphers are abstracted to their results: a packet is a record of its    *)
(* header type, its transaction id, the sender's time and the cookie mixed *)
(* into its HMAC.  Cookies are numbered in the order they are generated;   *)
(* 0 is the zero array every CookieStore starts with.                      *)
(***************************************************************************)
EXTENDS Naturals, FiniteSets

CONSTANTS
    Workers,                \* the packetToMsg routines, one per CPU
    PeerTypes,              \* header types the remote sends besides KNK and RKN
    MinimalRecvInterval,    \* 20 ms
    CookieRoundTripTime,    \* 20 ms
    CookieRegenerateTime,   \* 120 s
    StaleTime,              \* 600 s
    ThreatCountBeforeBlock,
    OverloadStates,         \* what IsOverload() may return: BOOLEAN, or one value held
    SendBound,              \* bound: packets the remote sends
    ThreatBound,            \* bound: threats counted on a connection already blocked
    MaxTime                 \* bound: the clock

ASSUME ResponderAssumption ==
    /\ MinimalRecvInterval \in Nat \ {0}
    /\ CookieRoundTripTime \in Nat \ {0}
    /\ CookieRegenerateTime \in Nat
    /\ StaleTime \in Nat
    /\ ThreatCountBeforeBlock \in Nat
    /\ OverloadStates \subseteq BOOLEAN
    /\ SendBound \in Nat
    /\ ThreatBound \in Nat
    /\ MaxTime \in Nat
    /\ PeerTypes \subseteq {"AOL", "ART", "LST"}

VARIABLES
    now,
    sent,           \* every packet the remote sent; the network may deliver each many times
    knock,          \* the agent's Knock: [pc, trx]
    agentCookie,    \* CookieStore.CurrCookie of the agent's connection
    coks,           \* every NHP_COK the server sent, delivered in the same way
    worker,         \* local state of each packetToMsg routine
    last,           \* ConnectionData.LastRemoteSendTime
    threat,         \* ConnectionData.RecvThreatCount
    cookies,        \* ConnectionData.CookieStore
    blocked,        \* the connection routine received the block signal
    stored,         \* history: when the current cookie was stored
    newest,         \* history: the latest send time of an accepted, checked packet
    disordered,     \* history: last may be behind newest, see StoreTime
    rejects         \* history: packets counted as threats since the last good one

remoteVars == <<sent, knock, agentCookie>>
connVars == <<last, threat, cookies, blocked>>
history == <<stored, newest, disordered, rejects>>
vars == <<now, remoteVars, coks, worker, connVars, history>>

Types == {"KNK", "RKN"} \cup PeerTypes
Packet == [type : Types, id : Nat, ts : Nat, cookie : Nat]

\* The wall clock is far from the zero times of a new connection.
StartTime == CookieRegenerateTime + MinimalRecvInterval + 1

NoPacket == [type |-> "KNK", id |-> 1, ts |-> 0, cookie |-> 0]
Idle == [pc |-> "idle", pkt |-> NoPacket, init |-> 0, overload |-> FALSE, cur |-> 0, gen |-> 0,
         time |-> 0]

\* Every field has its Go type, and no recorded time is ahead of the clock.
TypeOK ==
    /\ now \in Nat
    /\ sent \in SUBSET Packet
    /\ \A p \in sent : p.ts <= now
    /\ knock \in [pc : {"idle", "KNK", "RKN"}, trx : Nat]
    /\ agentCookie \in Nat
    /\ coks \in SUBSET [trx : Nat, cookie : Nat]
    /\ worker \in [Workers -> [pc : {"idle", "hmac", "times", "count", "clamp", "signal",
                                     "store", "clear", "cookie", "generate", "send"},
                               pkt : Packet, init : 0..now, overload : BOOLEAN,
                               cur : Nat, gen : Nat, time : 0..now]]
    /\ \A w \in Workers : worker[w].pkt.ts <= now
    /\ last \in 0..now
    /\ threat \in Nat
    /\ cookies \in [curr : Nat, prev : Nat, time : 0..now]
    /\ blocked \in BOOLEAN
    /\ stored \in 0..now
    /\ newest \in Nat
    /\ disordered \in BOOLEAN
    /\ rejects \in 0..(ThreatCountBeforeBlock + 1)

Init ==
    /\ now = StartTime
    /\ sent = {}
    /\ knock = [pc |-> "idle", trx |-> 0]
    /\ agentCookie = 0
    /\ coks = {}
    /\ worker = [w \in Workers |-> Idle]
    /\ last = 0
    /\ threat = 0
    /\ cookies = [curr |-> 0, prev |-> 0, time |-> 0]
    /\ blocked = FALSE
    /\ stored = 0
    /\ newest = 0
    /\ disordered = FALSE
    /\ rejects = 0

Tick ==
    /\ now < MaxTime
    /\ now' = now + 1
    /\ UNCHANGED <<remoteVars, coks, worker, connVars, history>>

-----------------------------------------------------------------------------
(* The remote.                                                             *)

\* encryptBody and addHMAC: the connection's cookie is mixed into the HMAC of
\* an RKN and of nothing else.
AddPacket(type, cookie) ==
    LET id == Cardinality(sent) + 1 IN
    /\ id <= SendBound
    /\ sent' = sent \cup {[type |-> type, id |-> id, ts |-> now,
                           cookie |-> IF type = "RKN" THEN cookie ELSE 0]}

\* knockRequest(res, false)
SendKnock ==
    /\ knock.pc = "idle"
    /\ AddPacket("KNK", agentCookie)
    /\ knock' = [pc |-> "KNK", trx |-> Cardinality(sent) + 1]
    /\ UNCHANGED <<now, agentCookie, coks, worker, connVars, history>>

\* HandleCookieMessage stores the cookie, and wakes the knock it names if that
\* is still waiting; Knock then calls knockRequest(res, true) at once.
RecvCookie(cok) ==
    /\ agentCookie' = cok.cookie
    /\ IF knock.pc = "KNK" /\ knock.trx = cok.trx
       THEN /\ AddPacket("RKN", cok.cookie)
            /\ knock' = [pc |-> "RKN", trx |-> Cardinality(sent) + 1]
       ELSE UNCHANGED <<sent, knock>>
    /\ UNCHANGED <<now, coks, worker, connVars, history>>

\* The server's answer, or the transaction's timeout.
KnockEnds ==
    /\ knock.pc # "idle"
    /\ knock' = [knock EXCEPT !.pc = "idle"]
    /\ UNCHANGED <<now, sent, agentCookie, coks, worker, connVars, history>>

SendOther(type) ==
    /\ AddPacket(type, 0)
    /\ UNCHANGED <<now, knock, agentCookie, coks, worker, connVars, history>>

-----------------------------------------------------------------------------
(* packetToMsgRoutine.                                                     *)

\* A routine takes a packet the network delivered (also one that was in the
\* device's queue when its connection was blocked), and reads the device's
\* overload flag, which the reader and the cleanup of connections may change at
\* any time (ServerConn).  cur and gen record, for the properties, the cookie
\* that was current then and when it was generated.
Take(w, p, overload) ==
    /\ worker[w].pc = "idle"
    /\ blocked => threat < ThreatBound
    /\ worker' = [worker EXCEPT ![w] =
                    [pc |-> "hmac", pkt |-> p, init |-> now, overload |-> overload,
                     cur |-> cookies.curr, gen |-> cookies.time, time |-> 0]]
    /\ UNCHANGED <<now, remoteVars, coks, connVars, history>>

IsAllowedAtOverload(type) == type \in {"KNK", "RKN", "EXT", "AOL", "ART"}

\* Faulty variant: the previous cookie is not considered.
CheckHMACCurrentOnly(k, sumCookie) ==
    k.pkt.cookie = IF sumCookie THEN cookies.curr ELSE 0

CheckHMAC(k, sumCookie) ==
    k.pkt.cookie = IF ~sumCookie THEN 0
                   ELSE IF k.init < cookies.time + CookieRoundTripTime THEN cookies.prev
                   ELSE cookies.curr

\* createPacketParserData's verdict: the overload flag was read before.
Passes(k) ==
    /\ k.overload => IsAllowedAtOverload(k.pkt.type)
    /\ CheckHMAC(k, k.overload /\ k.pkt.type = "RKN")

Discard(w) == worker' = [worker EXCEPT ![w] = Idle]
GoOn(w) == worker' = [worker EXCEPT ![w].pc = "times", ![w].cur = 0, ![w].gen = 0]

CheckPacket(w) ==
    /\ worker[w].pc = "hmac"
    /\ IF Passes(worker[w]) THEN GoOn(w) ELSE Discard(w)
    /\ UNCHANGED <<now, remoteVars, coks, connVars, history>>

\* The public key cannot be decrypted, is unknown or expired, or the peer was
\* seen at another address less than MinimalPeerAddressHoldTime ago.
RejectPeer(w) ==
    /\ worker[w].pc = "times"
    /\ Discard(w)
    /\ UNCHANGED <<now, remoteVars, coks, connVars, history>>

\* Results of ACs are let through: the server is waiting for them.
ShouldCheckRecvAttack(type) == type # "ART"

\* Faulty variant: two packets of the same send time are not told apart.
IsThreatNoFlood(k) ==
    \/ ShouldCheckRecvAttack(k.pkt.type) /\ k.pkt.ts < last
    \/ k.pkt.ts + StaleTime < k.init

\* A replayed, flooding or stale packet.
IsThreat(k) ==
    \/ ShouldCheckRecvAttack(k.pkt.type) /\ k.pkt.ts < last + MinimalRecvInterval
    \/ k.pkt.ts + StaleTime < k.init

\* The test; of a packet that fails it nothing else is used.  The code reads
\* LastRemoteSendTime twice; what it decides one of the two readings decides alone.
TimesBad(w) ==
    /\ worker[w].pc = "times"
    /\ IsThreat(worker[w])
    /\ worker' = [worker EXCEPT ![w] = [Idle EXCEPT !.pc = "count"]]
    /\ UNCHANGED <<now, remoteVars, coks, connVars, history>>

\* atomic.AddInt32, and what its result says.  The connection is open until its
\* routine has the block signal, and closed some time after.
CountThreat(w) ==
    /\ worker[w].pc = "count"
    /\ threat' = threat + 1
    /\ rejects' = IF rejects > ThreatCountBeforeBlock THEN rejects ELSE rejects + 1
    /\ \/ threat' > ThreatCountBeforeBlock /\ worker' = [worker EXCEPT ![w].pc = "clamp"]
       \/ (threat' <= ThreatCountBeforeBlock \/ blocked) /\ Discard(w)
    /\ UNCHANGED <<now, remoteVars, coks, last, cookies, blocked, stored, newest, disordered>>

ClampThreat(w) ==
    /\ worker[w].pc = "clamp"
    /\ threat' = ThreatCountBeforeBlock
    /\ worker' = [worker EXCEPT ![w].pc = "signal"]
    /\ UNCHANGED <<now, remoteVars, coks, last, cookies, blocked, history>>

\* The signal is lost unless the connection routine is waiting in its select.
SendBlockSignal(w) ==
    /\ worker[w].pc = "signal"
    /\ blocked' \in {blocked, TRUE}
    /\ Discard(w)
    /\ UNCHANGED <<now, remoteVars, coks, last, threat, cookies, history>>

\* Others between their test and the store that follows it.
Storing(w) == {v \in Workers \ {w} : worker[v].pc = "store"}

TimesGood(w) ==
    /\ worker[w].pc = "times"
    /\ ~IsThreat(worker[w])
    /\ worker' = [worker EXCEPT ![w].pc = "store", ![w].init = 0]
    /\ disordered' = (disordered \/ Storing(w) # {})
    /\ UNCHANGED <<now, remoteVars, coks, connVars, stored, newest, rejects>>

\* A knock is answered with a cookie instead of being read.
NeedsCookie(k) == k.overload /\ k.pkt.type = "KNK"

\* The first of the two atomic stores that follow the test.  disordered becomes
\* TRUE where the code does not keep the times in order: when two packets are
\* between their test and their store together (TimesGood), and when the time of
\* a packet that is not compared moves last back.  A store that nobody is beside
\* and that is the latest puts last right again.
StoreTime(w) ==
    LET ts == worker[w].pkt.ts IN
    /\ worker[w].pc = "store"
    /\ last' = ts
    /\ newest' = IF ShouldCheckRecvAttack(worker[w].pkt.type) /\ ts > newest THEN ts ELSE newest
    /\ disordered' = IF ts < newest THEN TRUE ELSE disordered /\ Storing(w) # {}
    /\ worker' = [worker EXCEPT ![w].pc = "clear"]
    /\ UNCHANGED <<now, remoteVars, coks, threat, cookies, blocked, stored, rejects>>

\* What comes after the stores: a cookie, or decryptBody.
Proceed(w) ==
    IF NeedsCookie(worker[w]) THEN worker' = [worker EXCEPT ![w].pc = "cookie"] ELSE Discard(w)

\* A refusal that has passed the threshold, and has its clamp and its signal to go.
Blocking == \E w \in Workers : worker[w].pc \in {"clamp", "signal"}

\* Faulty variant: RecvThreatCount is never cleared.
ClearThreatNot(w) ==
    /\ worker[w].pc = "clear"
    /\ rejects' = IF Blocking THEN rejects ELSE 0
    /\ Proceed(w)
    /\ UNCHANGED <<now, remoteVars, coks, connVars, stored, newest, disordered>>

\* The second store.
ClearThreat(w) ==
    /\ worker[w].pc = "clear"
    /\ threat' = 0
    /\ rejects' = IF Blocking THEN rejects ELSE 0
    /\ Proceed(w)
    /\ UNCHANGED <<now, remoteVars, coks, last, cookies, blocked, stored, newest, disordered>>

\* generateCookie reads the clock before it has the lock.
ReadClock(w) ==
    /\ worker[w].pc = "cookie"
    /\ worker' = [worker EXCEPT ![w].pc = "generate", ![w].time = now]
    /\ UNCHANGED <<now, remoteVars, coks, connVars, history>>

\* Faulty variant: the time of the next cookie is stored, not of this one.
GenerateCookieAhead(w) ==
    /\ worker[w].pc = "generate"
    /\ IF worker[w].time > cookies.time
       THEN /\ cookies' = [curr |-> cookies.curr + 1, prev |-> cookies.curr,
                           time |-> worker[w].time + CookieRegenerateTime]
            /\ stored' = now
       ELSE UNCHANGED <<cookies, stored>>
    /\ worker' = [worker EXCEPT ![w].pc = "send", ![w].time = 0]
    /\ UNCHANGED <<now, remoteVars, coks, last, threat, blocked, newest, disordered, rejects>>

GenerateCookie(w) ==
    /\ worker[w].pc = "generate"
    /\ IF worker[w].time > cookies.time + CookieRegenerateTime
       THEN /\ cookies' = [curr |-> cookies.curr + 1, prev |-> cookies.curr,
                           time |-> worker[w].time]
            /\ stored' = now
       ELSE UNCHANGED <<cookies, stored>>
    /\ worker' = [worker EXCEPT ![w].pc = "send", ![w].time = 0]
    /\ UNCHANGED <<now, remoteVars, coks, last, threat, blocked, newest, disordered, rejects>>

SendCookie(w) ==
    /\ worker[w].pc = "send"
    /\ coks' = coks \cup {[trx |-> worker[w].pkt.id, cookie |-> cookies.curr]}
    /\ Discard(w)
    /\ UNCHANGED <<now, remoteVars, connVars, history>>

-----------------------------------------------------------------------------
Next ==
    \/ Tick
    \/ SendKnock \/ KnockEnds \/ \E type \in PeerTypes : SendOther(type)
    \/ \E cok \in coks : RecvCookie(cok)
    \/ \E w \in Workers, p \in sent, overload \in OverloadStates : Take(w, p, overload)
    \/ \E w \in Workers :
        \/ CheckPacket(w) \/ RejectPeer(w)
        \/ TimesBad(w) \/ CountThreat(w) \/ ClampThreat(w) \/ SendBlockSignal(w)
        \/ TimesGood(w) \/ StoreTime(w) \/ ClearThreat(w)
        \/ ReadClock(w) \/ GenerateCookie(w) \/ SendCookie(w)

Spec == Init /\ [][Next]_vars

-----------------------------------------------------------------------------
(* Properties.                                                             *)

Rejoin(k) == k.pc = "hmac" /\ k.pkt.type = "RKN" /\ k.overload

\* An overloaded server that replaces its cookie while an RKN is in its queue
\* still takes it: the cookie that was current when the packet was received,
\* unless it was then younger than a round trip, passes checkHMAC when the
\* packet is looked at, if the cookie was replaced at most once in between, by a
\* routine that had the lock less than a round trip after it read the clock.
HeldCookieWorks ==
    \A w \in Workers :
        LET k == worker[w] IN
        (/\ Rejoin(k) /\ k.pkt.cookie = k.cur /\ k.init >= k.gen + CookieRoundTripTime
         /\ \/ cookies.curr = k.cur
            \/ cookies.curr = k.cur + 1 /\ stored < cookies.time + CookieRoundTripTime)
            => Passes(k)

BlockStep == (blocked' /\ ~blocked) => rejects' > ThreatCountBeforeBlock

\* "block remote if threat level is reached": a connection is blocked only after
\* more than ThreatCountBeforeBlock of its packets were refused with no good one
\* in between, other than one whose clear came after another routine had passed
\* the threshold and before that routine had sent its signal.
BlockEarned == [][BlockStep]_vars

\* "clamp threat count to avoid overflow": a clamp never raises the count.  It
\* does when another routine clears it in between (ResponderClamp.cfg).
ClampOnlyLowers == [][\A w \in Workers : ClampThreat(w) => threat' <= threat]_vars

InOrder(w) == (StoreTime(w) /\ ShouldCheckRecvAttack(worker[w].pkt.type))
                 => worker[w].pkt.ts > newest

AcceptStep == ~disordered => \A w \in Workers : InOrder(w)

\* "replay packet, drop": of the packets that shouldCheckRecvAttack covers,
\* none is accepted twice, and none after one that was sent later, unless two
\* packets were between their test and their store together or the time of an
\* NHP_ART has moved the last one back, and no later packet was stored since.
AcceptedInOrder == [][AcceptStep]_vars

\* The same at all times, which the code does not have (ResponderRace.cfg).
NeverReplayed == [][\A w \in Workers : InOrder(w)]_vars

\* "for RKN, check HMAC with cookie": the cookie that the server has sent and
\* not replaced lets the agent in while the overload lasts.  The code still uses
\* the one before for CookieRoundTripTime (responder.go:550); no run lists it.
CurrentCookieWorks ==
    \A w \in Workers :
        LET k == worker[w] IN
        (Rejoin(k) /\ k.pkt.cookie = cookies.curr /\ k.pkt.cookie # 0) => Passes(k)

\* The same once the overload is over, which responder.go:146 does not do; no run
\* lists it.
CalmServerTakesCookie ==
    \A w \in Workers :
        LET k == worker[w] IN
        (/\ k.pc = "hmac" /\ k.pkt.type = "RKN" /\ ~k.overload
         /\ k.pkt.cookie = cookies.curr /\ k.init >= cookies.time + CookieRoundTripTime)
            => Passes(k)
=============================================================================
