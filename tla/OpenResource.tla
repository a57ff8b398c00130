---------------------------- MODULE OpenResource ----------------------------
(***************************************************************************)
(* A knock from end to end: the agent's request and its timeout            *)
(* (endpoints/agent/knock.go), the server's handleNhpOpenResource and      *)
(* processACOperation, which asks the AC of every resource and waits for   *)
(* all of them (endpoints/server), and the AC's HandleUdpACOperations,     *)
(* which adds one ipset entry after the other (endpoints/ac/msghandler.go).*)
(*                                                                         *)
(* Messages may be delayed and lost.  A duplicate does no harm here that a *)
(* second request does not do: Responder says which of them are accepted.  *)
(* Times are in seconds; a timer that is due is taken to fire before its   *)
(* clock moves on.                                                         *)
(***************************************************************************)
EXTENDS Naturals

CONSTANTS
    Groups,                 \* resource groups of the auth service (ResourceData)
    Resources,              \* destinations, each at one AC; groups may share them
    ResourcesOf,            \* ResourceData.Resources of each group
    Entries,                \* ipset entries a knock adds for a resource: tcp, udp, icmp
    RangeMode,              \* PASS_KNOCKIP_WITH_RANGE: a tempset entry is added too
    OpenTime,               \* ResourceData.OpenTime of each group
    DefaultIpOpenTime,
    ACOpenCompensationTime,
    TempPortOpenTime,
    AgentTimeout,           \* AgentLocalTransactionResponseTimeoutMs
    ServerTimeout,          \* ServerLocalTransactionResponseTimeoutMs
    ReqBound,               \* bound: requests of the agent
    MaxTime                 \* bound: the clock

ASSUME OpenResourceAssumption ==
    /\ Entries \in Nat \ {0}
    /\ RangeMode \in BOOLEAN
    /\ Groups # {}
    /\ ResourcesOf \in [Groups -> SUBSET Resources]
    /\ OpenTime \in [Groups -> Nat]
    /\ DefaultIpOpenTime \in Nat \ {0}
    /\ ACOpenCompensationTime \in Nat
    /\ TempPortOpenTime \in Nat \ {0}
    /\ AgentTimeout \in Nat
    /\ ServerTimeout \in Nat
    /\ ReqBound \in Nat
    /\ MaxTime \in Nat
    /\ AgentTimeout <= ACOpenCompensationTime

VARIABLES
    now,
    agent,      \* the agent's requests
    server,     \* the server's handler of each request
    trx,        \* the server's transaction with the AC, per request and resource
    ac,         \* the AC's handler of that operation
    expire,     \* when each ipset entry runs out; 0 if it was never added
    tempExpire, \* the same for the tempset entry
    setBy       \* history: the request that last added each entry; 0 if none did

vars == <<now, agent, server, trx, ac, expire, tempExpire, setBy>>

Reqs == 1..ReqBound
EntryIds == 1..Entries

AgentRecords == [pc : {"none", "waiting", "acked", "failed"}, kind : {"KNK", "EXT"}, group : Groups,
                 sent : Nat, acked : Nat, hosts : SUBSET Resources]
TrxRecords == [pc : {"none", "pending", "ok", "fail"}, sent : Nat]
ACRecords == [pc : {"none", "sent", "adding", "added", "failed"}, next : 1..(Entries + 1)]

TypeOK ==
    /\ now \in Nat
    /\ agent \in [Reqs -> AgentRecords]
    /\ server \in [Reqs -> {"none", "received", "opening", "acked", "done"}]
    /\ trx \in [Reqs \X Resources -> TrxRecords]
    /\ ac \in [Reqs \X Resources -> ACRecords]
    /\ expire \in [Resources \X EntryIds -> Nat]
    /\ tempExpire \in [Resources -> Nat]
    /\ setBy \in [Resources \X EntryIds -> Reqs \union {0}]

\* A request that is not sent yet has no group: any will do.
AnyGroup == CHOOSE g \in Groups : TRUE

Init ==
    /\ now = 1
    /\ agent = [r \in Reqs |-> [pc |-> "none", kind |-> "KNK", group |-> AnyGroup,
                               sent |-> 0, acked |-> 0, hosts |-> {}]]
    /\ server = [r \in Reqs |-> "none"]
    /\ trx = [o \in Reqs \X Resources |-> [pc |-> "none", sent |-> 0]]
    /\ ac = [o \in Reqs \X Resources |-> [pc |-> "none", next |-> 1]]
    /\ expire = [e \in Resources \X EntryIds |-> 0]
    /\ tempExpire = [s \in Resources |-> 0]
    /\ setBy = [e \in Resources \X EntryIds |-> 0]

AgentDue(r) == agent[r].pc = "waiting" /\ now >= agent[r].sent + AgentTimeout
ServerDue(o) == trx[o].pc = "pending" /\ now >= trx[o].sent + ServerTimeout

Tick ==
    /\ now < MaxTime
    /\ \A r \in Reqs : ~AgentDue(r)
    /\ \A o \in Reqs \X Resources : ~ServerDue(o)
    /\ now' = now + 1
    /\ UNCHANGED <<agent, server, trx, ac, expire, tempExpire, setBy>>

-----------------------------------------------------------------------------
(* The agent.                                                              *)

\* knockRequest and ExitKnockRequest; requests are numbered as they are sent,
\* and may overlap: each has a goroutine of its own.
Send(r, kind, group) ==
    /\ agent[r].pc = "none"
    /\ \A q \in 1..(r - 1) : agent[q].pc # "none"
    /\ agent' = [agent EXCEPT ![r] = [pc |-> "waiting", kind |-> kind, group |-> group,
                                     sent |-> now, acked |-> 0, hosts |-> {}]]
    /\ UNCHANGED <<now, server, trx, ac, expire, tempExpire, setBy>>

\* The server's NHP_ACK reports success and the hosts that were opened.
ReceiveAck(r) ==
    LET opened == {s \in Resources : trx[<<r, s>>].pc = "ok"} IN
    /\ agent[r].pc = "waiting" /\ server[r] = "acked"
    /\ server' = [server EXCEPT ![r] = "done"]
    /\ agent' = [agent EXCEPT ![r] =
                    [@ EXCEPT !.pc = IF opened = {} THEN "failed" ELSE "acked",
                              !.acked = now, !.hosts = opened]]
    /\ UNCHANGED <<now, trx, ac, expire, tempExpire, setBy>>

AgentTimesOut(r) ==
    /\ AgentDue(r)
    /\ agent' = [agent EXCEPT ![r].pc = "failed"]
    /\ UNCHANGED <<now, server, trx, ac, expire, tempExpire, setBy>>

-----------------------------------------------------------------------------
(* The server.                                                             *)

ReceiveKnock(r) ==
    /\ agent[r].pc # "none" /\ server[r] = "none"
    /\ server' = [server EXCEPT ![r] = "received"]
    /\ UNCHANGED <<now, agent, trx, ac, expire, tempExpire, setBy>>

\* The plugin refuses, or no service provider is found: an error is sent back.
Refuse(r) ==
    /\ server[r] = "received"
    /\ server' = [server EXCEPT ![r] = "acked"]
    /\ UNCHANGED <<now, agent, trx, ac, expire, tempExpire, setBy>>

\* handleNhpOpenResource sends an NHP_AOP for each resource of the group whose AC
\* is online.
OpenResources(r, online) ==
    /\ server[r] = "received"
    /\ server' = [server EXCEPT ![r] = "opening"]
    /\ trx' = [o \in Reqs \X Resources |->
                 IF o[1] # r \/ o[2] \notin ResourcesOf[agent[r].group] THEN trx[o]
                 ELSE [pc |-> IF o[2] \in online THEN "pending" ELSE "fail", sent |-> now]]
    /\ ac' = [o \in Reqs \X Resources |->
                 IF o[1] = r /\ o[2] \in ResourcesOf[agent[r].group] \intersect online
                 THEN [pc |-> "sent", next |-> 1] ELSE ac[o]]
    /\ UNCHANGED <<now, agent, expire, tempExpire, setBy>>

\* Faulty variant: the NHP_ART is taken for a success whatever it says.
ReceiveARTUnchecked(o) ==
    /\ trx[o].pc = "pending" /\ ac[o].pc \in {"added", "failed"}
    /\ trx' = [trx EXCEPT ![o].pc = "ok"]
    /\ UNCHANGED <<now, agent, server, ac, expire, tempExpire, setBy>>

ReceiveART(o) ==
    /\ trx[o].pc = "pending" /\ ac[o].pc \in {"added", "failed"}
    /\ trx' = [trx EXCEPT ![o].pc = IF ac[o].pc = "added" THEN "ok" ELSE "fail"]
    /\ UNCHANGED <<now, agent, server, ac, expire, tempExpire, setBy>>

\* The transaction with the AC fails: a timeout, or its connection is closed.
ServerTimesOut(o) ==
    /\ trx[o].pc = "pending"
    /\ trx' = [trx EXCEPT ![o].pc = "fail"]
    /\ UNCHANGED <<now, agent, server, ac, expire, tempExpire, setBy>>

\* acWg.Wait(), and the NHP_ACK.
Answer(r) ==
    /\ server[r] = "opening"
    /\ \A s \in Resources : trx[<<r, s>>].pc # "pending"
    /\ server' = [server EXCEPT ![r] = "acked"]
    /\ UNCHANGED <<now, agent, trx, ac, expire, tempExpire, setBy>>

-----------------------------------------------------------------------------
(* The AC.                                                                 *)

\* The time a request asks for: one second for an exit, else that of its group.
Asked(req) ==
    IF req.kind = "EXT" THEN 1
    ELSE IF OpenTime[req.group] = 0 THEN DefaultIpOpenTime ELSE OpenTime[req.group]

\* Faulty variant: the open time is not compensated.
AOPOpenTimeBare(req) == Asked(req)

\* The time the server puts into the NHP_AOP: every time is "compensated".
AOPOpenTime(req) == ACOpenCompensationTime + Asked(req)

\* "1 sec timeout means exit defaultset access, so exit tempset too"
TempOpenTime(openTimeSec) == IF openTimeSec = 1 THEN 1 ELSE TempPortOpenTime

\* processACOperations starts a goroutine for the NHP_AOP.
ReceiveAOP(o) ==
    /\ ac[o].pc = "sent"
    /\ ac' = [ac EXCEPT ![o].pc = "adding"]
    /\ UNCHANGED <<now, agent, server, trx, expire, tempExpire, setBy>>

\* Faulty variant: one entry too many.
AddEntryTooMany(o) ==
    LET e == <<o[2], ac[o].next>> IN
    /\ ac[o].pc = "adding" /\ ac[o].next <= Entries + 1
    /\ ac' = [ac EXCEPT ![o] = [pc |-> "adding", next |-> @.next + 1]]
    /\ expire' = [expire EXCEPT ![e] = now + AOPOpenTime(agent[o[1]])]
    /\ setBy' = [setBy EXCEPT ![e] = o[1]]
    /\ UNCHANGED <<now, agent, server, trx, tempExpire>>

\* ipset.Add runs "ipset add -exist", which resets the timeout of an entry
\* that exists.
AddEntry(o) ==
    LET e == <<o[2], ac[o].next>> IN
    /\ ac[o].pc = "adding" /\ ac[o].next <= Entries
    /\ ac' = [ac EXCEPT ![o] = [pc |-> "adding", next |-> @.next + 1]]
    /\ expire' = [expire EXCEPT ![e] = now + AOPOpenTime(agent[o[1]])]
    /\ setBy' = [setBy EXCEPT ![e] = o[1]]
    /\ UNCHANGED <<now, agent, server, trx, tempExpire>>

\* Faulty variant: a failing operation takes back what it added.
AddEntryRollback(o) ==
    /\ ac[o].pc = "adding" /\ ac[o].next <= Entries
    /\ ac' = [ac EXCEPT ![o].pc = "failed"]
    /\ expire' = [e \in Resources \X EntryIds |->
                     IF e[1] = o[2] /\ e[2] < ac[o].next THEN 0 ELSE expire[e]]
    /\ UNCHANGED <<now, agent, server, trx, tempExpire, setBy>>

\* The first failing entry ends the operation; the earlier ones stay.
AddEntryFails(o) ==
    /\ ac[o].pc = "adding" /\ ac[o].next <= Entries
    /\ ac' = [ac EXCEPT ![o].pc = "failed"]
    /\ UNCHANGED <<now, agent, server, trx, expire, tempExpire, setBy>>

\* The tempset entry comes last, and its failure is not reported.
AddRange(o) ==
    /\ ac[o].pc = "adding" /\ ac[o].next = Entries + 1
    /\ ac' = [ac EXCEPT ![o].pc = "added"]
    /\ \/ UNCHANGED tempExpire
       \/ /\ RangeMode
          /\ tempExpire' = [tempExpire EXCEPT ![o[2]] =
                              now + TempOpenTime(AOPOpenTime(agent[o[1]]))]
    /\ UNCHANGED <<now, agent, server, trx, expire, setBy>>

-----------------------------------------------------------------------------
Next ==
    \/ Tick
    \/ \E r \in Reqs : \/ \E kind \in {"KNK", "EXT"}, group \in Groups : Send(r, kind, group)
                       \/ ReceiveAck(r) \/ AgentTimesOut(r)
                       \/ ReceiveKnock(r) \/ Refuse(r) \/ Answer(r)
                       \/ \E online \in SUBSET Resources : OpenResources(r, online)
    \/ \E o \in Reqs \X Resources : \/ ReceiveART(o) \/ ServerTimesOut(o)
                                    \/ ReceiveAOP(o) \/ AddEntry(o) \/ AddEntryFails(o)
                                    \/ AddRange(o)

Spec == Init /\ [][Next]_vars

-----------------------------------------------------------------------------
(* Properties.                                                             *)

\* What entry <<s, i>> was last added for is at least as long as what r asks for.
SetForAsLong(r, s, i) ==
    setBy[<<s, i>>] # 0 /\ Asked(agent[setBy[<<s, i>>]]) >= Asked(agent[r])

\* "compensate ac open time": an agent that is told a resource is open may use
\* it for the whole open time from then on, however the answer was delayed and
\* whatever fails in other requests: every entry of it was either last added for
\* a shorter time, by an exit or a knock for a group of a shorter OpenTime, or
\* it runs at least that long.
OpenWhilePromised ==
    \A r \in Reqs, s \in Resources :
        (agent[r].pc = "acked" /\ agent[r].kind = "KNK" /\ s \in agent[r].hosts)
            => \A i \in EntryIds :
                 \/ setBy[<<s, i>>] # 0 /\ ~SetForAsLong(r, s, i)
                 \/ expire[<<s, i>>] >= agent[r].acked + Asked(agent[r])

\* "seconds for traffic passing duration after successful knock"
\* (resource.toml:6): the same for any knock, as long as nobody exits.  A knock
\* for a group of a shorter OpenTime that shares the destination shortens the
\* entry all the same (OpenResourceGroups.cfg).
PassesForOpenTime ==
    \A r \in Reqs, s \in Resources :
        (/\ agent[r].pc = "acked" /\ agent[r].kind = "KNK" /\ s \in agent[r].hosts
         /\ \A q \in Reqs : agent[q].kind = "KNK")
            => \A i \in EntryIds : expire[<<s, i>>] >= agent[r].acked + Asked(agent[r])

\* "openTime = 1 // timeout in 1 second": a second after the agent learns that
\* its exit was carried out, and with no knock after it or under way, the
\* resource is closed.  The compensation is added to an exit too
\* (OpenResourceExit.cfg).
Quiet(r, s) ==
    \A q \in Reqs \ {r} : ac[<<q, s>>].pc = "none" \/ (q < r /\ trx[<<q, s>>].pc = "ok")
ExitWithinASecond ==
    \A r \in Reqs, s \in Resources :
        (/\ agent[r].pc = "acked" /\ agent[r].kind = "EXT" /\ s \in agent[r].hosts
         /\ Quiet(r, s) /\ now > agent[r].acked + 1)
            => \A i \in EntryIds : expire[<<s, i>>] <= now

\* "1 sec timeout means exit defaultset access, so exit tempset too": the same
\* for the range around the agent's address.  The code does not do so (ac/msghandler.go:99 never
\* sees a 1); no run lists it.
ExitEndsRange ==
    \A r \in Reqs, s \in Resources :
        (/\ agent[r].pc = "acked" /\ agent[r].kind = "EXT" /\ s \in agent[r].hosts
         /\ Quiet(r, s) /\ now > agent[r].acked + 1)
            => tempExpire[s] <= now
=============================================================================
