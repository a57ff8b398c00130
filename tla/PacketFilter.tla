---------------------------- MODULE PacketFilter ----------------------------
(***************************************************************************)
(* The AC's packet filter in FilterMode_EBPFXDP.  xdp_white_prog           *)
(* (nhp/ebpf/xdp/nhp_ebpf_xdp.c) decides about each arriving packet, on    *)
(* every CPU at once; tc_egress_prog (tc_egress.c) opens the way back for  *)
(* what the host sends; and the AC's handlers add rules one by one         *)
(* (endpoints/ac/msghandler.go, nhp/utils/ebpf/ebpf.go).  They share the   *)
(* pinned BPF maps, of which one call reads or writes one entry.           *)
(*                                                                         *)
(* An entry is the time at which it runs out; 0 stands for no entry (every *)
(* writer sets allowed to 1).  Ports in keys are in network order, as the  *)
(* programs read them.  A packet is what the headers say of it; `whole'    *)
(* that every header lies inside the buffer and ihl is at least 5.         *)
(***************************************************************************)
EXTENDS Naturals, FiniteSets, Sequences

CONSTANTS
    Cpus,
    Handlers,       \* goroutines that run HandleUdpACOperations
    Packets,        \* packets that arrive
    Replies,        \* packets the host sends
    Operations,     \* what HandleAccessControl is asked for
    Neighbours,     \* the addresses of the /25 of each source, in order
    TempOpenTime,   \* TempPortOpenTime
    ReplyTime,      \* KEY_EXPIRE_TIME_SECONDS
    MaxEntries,     \* MAX_ENTRIES, of each map
    OperationBound, \* bound: operations asked and packets the host sends
    MaxTime         \* bound: the clock

VARIABLES
    clock,      \* bpf_ktime_get_ns, in seconds
    rules,      \* the six rule maps
    conns,      \* conn_track: timestamp + ttl_ns of each entry
    cpu,        \* local state of xdp_white_prog on each CPU
    todo,       \* per handler the rules it has still to add
    asked,      \* operations and replies so far
    until       \* history: how long any rule of a key was ever to last

maps == <<rules, conns>>
vars == <<clock, maps, cpu, todo, asked, until>>

ICMP == 1
TCP == 6
UDP == 17

-----------------------------------------------------------------------------
(* Packets and keys.                                                       *)

\* Passed without a look at any map; what is not Filtered either is dropped so.
Exempt(p) ==
    \/ p.eth \in {"ARP", "IPv6"}
    \/ /\ p.eth = "IP" /\ p.whole
       /\ \/ p.proto = TCP /\ p.dport = 22
          \/ p.proto = UDP /\ (p.dport \in {67, 68} \/ p.sport = 53)
          \/ p.proto = ICMP /\ p.icmp = "reply"

Filtered(p) == p.eth = "IP" /\ p.whole /\ ~Exempt(p)

Flows == {p \in Packets : Filtered(p)}

Rule(map, key) == [map |-> map, key |-> key]

\* PutUint16 in little-endian order of what the program reads in network order.
Swap(port) == (port % 256) * 256 + port \div 256

\* The keys xdp_white_prog looks up, in this order.
LookupKeys(p) ==
    << Rule("spp", <<p.src, p.dst, p.dport, p.proto>>),
       Rule("sdwhitelist", <<p.src, p.dst>>),
       Rule("src_port", <<p.src, p.dport>>),
       Rule("port_list", <<p.src, 0, 65535>>),
       Rule("protocol_port", <<p.dport, p.proto>>) >>

EchoKey(p) == Rule("icmpwhitelist", <<p.src, p.dst>>)

Echo(p) == p.proto = ICMP /\ p.icmp = "echo"

KeysOf(p) == IF Echo(p) THEN {EchoKey(p)} ELSE {LookupKeys(p)[i] : i \in 1..5}

\* ports and nexthdr stay 0 but for TCP and UDP
CtKey(p) == [src |-> p.src, dst |-> p.dst, sport |-> p.sport, dport |-> p.dport,
             nexthdr |-> IF p.proto \in {TCP, UDP} THEN p.proto ELSE 0,
             flags |-> "ingress"]

reverseTuple(k) ==
    [k EXCEPT !.src = k.dst, !.dst = k.src, !.sport = k.dport, !.dport = k.sport,
              !.flags = IF k.flags = "egress" THEN "ingress" ELSE "egress"]

\* What the key of a reply opens: the way back to the port it was sent from.
ReplyKey(q) == Rule("spp", <<q.dst, q.src, q.sport, q.proto>>)

\* The rules HandleAccessControl adds for one source and one destination, in its
\* order.  Protocol 0 is "" or "any", which is handled as tcp and again as udp; a
\* rule of the /25 neighbours that fails is only logged.
Grant(key, time, must) == [key |-> key, time |-> time, must |-> must]
TempTime(op) == IF op.time = 1 THEN 1 ELSE TempOpenTime
AnyProto(op) == op.proto = 0
Pings(op) == AnyProto(op) /\ op.port = 0

BaseRules(op) ==
    (IF AnyProto(op) THEN LET sd == Grant(Rule("sdwhitelist", <<op.src, op.dst>>), op.time, TRUE)
                     IN  <<sd, sd>>
     ELSE <<Grant(Rule("spp", <<op.src, op.dst, op.port, op.proto>>), op.time, TRUE)>>)
    \o (IF Pings(op) THEN <<Grant(Rule("icmpwhitelist", <<op.src, op.dst>>), op.time, TRUE)>>
        ELSE <<>>)

RangeRules(op) ==
    LET near == Neighbours[op.src]
        ports == [i \in DOMAIN near |->
                    Grant(IF op.port # 0 THEN Rule("src_port", <<near[i], Swap(op.port)>>)
                          ELSE Rule("port_list", <<near[i], Swap(1), Swap(65535)>>),
                          TempTime(op), FALSE)]
        pings == [i \in DOMAIN near |->
                    Grant(Rule("icmpwhitelist", <<near[i], op.dst>>), op.time, FALSE)]
    IN  ports \o (IF AnyProto(op) THEN ports ELSE <<>>) \o (IF Pings(op) THEN pings ELSE <<>>)

\* A temporary port, open to every source.
PreAccessRules(op) ==
    << Grant(Rule("protocol_port", <<op.port, TCP>>), TempTime(op), TRUE),
       Grant(Rule("protocol_port", <<op.port, UDP>>), TempTime(op), TRUE) >>

GrantsOf(op) ==
    CASE op.mode = "knock" -> BaseRules(op)
      [] op.mode = "range" -> BaseRules(op) \o RangeRules(op)
      [] op.mode = "pre" -> PreAccessRules(op)

AskedKeys(op) == {GrantsOf(op)[i].key : i \in DOMAIN GrantsOf(op)}
RuleKeys ==
    (UNION {KeysOf(p) : p \in Flows})
    \cup {ReplyKey(q) : q \in Replies}
    \cup (UNION {AskedKeys(op) : op \in Operations})
CtKeys == {CtKey(p) : p \in Flows} \cup {reverseTuple(CtKey(p)) : p \in Flows}

ASSUME PacketFilterAssumption ==
    /\ TempOpenTime \in Nat /\ ReplyTime \in Nat
    /\ MaxEntries \in Nat \ {0}
    /\ OperationBound \in Nat /\ MaxTime \in Nat \ {0}
    /\ \A op \in Operations :
        /\ op.time \in Nat /\ op.mode \in {"knock", "range", "pre"}
        /\ op.mode = "range" =>
            LET n == Neighbours[op.src]
            IN  Len(n) \in Nat /\ n = [i \in 1..Len(n) |-> n[i]]

Grants == [key : RuleKeys, time : Nat, must : BOOLEAN]

-----------------------------------------------------------------------------
Idle == [pc |-> "idle"]

\* Every program run is at a place of the program, with what it has read there.
TypeOK ==
    /\ clock \in 1..MaxTime
    /\ rules \in [RuleKeys -> Nat]
    /\ conns \in [CtKeys -> Nat]
    /\ cpu \in [Cpus -> {Idle}
                 \cup [pc : {"rules", "echo"}, pkt : Flows, now : 1..MaxTime]
                 \cup [pc : {"expired"}, pkt : Flows, now : 1..MaxTime, key : RuleKeys]
                 \cup [pc : {"dead", "update"}, pkt : Flows, now : 1..MaxTime,
                       key : CtKeys, end : Nat]
                 \cup [pc : {"track"}, pkt : Flows, now : 1..MaxTime, ttl : Nat]]
    /\ todo \in [Handlers -> Seq(Grants)]
    /\ asked \in 0..OperationBound
    /\ until \in [RuleKeys -> Nat]

Init ==
    /\ clock = 1
    /\ rules = [k \in RuleKeys |-> 0]
    /\ conns = [k \in CtKeys |-> 0]
    /\ cpu = [c \in Cpus |-> Idle]
    /\ todo = [h \in Handlers |-> <<>>]
    /\ asked = 0
    /\ until = [k \in RuleKeys |-> 0]

\* A program run is short: the seconds change at most once under it.
Tick ==
    /\ clock < MaxTime
    /\ \A c \in Cpus : cpu[c] # Idle => cpu[c].now = clock
    /\ clock' = clock + 1
    /\ UNCHANGED <<maps, cpu, todo, asked, until>>

-----------------------------------------------------------------------------
(* The rule maps.                                                          *)

Stored(m) == {k \in RuleKeys : k.map = m /\ rules[k] # 0}
Full(k) == rules[k] = 0 /\ Cardinality(Stored(k.map)) >= MaxEntries

\* bpf_map_update_elem with BPF_ANY: a full LRU map gives up another entry,
\* a full hash (icmpwhitelist) refuses.
Store(k, time) ==
    /\ IF ~Full(k)
       THEN rules' = [rules EXCEPT ![k] = time]
       ELSE /\ k.map # "icmpwhitelist"
            /\ \E old \in Stored(k.map) : rules' = [rules EXCEPT ![k] = time, ![old] = 0]
    /\ until' = [until EXCEPT ![k] = IF time > @ THEN time ELSE @]

-----------------------------------------------------------------------------
(* The AC.                                                                 *)

\* HandleUdpACOperations is called for an NHP_AOP.
ReceiveAOP(h, op) ==
    /\ todo[h] = <<>> /\ asked < OperationBound
    /\ asked' = asked + 1
    /\ todo' = [todo EXCEPT ![h] = GrantsOf(op)]
    /\ UNCHANGED <<clock, maps, cpu, until>>

EbpfRuleAdd(h) ==
    /\ todo[h] # <<>>
    /\ Store(Head(todo[h]).key, clock + Head(todo[h]).time)
    /\ todo' = [todo EXCEPT ![h] = Tail(@)]
    /\ UNCHANGED <<clock, conns, cpu, asked>>

\* The map cannot be opened or is full: the operation returns, unless the rule
\* was one of a neighbour.
EbpfRuleAddFails(h) ==
    /\ todo[h] # <<>>
    /\ todo' = [todo EXCEPT ![h] = IF Head(@).must THEN <<>> ELSE Tail(@)]
    /\ UNCHANGED <<clock, maps, cpu, asked, until>>

\* CleanupBPFFiles unpins all maps and programs; EbpfEngineLoad then starts with
\* empty maps.
Restart ==
    /\ rules' = [k \in RuleKeys |-> 0]
    /\ conns' = [k \in CtKeys |-> 0]
    /\ cpu' = [c \in Cpus |-> Idle]
    /\ todo' = [h \in Handlers |-> <<>>]
    /\ until' = [k \in RuleKeys |-> 0]
    /\ UNCHANGED <<clock, asked>>

-----------------------------------------------------------------------------
(* tc_egress_prog.                                                         *)

SendReply(q) ==
    /\ asked < OperationBound
    /\ asked' = asked + 1
    /\ Store(ReplyKey(q), clock + ReplyTime)
    /\ UNCHANGED <<clock, conns, cpu, todo>>

-----------------------------------------------------------------------------
(* xdp_white_prog.                                                         *)

At(c, pc) == cpu[c].pc = pc
Goto(c, run) == cpu' = [cpu EXCEPT ![c] = run]

Return(c) == Goto(c, Idle)

\* An echo request without an entry is dropped, which changes nothing.
ReceiveEcho(c, p) ==
    LET key == EchoKey(p) IN
    /\ At(c, "idle") /\ Echo(p)
    /\ rules[key] # 0
    /\ Goto(c, IF rules[key] < clock
               THEN [pc |-> "expired", pkt |-> p, now |-> clock, key |-> key]
               ELSE [pc |-> "echo", pkt |-> p, now |-> clock])
    /\ UNCHANGED <<clock, maps, todo, asked, until>>

PassEcho(c) ==
    /\ At(c, "echo")
    /\ Return(c)
    /\ UNCHANGED <<clock, maps, todo, asked, until>>

\* The entry of this direction, or else of the other one.
Tracked(p) == {k \in {CtKey(p), reverseTuple(CtKey(p))} : conns[k] # 0}
TrackedKey(p) == IF conns[CtKey(p)] # 0 THEN CtKey(p) ELSE reverseTuple(CtKey(p))

\* now is read and conn_track looked up.
ReceiveFlow(c, p) ==
    LET key == TrackedKey(p)
        seen(pc) == [pc |-> pc, pkt |-> p, now |-> clock, key |-> key, end |-> conns[key]]
    IN  /\ At(c, "idle") /\ ~Echo(p)
        /\ Goto(c, IF Tracked(p) = {} THEN [pc |-> "rules", pkt |-> p, now |-> clock]
                   ELSE IF clock > conns[key] THEN seen("dead") ELSE seen("update"))
        /\ UNCHANGED <<clock, maps, todo, asked, until>>

\* Faulty variant: the dead entry stays.
DropDeadKept(c) ==
    /\ At(c, "dead")
    /\ Return(c)
    /\ UNCHANGED <<clock, maps, todo, asked, until>>

\* The entry is deleted by its key, whatever it holds by now.
DropDead(c) ==
    /\ At(c, "dead")
    /\ conns' = [conns EXCEPT ![cpu[c].key] = 0]
    /\ Return(c)
    /\ UNCHANGED <<clock, rules, todo, asked, until>>

\* The copy is written back over whatever the entry holds by now (BPF_EXIST).
PassTracked(c) ==
    LET run == cpu[c] IN
    /\ At(c, "update")
    /\ conns' = [conns EXCEPT ![run.key] = IF @ # 0 THEN run.end ELSE 0]
    /\ Return(c)
    /\ UNCHANGED <<clock, rules, todo, asked, until>>

\* The first key of LookupKeys that has an entry decides.
First(p) ==
    CHOOSE i \in 1..5 : /\ rules[LookupKeys(p)[i]] # 0
                        /\ \A j \in 1..(i - 1) : rules[LookupKeys(p)[j]] = 0

\* Faulty variant: the time of the entry is not looked at.
LookupRulesUnchecked(c) ==
    LET run == cpu[c]
        key == LookupKeys(run.pkt)[First(run.pkt)]
    IN  /\ At(c, "rules")
        /\ Goto(c, IF \A k \in KeysOf(run.pkt) : rules[k] = 0 THEN Idle
                   ELSE [pc |-> "track", pkt |-> run.pkt, now |-> run.now,
                         ttl |-> rules[key] - run.now])
        /\ UNCHANGED <<clock, maps, todo, asked, until>>

\* The five lookups and the reads of expire_time through what they found are one step:
\* an entry that changes between its lookup and its reads is not looked at.
LookupRules(c) ==
    LET run == cpu[c]
        key == LookupKeys(run.pkt)[First(run.pkt)]
        seen == [pc |-> "expired", pkt |-> run.pkt, now |-> run.now, key |-> key]
        track == [pc |-> "track", pkt |-> run.pkt, now |-> run.now,
                  ttl |-> rules[key] - run.now]
    IN  /\ At(c, "rules")
        /\ Goto(c, IF \A k \in KeysOf(run.pkt) : rules[k] = 0 THEN Idle
                   ELSE IF rules[key] < run.now THEN seen ELSE track)
        /\ UNCHANGED <<clock, maps, todo, asked, until>>

\* Deleted by key as well.
DropExpired(c) ==
    /\ At(c, "expired")
    /\ rules' = [rules EXCEPT ![cpu[c].key] = 0]
    /\ Return(c)
    /\ UNCHANGED <<clock, conns, todo, asked, until>>

\* Faulty variant: the entry lasts for the whole time, not for what is left of it.
PassNewLong(c) ==
    LET run == cpu[c] IN
    /\ At(c, "track")
    /\ conns' = [conns EXCEPT ![CtKey(run.pkt)] = clock + run.now + run.ttl]
    /\ Return(c)
    /\ UNCHANGED <<clock, rules, todo, asked, until>>

\* The packet starts a connection, for what is left of its rule; a full
\* conn_track gives up another one.
PassNew(c) ==
    LET run == cpu[c]
        key == CtKey(run.pkt)
        others == {k \in CtKeys : conns[k] # 0}
        end == clock + run.ttl
    IN  /\ At(c, "track")
        /\ IF conns[key] # 0 \/ Cardinality(others) < MaxEntries
           THEN conns' = [conns EXCEPT ![key] = end]
           ELSE \E old \in others : conns' = [conns EXCEPT ![key] = end, ![old] = 0]
        /\ Return(c)
        /\ UNCHANGED <<clock, rules, todo, asked, until>>

-----------------------------------------------------------------------------
Receive(c, p) == ReceiveEcho(c, p) \/ ReceiveFlow(c, p)

Filter(c) ==
    \/ PassEcho(c) \/ DropDead(c) \/ PassTracked(c) \/ LookupRules(c)
    \/ DropExpired(c) \/ PassNew(c)

Next ==
    \/ Tick \/ Restart
    \/ \E h \in Handlers : \/ \E op \in Operations : ReceiveAOP(h, op)
                           \/ EbpfRuleAdd(h) \/ EbpfRuleAddFails(h)
    \/ \E q \in Replies : SendReply(q)
    \/ \E c \in Cpus : \/ \E p \in Flows : Receive(c, p)
                       \/ Filter(c)

Spec == Init /\ [][Next]_vars

\* A program run ends, and a client sends its packet again.
Fairness ==
    /\ \A c \in Cpus : WF_vars(Filter(c))
    /\ \A p \in Flows : SF_vars(\E c \in Cpus : Receive(c, p))

FairSpec == Spec /\ Fairness

-----------------------------------------------------------------------------
(* Properties.                                                             *)

\* The rules for a tracked connection, and those that can let a packet through.
Covering(k) == UNION {KeysOf(q) : q \in {r \in Flows : ~Echo(r) /\ CtKey(r) = k}}
RulesFor(p) == IF Echo(p) THEN KeysOf(p) ELSE Covering(CtKey(p))

Passing(c) == cpu[c].pc \in {"echo", "update", "track"}

\* What is let through, by a rule or by a connection that a rule started long ago,
\* has or had a rule that was to last until it arrived, but for the second in which
\* the packet that started the connection was under way.
PassedInTime ==
    \A c \in Cpus : Passing(c) =>
        \E k \in RulesFor(cpu[c].pkt) : until[k] # 0 /\ cpu[c].now <= until[k] + 1

PassStep(p) == \E c \in Cpus : Passing(c) /\ cpu[c].pkt = p /\ cpu'[c] = Idle

Open(p) == \E k \in KeysOf(p) : rules[k] # 0 /\ rules[k] >= clock

\* A client that sends again gets through while a rule for it lasts: a connection
\* or another rule that has run out drops a packet once and is then out of the way.  A
\* rule is open for ever only because the clock stops at MaxTime: what is checked is that
\* the packets of one open period are in the end let through.
RetransmissionPasses ==
    \A p \in Flows : ([]<>~Open(p)) \/ []<><<PassStep(p)>>_vars

ExpireStep ==
    \A k \in RuleKeys : rules[k] # 0 /\ rules'[k] = 0 /\ (\E c \in Cpus : DropExpired(c))
                        => rules[k] < clock

\* Only what has expired is deleted.  A rule that is renewed between the
\* lookup and the delete goes with it; no run lists it.
OnlyExpiredDeleted == [][ExpireStep]_vars
=============================================================================
