------------------------- MODULE PacketFilterProofs -------------------------
(***************************************************************************)
(* Theorems of PacketFilter, for any packets, rules, CPUs and handlers.    *)
(***************************************************************************)
EXTENDS PacketFilter, SequenceTheorems, TLAPS

\* An entry does not outlast what its rules were to last; a connection outlasts the
\* rule that started it by a second at most.
EntriesBounded == \A k \in RuleKeys : rules[k] <= until[k]

Covered(k, end) == \E r \in Covering(k) : until[r] # 0 /\ end <= until[r] + 1

ConnsCovered == \A k \in CtKeys : conns[k] # 0 => Covered(k, conns[k])

\* What a program run has read still holds of the history.
InSecond(run) == run # Idle => run.now <= clock /\ clock <= run.now + 1
Kind(run) == run.pc \in {"echo", "update", "track", "rules"} => (Echo(run.pkt) <=> run.pc = "echo")
EchoRead(run) ==
    run.pc = "echo" => until[EchoKey(run.pkt)] # 0 /\ run.now <= until[EchoKey(run.pkt)]
ConnRead(run) ==
    run.pc = "update" => /\ run.key \in {CtKey(run.pkt), reverseTuple(CtKey(run.pkt))}
                         /\ run.now <= run.end /\ Covered(run.key, run.end)
RuleRead(run) ==
    run.pc = "track" => \E r \in KeysOf(run.pkt) : until[r] # 0 /\ run.now + run.ttl <= until[r]

Seen(run) == InSecond(run) /\ Kind(run) /\ EchoRead(run) /\ ConnRead(run) /\ RuleRead(run)

IInv == TypeOK /\ EntriesBounded /\ ConnsCovered /\ \A c \in Cpus : Seen(cpu[c])

-----------------------------------------------------------------------------
(* Keys and program runs.                                                  *)

Runs ==
    {Idle}
    \cup [pc : {"rules", "echo"}, pkt : Flows, now : 1..MaxTime]
    \cup [pc : {"expired"}, pkt : Flows, now : 1..MaxTime, key : RuleKeys]
    \cup [pc : {"dead", "update"}, pkt : Flows, now : 1..MaxTime, key : CtKeys, end : Nat]
    \cup [pc : {"track"}, pkt : Flows, now : 1..MaxTime, ttl : Nat]

LEMMA RunFields ==
  ASSUME NEW run \in Runs
  PROVE  /\ run.pc = "idle" <=> run = Idle
         /\ run # Idle => run.pkt \in Flows /\ run.now \in 1..MaxTime
         /\ run.pc = "expired" => run.key \in RuleKeys
         /\ run.pc \in {"dead", "update"} => run.key \in CtKeys /\ run.end \in Nat
         /\ run.pc = "track" => run.ttl \in Nat
  BY DEF Runs, Idle

LEMMA KnownKeys ==
  /\ \A p \in Flows : KeysOf(p) \subseteq RuleKeys
  /\ \A q \in Replies : ReplyKey(q) \in RuleKeys
  /\ \A op \in Operations : AskedKeys(op) \subseteq RuleKeys
  <1> DEFINE A == {KeysOf(p) : p \in Flows}
             B == {ReplyKey(q) : q \in Replies}
             C == {AskedKeys(op) : op \in Operations}
  <1>1. /\ \A p \in Flows : KeysOf(p) \in A
        /\ \A q \in Replies : ReplyKey(q) \in B
        /\ \A op \in Operations : AskedKeys(op) \in C
    OBVIOUS
  <1>2. RuleKeys = (UNION A) \cup B \cup (UNION C)
    BY DEF RuleKeys
  <1> HIDE DEF A, B, C
  <1>3. /\ \A X \in A : X \subseteq RuleKeys
        /\ \A x \in B : x \in RuleKeys
        /\ \A X \in C : X \subseteq RuleKeys
    BY <1>2
  <1>4. \A p \in Flows : KeysOf(p) \subseteq RuleKeys
    BY <1>1, <1>3
  <1>5. \A q \in Replies : ReplyKey(q) \in RuleKeys
    BY <1>1, <1>3
  <1>6. \A op \in Operations : AskedKeys(op) \subseteq RuleKeys
    BY <1>1, <1>3
  <1>7. QED
    BY <1>4, <1>5, <1>6

LEMMA FlowKeys ==
  ASSUME NEW p \in Flows
  PROVE  /\ KeysOf(p) \subseteq RuleKeys
         /\ Echo(p) => EchoKey(p) \in KeysOf(p)
         /\ ~Echo(p) => KeysOf(p) \subseteq Covering(CtKey(p))
         /\ CtKey(p) \in CtKeys /\ reverseTuple(CtKey(p)) \in CtKeys
  <1>2. KeysOf(p) \subseteq RuleKeys
    BY KnownKeys
  <1>3. Echo(p) => EchoKey(p) \in KeysOf(p)
    BY DEF KeysOf
  <1>4. ~Echo(p) => KeysOf(p) \subseteq Covering(CtKey(p))
    BY DEF Covering
  <1>5. CtKey(p) \in CtKeys /\ reverseTuple(CtKey(p)) \in CtKeys
    BY DEF CtKeys
  <1>6. QED
    BY <1>2, <1>3, <1>4, <1>5

LEMMA CoveringKeys ==
  ASSUME NEW k
  PROVE  Covering(k) \subseteq RuleKeys
  <1>1. \A q \in Flows : KeysOf(q) \subseteq RuleKeys
    BY FlowKeys
  <1>2. QED
    BY <1>1 DEF Covering

\* No connection is ever started in the reverse direction.
LEMMA ReverseUncovered ==
  ASSUME NEW p \in Flows
  PROVE  Covering(reverseTuple(CtKey(p))) = {}
  <1>1. \A q \in Flows : CtKey(q).flags = "ingress"
    BY DEF CtKey
  <1>2. reverseTuple(CtKey(p)).flags = "egress"
    BY DEF CtKey, reverseTuple
  <1>3. \A q \in Flows : CtKey(q) # reverseTuple(CtKey(p))
    BY <1>1, <1>2
  <1>4. QED
    BY <1>3 DEF Covering

LEMMA FirstFound ==
  ASSUME NEW p \in Flows, ~Echo(p), \E k \in KeysOf(p) : rules[k] # 0
  PROVE  LookupKeys(p)[First(p)] \in KeysOf(p) /\ rules[LookupKeys(p)[First(p)]] # 0
  <1> DEFINE Has(i) == rules[LookupKeys(p)[i]] # 0
             Is(i) == Has(i) /\ \A j \in 1..(i - 1) : ~Has(j)
  <1>1. \E i \in 1..5 : Has(i)
    BY DEF KeysOf
  <1>2. \E i \in 1..5 : Is(i)
    <2> HIDE DEF Has
    <2>1. Has(1) \/ Has(2) \/ Has(3) \/ Has(4) \/ Has(5)
      BY <1>1
    <2>2. Has(1) => Is(1)
      OBVIOUS
    <2>3. ~Has(1) /\ Has(2) => Is(2)
      OBVIOUS
    <2>4. ~Has(1) /\ ~Has(2) /\ Has(3) => Is(3)
      OBVIOUS
    <2>5. ~Has(1) /\ ~Has(2) /\ ~Has(3) /\ Has(4) => Is(4)
      OBVIOUS
    <2>6. ~Has(1) /\ ~Has(2) /\ ~Has(3) /\ ~Has(4) /\ Has(5) => Is(5)
      OBVIOUS
    <2>7. QED
      BY <2>1, <2>2, <2>3, <2>4, <2>5, <2>6
  <1>3. First(p) \in 1..5 /\ Is(First(p))
    BY <1>2 DEF First
  <1>4. QED
    BY <1>3 DEF KeysOf

\* What an operation asks for is a sequence of rules with known keys.
SdRule(op) == Grant(Rule("sdwhitelist", <<op.src, op.dst>>), op.time, TRUE)
IcmpRule(op) == Grant(Rule("icmpwhitelist", <<op.src, op.dst>>), op.time, TRUE)
SppRule(op) == Grant(Rule("spp", <<op.src, op.dst, op.port, op.proto>>), op.time, TRUE)
PpRule(op, proto) == Grant(Rule("protocol_port", <<op.port, proto>>), TempTime(op), TRUE)
PortKey(op, n) == IF op.port # 0 THEN Rule("src_port", <<n, Swap(op.port)>>)
                  ELSE Rule("port_list", <<n, Swap(1), Swap(65535)>>)
PortRule(op, n) == Grant(PortKey(op, n), TempTime(op), FALSE)
PingRule(op, n) == Grant(Rule("icmpwhitelist", <<n, op.dst>>), op.time, FALSE)

LEMMA BaseTyped ==
  ASSUME NEW op, NEW G, SdRule(op) \in G, IcmpRule(op) \in G, SppRule(op) \in G
  PROVE  BaseRules(op) \in Seq(G)
  <1>1. BaseRules(op) = (IF AnyProto(op) THEN <<SdRule(op), SdRule(op)>> ELSE <<SppRule(op)>>)
                        \o (IF Pings(op) THEN <<IcmpRule(op)>> ELSE <<>>)
    BY DEF BaseRules, SdRule, IcmpRule, SppRule
  <1>2. /\ <<SdRule(op), SdRule(op)>> \in Seq(G) /\ <<SppRule(op)>> \in Seq(G)
        /\ <<IcmpRule(op)>> \in Seq(G) /\ <<>> \in Seq(G)
    OBVIOUS
  <1>3. \A s, t \in Seq(G) : s \o t \in Seq(G)
    OBVIOUS
  <1> DEFINE first == IF AnyProto(op) THEN <<SdRule(op), SdRule(op)>> ELSE <<SppRule(op)>>
             second == IF Pings(op) THEN <<IcmpRule(op)>> ELSE <<>>
  <1>4. first \in Seq(G) /\ second \in Seq(G)
    BY <1>2
  <1>5. BaseRules(op) = first \o second
    BY <1>1
  <1> HIDE DEF first, second
  <1>6. QED
    BY <1>4, <1>5, ConcatProperties

LEMMA PreAccessTyped ==
  ASSUME NEW op, NEW G, PpRule(op, TCP) \in G, PpRule(op, UDP) \in G
  PROVE  PreAccessRules(op) \in Seq(G)
  <1>1. PreAccessRules(op) = <<PpRule(op, TCP), PpRule(op, UDP)>>
    BY DEF PreAccessRules, PpRule
  <1>2. <<PpRule(op, TCP), PpRule(op, UDP)>> \in Seq(G)
    OBVIOUS
  <1>3. QED
    BY <1>1, <1>2

LEMMA RangeTyped ==
  ASSUME NEW op \in Operations, op.mode = "range", NEW G,
         \A i \in DOMAIN Neighbours[op.src] :
            PortRule(op, Neighbours[op.src][i]) \in G /\ PingRule(op, Neighbours[op.src][i]) \in G
  PROVE  RangeRules(op) \in Seq(G)
  <1> DEFINE near == Neighbours[op.src]
             n == Len(near)
             ports == [i \in DOMAIN near |-> PortRule(op, near[i])]
             pings == [i \in DOMAIN near |-> PingRule(op, near[i])]
  <1>1. n \in Nat /\ DOMAIN near = 1..n
    BY PacketFilterAssumption
  <1>2. ports \in [1..n -> G] /\ pings \in [1..n -> G]
    BY <1>1
  <1>3. \A m \in Nat : \A f \in [1..m -> G] : f \in Seq(G)
    OBVIOUS
  <1>4. ports \in Seq(G) /\ pings \in Seq(G)
    <2> HIDE DEF ports, pings, n
    <2>1. QED
      BY <1>1, <1>2, <1>3
  <1>5. RangeRules(op) = (ports \o (IF AnyProto(op) THEN ports ELSE <<>>))
                         \o (IF Pings(op) THEN pings ELSE <<>>)
    BY DEF RangeRules, PortRule, PortKey, PingRule
  <1>6. \A s, t \in Seq(G) : s \o t \in Seq(G)
    OBVIOUS
  <1>7. <<>> \in Seq(G)
    OBVIOUS
  <1> HIDE DEF ports, pings
  <1>8. QED
    BY <1>4, <1>5, <1>6, <1>7

LEMMA GrantsTyped ==
  ASSUME NEW op \in Operations
  PROVE  GrantsOf(op) \in Seq(Grants)
  <1> DEFINE near == Neighbours[op.src]
             K == {SdRule(op).key, IcmpRule(op).key, SppRule(op).key,
                   PpRule(op, TCP).key, PpRule(op, UDP).key}
                  \cup {PortRule(op, near[i]).key : i \in DOMAIN near}
                  \cup {PingRule(op, near[i]).key : i \in DOMAIN near}
             G == [key : K, time : Nat, must : BOOLEAN]
  <1>1. op.time \in Nat /\ TempTime(op) \in Nat
    BY PacketFilterAssumption DEF TempTime
  <1>2. /\ SdRule(op) \in G /\ IcmpRule(op) \in G /\ SppRule(op) \in G
        /\ PpRule(op, TCP) \in G /\ PpRule(op, UDP) \in G
    BY <1>1 DEF SdRule, IcmpRule, SppRule, PpRule, Grant
  <1>3. \A i \in DOMAIN near : PortRule(op, near[i]) \in G /\ PingRule(op, near[i]) \in G
    BY <1>1 DEF PortRule, PingRule, Grant
  <1>4. GrantsOf(op) \in Seq(G)
    <2> HIDE DEF G
    <2>1. BaseRules(op) \in Seq(G) /\ PreAccessRules(op) \in Seq(G)
      BY <1>2, BaseTyped, PreAccessTyped
    <2>2. op.mode = "range" => RangeRules(op) \in Seq(G)
      BY <1>3, RangeTyped
    <2>3. op.mode \in {"knock", "range", "pre"}
      BY PacketFilterAssumption
    <2>4. \A s, t \in Seq(G) : s \o t \in Seq(G)
      OBVIOUS
    <2>5. QED
      BY <2>1, <2>2, <2>3, <2>4 DEF GrantsOf
  <1>5. \A i \in DOMAIN GrantsOf(op) : GrantsOf(op)[i] \in G
    <2> HIDE DEF G
    <2>1. QED
      BY <1>4
  <1>6. \A i \in DOMAIN GrantsOf(op) : GrantsOf(op)[i].key \in RuleKeys
    <2>1. \A i \in DOMAIN GrantsOf(op) : GrantsOf(op)[i].key \in AskedKeys(op)
      BY DEF AskedKeys
    <2>2. QED
      BY <2>1, KnownKeys
  <1>7. \A g \in G : g.key \in RuleKeys => g \in Grants
    <2> HIDE DEF K
    <2>1. QED
      BY DEF Grants
  <1> HIDE DEF G
  <1>8. \A s \in Seq(G) : (\A i \in DOMAIN s : s[i] \in Grants) => s \in Seq(Grants)
    OBVIOUS
  <1>9. QED
    BY <1>4, <1>5, <1>6, <1>7, <1>8

-----------------------------------------------------------------------------
(* What a step may do to the entries and to the history.                   *)

\* until only grows, and entries are covered by it.
Grows == until' \in [RuleKeys -> Nat] /\ \A k \in RuleKeys : until[k] <= until'[k]

LEMMA CoveredLater ==
  ASSUME IInv, Grows, NEW k, NEW end \in Nat, Covered(k, end)
  PROVE  Covered(k, end)'
  <1>1. PICK r \in Covering(k) : until[r] # 0 /\ end <= until[r] + 1
    BY DEF Covered
  <1>2. r \in RuleKeys
    BY CoveringKeys
  <1>3. until[r] \in Nat /\ until'[r] \in Nat /\ until[r] <= until'[r]
    BY <1>2 DEF IInv, TypeOK, Grows
  <1>4. until'[r] # 0 /\ end <= until'[r] + 1
    BY <1>1, <1>3
  <1>5. QED
    BY <1>4 DEF Covered

LEMMA SeenLater ==
  ASSUME IInv, Grows, NEW run \in Runs, Seen(run), UNCHANGED clock
  PROVE  Seen(run)'
  <1>1. InSecond(run)' /\ Kind(run)'
    BY DEF Seen, InSecond, Kind
  <1>2. EchoRead(run)'
    <2>1. SUFFICES ASSUME run.pc = "echo"
                   PROVE  until'[EchoKey(run.pkt)] # 0 /\ run.now <= until'[EchoKey(run.pkt)]
      BY DEF EchoRead
    <2>2. run # Idle
      BY <2>1, RunFields
    <2>3. run.pkt \in Flows /\ run.now \in 1..MaxTime
      BY <2>2, RunFields
    <2>4. EchoKey(run.pkt) \in RuleKeys
      BY <2>1, <2>3, FlowKeys DEF Seen, Kind
    <2> DEFINE u == until[EchoKey(run.pkt)]
               v == until'[EchoKey(run.pkt)]
    <2>5. u \in Nat /\ v \in Nat /\ u <= v
      BY <2>4 DEF IInv, TypeOK, Grows
    <2>6. u # 0 /\ run.now <= u
      BY <2>1 DEF Seen, EchoRead
    <2> HIDE DEF u, v
    <2>7. v # 0 /\ run.now <= v
      BY <2>3, <2>5, <2>6, PacketFilterAssumption
    <2>8. QED
      BY <2>7 DEF v
  <1>3. ConnRead(run)'
    <2>1. SUFFICES ASSUME run.pc = "update" PROVE Covered(run.key, run.end)'
      BY DEF Seen, ConnRead
    <2>2. run.end \in Nat /\ Covered(run.key, run.end)
      BY <2>1, RunFields DEF Seen, ConnRead
    <2>3. QED
      BY <2>2, CoveredLater
  <1>4. RuleRead(run)'
    <2>1. SUFFICES ASSUME run.pc = "track"
                   PROVE  \E r \in KeysOf(run.pkt) : until'[r] # 0 /\ run.now + run.ttl <= until'[r]
      BY DEF RuleRead
    <2>2. PICK r \in KeysOf(run.pkt) : until[r] # 0 /\ run.now + run.ttl <= until[r]
      BY <2>1 DEF Seen, RuleRead
    <2>3. run.pkt \in Flows /\ run.now \in Nat /\ run.ttl \in Nat
      BY <2>1, RunFields, PacketFilterAssumption
    <2>4. r \in RuleKeys
      BY <2>3, FlowKeys
    <2>5. until[r] \in Nat /\ until'[r] \in Nat /\ until[r] <= until'[r]
      BY <2>4 DEF IInv, TypeOK, Grows
    <2>6. until'[r] # 0 /\ run.now + run.ttl <= until'[r]
      BY <2>2, <2>3, <2>5
    <2>7. QED
      BY <2>6
  <1>5. QED
    BY <1>1, <1>2, <1>3, <1>4 DEF Seen

\* A write to the rule maps by the AC or by tc_egress_prog.
LEMMA StoreKeeps ==
  ASSUME IInv, NEW k \in RuleKeys, NEW time \in Nat, Store(k, time)
  PROVE  rules' \in [RuleKeys -> Nat] /\ Grows /\ EntriesBounded'
  <1>1. rules \in [RuleKeys -> Nat] /\ until \in [RuleKeys -> Nat]
    BY DEF IInv, TypeOK
  <1>2. until' = [until EXCEPT ![k] = IF time > @ THEN time ELSE @]
    BY DEF Store
  <1>3. Grows /\ time <= until'[k]
    BY <1>1, <1>2 DEF Grows
  <1>4. \/ rules' = [rules EXCEPT ![k] = time]
        \/ \E old \in RuleKeys : rules' = [rules EXCEPT ![k] = time, ![old] = 0]
    BY DEF Store, Stored
  <1>5. /\ rules' \in [RuleKeys -> Nat]
        /\ \A j \in RuleKeys : rules'[j] = rules[j] \/ rules'[j] = 0 \/ (j = k /\ rules'[j] = time)
    <2>1. CASE rules' = [rules EXCEPT ![k] = time]
      BY <1>1, <2>1
    <2>2. CASE \E old \in RuleKeys : rules' = [rules EXCEPT ![k] = time, ![old] = 0]
      <3>1. PICK old \in RuleKeys : rules' = [rules EXCEPT ![k] = time, ![old] = 0]
        BY <2>2
      <3>2. QED
        BY <1>1, <3>1
    <2>3. QED
      BY <1>4, <2>1, <2>2
  <1>6. EntriesBounded'
    <2>1. \A j \in RuleKeys : rules[j] <= until[j]
      BY DEF IInv, EntriesBounded
    <2>2. \A j \in RuleKeys : rules'[j] <= until'[j]
      BY <1>1, <1>3, <1>5, <2>1 DEF Grows
    <2>3. QED
      BY <2>2 DEF EntriesBounded
  <1>7. QED
    BY <1>3, <1>5, <1>6

LEMMA CpuTyped ==
  IInv => cpu \in [Cpus -> Runs] /\ \A c \in Cpus : cpu[c] \in Runs /\ Seen(cpu[c])
  BY DEF IInv, TypeOK, Runs

\* One program run moves on, whatever else is written.
LEMMA CpuMoves ==
  ASSUME IInv, Grows, UNCHANGED clock, NEW c \in Cpus, NEW run \in Runs, Seen(run)',
         cpu' = [cpu EXCEPT ![c] = run]
  PROVE  cpu' \in [Cpus -> Runs] /\ \A d \in Cpus : Seen(cpu[d])'
  <1>1. cpu \in [Cpus -> Runs] /\ \A d \in Cpus : cpu[d] \in Runs /\ Seen(cpu[d])
    BY CpuTyped
  <1>2. \A r \in Runs : Seen(r) => Seen(r)'
    BY SeenLater
  <1>3. cpu' \in [Cpus -> Runs]
    BY <1>1
  <1>4. ASSUME NEW d \in Cpus PROVE Seen(cpu[d])'
    <2>1. CASE d = c
      <3>1. cpu'[d] = run
        BY <1>1, <2>1
      <3>2. QED
        BY <3>1
    <2>2. CASE d # c
      <3>1. cpu'[d] = cpu[d]
        BY <1>1, <2>2
      <3>2. Seen(cpu[d])'
        <4> DEFINE r == cpu[d]
        <4>1. r \in Runs /\ Seen(r)
          BY <1>1
        <4>2. QED
          BY <3>1, <1>1, <1>2 DEF Seen, InSecond, Kind, EchoRead, ConnRead, RuleRead, Covered
      <3>3. QED
        BY <3>2
    <2>3. QED
      BY <2>1, <2>2
  <1>5. QED
    BY <1>3, <1>4

LEMMA IdleSeen == Idle \in Runs /\ Seen(Idle)'
  <1>1. Idle \in Runs /\ Idle.pc = "idle"
    BY DEF Runs, Idle
  <1>2. QED
    BY <1>1 DEF Seen, InSecond, Kind, EchoRead, ConnRead, RuleRead

\* Nothing that is tracked or written disturbs the rest.
LEMMA QuietGrows == IInv /\ UNCHANGED until => Grows
  BY DEF IInv, TypeOK, Grows

LEMMA ConnsLater ==
  ASSUME IInv, Grows, UNCHANGED conns
  PROVE  ConnsCovered'
  <1>1. conns \in [CtKeys -> Nat]
    BY DEF IInv, TypeOK
  <1>2. \A k \in CtKeys : conns[k] # 0 => Covered(k, conns[k])
    BY DEF IInv, ConnsCovered
  <1>3. \A k \in CtKeys : conns[k] # 0 => Covered(k, conns[k])'
    <2>1. SUFFICES ASSUME NEW k \in CtKeys, conns[k] # 0 PROVE Covered(k, conns[k])'
      OBVIOUS
    <2> DEFINE e == conns[k]
    <2>2. e \in Nat /\ Covered(k, e) /\ e' = e
      BY <1>1, <1>2, <2>1
    <2>3. PICK r \in Covering(k) : until[r] # 0 /\ e <= until[r] + 1
      BY <2>2 DEF Covered
    <2>4. until[r] \in Nat /\ until'[r] \in Nat /\ until[r] <= until'[r]
      BY CoveringKeys DEF IInv, TypeOK, Grows
    <2>5. until'[r] # 0 /\ e <= until'[r] + 1
      BY <2>2, <2>3, <2>4
    <2>6. QED
      BY <2>2, <2>5 DEF Covered
  <1>4. QED
    BY <1>3 DEF ConnsCovered

\* Steps that leave the CPUs and their clock alone.
LEMMA OthersSeen ==
  ASSUME IInv, Grows, UNCHANGED <<clock, cpu>>
  PROVE  \A c \in Cpus : Seen(cpu[c])'
  <1>1. \A c \in Cpus : cpu[c] \in Runs /\ Seen(cpu[c])
    BY CpuTyped
  <1>2. \A r \in Runs : Seen(r) => Seen(r)'
    BY SeenLater
  <1>3. QED
    BY <1>1, <1>2 DEF Seen, InSecond, Kind, EchoRead, ConnRead, RuleRead, Covered

LEMMA InitIInv == Init => IInv
  <1> SUFFICES ASSUME Init PROVE IInv
    OBVIOUS
  <1>1. clock \in 1..MaxTime /\ asked \in 0..OperationBound
    BY PacketFilterAssumption DEF Init
  <1>2. cpu \in [Cpus -> Runs] /\ todo \in [Handlers -> Seq(Grants)]
    BY DEF Init, Runs
  <1>3. rules \in [RuleKeys -> Nat] /\ until \in [RuleKeys -> Nat] /\ conns \in [CtKeys -> Nat]
    BY DEF Init
  <1>4. TypeOK
    BY <1>1, <1>2, <1>3 DEF TypeOK, Runs
  <1>5. EntriesBounded /\ ConnsCovered
    BY DEF Init, EntriesBounded, ConnsCovered
  <1>6. \A c \in Cpus : cpu[c] = Idle
    BY DEF Init
  <1>7. Seen(Idle)
    BY DEF Seen, InSecond, Kind, EchoRead, ConnRead, RuleRead, Idle
  <1>8. QED
    BY <1>4, <1>5, <1>6, <1>7 DEF IInv

LEMMA TickKeeps == IInv /\ Tick => IInv'
  <1> SUFFICES ASSUME IInv, Tick PROVE IInv'
    OBVIOUS
  <1>1. UNCHANGED <<rules, conns, cpu, todo, asked, until>> /\ clock \in Nat /\ clock' = clock + 1
    BY DEF Tick, maps, IInv, TypeOK
  <1>2. TypeOK'
    BY <1>1, PacketFilterAssumption DEF IInv, TypeOK, Tick
  <1>3. EntriesBounded' /\ ConnsCovered'
    BY <1>1 DEF IInv, EntriesBounded, ConnsCovered, Covered
  <1>4. ASSUME NEW c \in Cpus PROVE Seen(cpu[c])'
    <2>1. cpu[c] \in Runs /\ Seen(cpu[c])
      BY CpuTyped
    <2>2. InSecond(cpu[c])'
      <3>1. cpu[c] # Idle => cpu[c].now = clock
        BY DEF Tick
      <3>2. QED
        BY <1>1, <3>1 DEF InSecond
    <2>3. (Kind(cpu[c]) /\ EchoRead(cpu[c]) /\ ConnRead(cpu[c]) /\ RuleRead(cpu[c]))'
      BY <1>1, <2>1 DEF Seen, Kind, EchoRead, ConnRead, RuleRead, Covered
    <2>4. QED
      BY <2>2, <2>3 DEF Seen
  <1>5. QED
    BY <1>2, <1>3, <1>4 DEF IInv

LEMMA RestartKeeps == IInv /\ Restart => IInv'
  <1> SUFFICES ASSUME IInv, Restart PROVE IInv'
    OBVIOUS
  <1>1. TypeOK'
    <2>1. cpu' \in [Cpus -> Runs] /\ todo' \in [Handlers -> Seq(Grants)]
      BY DEF Restart, Runs
    <2>2. QED
      BY <2>1 DEF Restart, IInv, TypeOK, Runs
  <1>2. EntriesBounded' /\ ConnsCovered'
    BY DEF Restart, EntriesBounded, ConnsCovered
  <1>3. \A c \in Cpus : cpu'[c] = Idle
    BY DEF Restart
  <1>4. \A c \in Cpus : Seen(cpu[c])'
    BY <1>3, IdleSeen DEF Seen, InSecond, Kind, EchoRead, ConnRead, RuleRead, Covered
  <1>5. QED
    BY <1>1, <1>2, <1>4 DEF IInv

-----------------------------------------------------------------------------
(* The AC and tc_egress_prog.                                              *)

LEMMA ReceiveAOPKeeps ==
  ASSUME IInv, NEW h \in Handlers, NEW op \in Operations, ReceiveAOP(h, op)
  PROVE  IInv'
  <1>1. GrantsOf(op) \in Seq(Grants)
    BY GrantsTyped
  <1>2. UNCHANGED <<clock, rules, conns, cpu, until>>
    BY DEF ReceiveAOP, maps
  <1>3. TypeOK'
    BY <1>1, <1>2, PacketFilterAssumption DEF ReceiveAOP, IInv, TypeOK
  <1>4. Grows
    BY <1>2, QuietGrows
  <1>5. EntriesBounded'
    BY <1>2 DEF IInv, EntriesBounded
  <1>6. QED
    BY <1>2, <1>3, <1>4, <1>5, ConnsLater, OthersSeen DEF IInv

LEMMA EbpfRuleAddKeeps ==
  ASSUME IInv, NEW h \in Handlers, EbpfRuleAdd(h)
  PROVE  IInv'
  <1> DEFINE g == Head(todo[h])
  <1>1. todo \in [Handlers -> Seq(Grants)] /\ todo[h] \in Seq(Grants) /\ todo[h] # <<>>
    BY DEF IInv, TypeOK, EbpfRuleAdd
  <1>2. g \in Grants /\ Tail(todo[h]) \in Seq(Grants)
    BY <1>1
  <1>3. g.key \in RuleKeys /\ clock + g.time \in Nat
    BY <1>2, PacketFilterAssumption DEF Grants, IInv, TypeOK
  <1>4. Store(g.key, clock + g.time)
    BY DEF EbpfRuleAdd
  <1>5. rules' \in [RuleKeys -> Nat] /\ Grows /\ EntriesBounded'
    BY <1>3, <1>4, StoreKeeps
  <1>6. todo' = [todo EXCEPT ![h] = Tail(@)] /\ UNCHANGED <<clock, conns, cpu, asked>>
    BY DEF EbpfRuleAdd
  <1>7. TypeOK'
    <2>1. todo' \in [Handlers -> Seq(Grants)]
      BY <1>1, <1>2, <1>6
    <2>2. QED
      BY <1>5, <1>6, <2>1 DEF IInv, TypeOK, Grows
  <1>8. QED
    BY <1>5, <1>6, <1>7, ConnsLater, OthersSeen DEF IInv

LEMMA EbpfRuleAddFailsKeeps ==
  ASSUME IInv, NEW h \in Handlers, EbpfRuleAddFails(h)
  PROVE  IInv'
  <1>1. todo \in [Handlers -> Seq(Grants)] /\ todo[h] \in Seq(Grants) /\ todo[h] # <<>>
    BY DEF IInv, TypeOK, EbpfRuleAddFails
  <1>2. Tail(todo[h]) \in Seq(Grants) /\ <<>> \in Seq(Grants)
    BY <1>1
  <1>3. /\ todo' = [todo EXCEPT ![h] = IF Head(@).must THEN <<>> ELSE Tail(@)]
        /\ UNCHANGED <<clock, rules, conns, cpu, asked, until>>
    BY DEF EbpfRuleAddFails, maps
  <1>4. TypeOK'
    <2>1. todo' \in [Handlers -> Seq(Grants)]
      BY <1>1, <1>2, <1>3
    <2>2. QED
      BY <1>3, <2>1 DEF IInv, TypeOK
  <1>5. Grows
    BY <1>3, QuietGrows
  <1>6. EntriesBounded'
    BY <1>3 DEF IInv, EntriesBounded
  <1>7. QED
    BY <1>3, <1>4, <1>5, <1>6, ConnsLater, OthersSeen DEF IInv

LEMMA SendReplyKeeps ==
  ASSUME IInv, NEW q \in Replies, SendReply(q)
  PROVE  IInv'
  <1>1. ReplyKey(q) \in RuleKeys
    BY KnownKeys
  <1>2. clock + ReplyTime \in Nat
    BY PacketFilterAssumption DEF IInv, TypeOK
  <1>3. rules' \in [RuleKeys -> Nat] /\ Grows /\ EntriesBounded'
    BY <1>1, <1>2, StoreKeeps DEF SendReply
  <1>4. asked < OperationBound /\ asked' = asked + 1 /\ UNCHANGED <<clock, conns, cpu, todo>>
    BY DEF SendReply
  <1>5. TypeOK'
    BY <1>3, <1>4, PacketFilterAssumption DEF IInv, TypeOK, Grows
  <1>6. QED
    BY <1>3, <1>4, <1>5, ConnsLater, OthersSeen DEF IInv

-----------------------------------------------------------------------------
(* xdp_white_prog.                                                         *)

\* A step of a program that writes no map.
LEMMA ReadKeeps ==
  ASSUME IInv, UNCHANGED <<clock, maps, todo, asked, until>>, NEW c \in Cpus, NEW run \in Runs,
         Seen(run)', Goto(c, run)
  PROVE  IInv'
  <1>1. UNCHANGED <<rules, conns>> /\ Grows
    BY QuietGrows DEF maps
  <1>2. cpu' \in [Cpus -> Runs] /\ \A d \in Cpus : Seen(cpu[d])'
    BY <1>1, CpuMoves DEF Goto
  <1>3. TypeOK'
    BY <1>1, <1>2 DEF IInv, TypeOK, Runs
  <1>4. EntriesBounded' /\ ConnsCovered'
    BY <1>1, ConnsLater DEF IInv, EntriesBounded
  <1>5. QED
    BY <1>2, <1>3, <1>4 DEF IInv

LEMMA ReceiveEchoKeeps ==
  ASSUME IInv, NEW c \in Cpus, NEW p \in Flows, ReceiveEcho(c, p)
  PROVE  IInv'
  <1> DEFINE key == EchoKey(p)
             old == [pc |-> "expired", pkt |-> p, now |-> clock, key |-> key]
             new == [pc |-> "echo", pkt |-> p, now |-> clock]
  <1>1. /\ Echo(p) /\ rules[key] # 0 /\ Goto(c, IF rules[key] < clock THEN old ELSE new)
        /\ UNCHANGED <<clock, maps, todo, asked, until>>
    BY DEF ReceiveEcho
  <1>2. key \in RuleKeys /\ clock \in 1..MaxTime /\ clock \in Nat
    BY <1>1, FlowKeys, PacketFilterAssumption DEF IInv, TypeOK
  <1>3. rules[key] \in Nat /\ until[key] \in Nat /\ rules[key] <= until[key]
    BY <1>2 DEF IInv, TypeOK, EntriesBounded
  <1>4. CASE rules[key] < clock
    <2>1. PICK run \in Runs : Goto(c, run) /\ run.pc = "expired" /\ run.now = clock
      BY <1>1, <1>2, <1>4 DEF Runs
    <2>2. Seen(run)'
      BY <1>1, <1>2, <2>1 DEF Seen, InSecond, Kind, EchoRead, ConnRead, RuleRead
    <2>3. QED
      BY <1>1, <2>1, <2>2, ReadKeeps
  <1>5. CASE ~(rules[key] < clock)
    <2>1. PICK run \in Runs : Goto(c, run) /\ run.pc = "echo" /\ run.now = clock /\ run.pkt = p
      BY <1>1, <1>2, <1>5 DEF Runs
    <2>2. until'[key] # 0 /\ clock <= until'[key]
      BY <1>1, <1>2, <1>3, <1>5
    <2>3. Seen(run)'
      BY <1>1, <1>2, <2>1, <2>2 DEF Seen, InSecond, Kind, EchoRead, ConnRead, RuleRead
    <2>4. QED
      BY <1>1, <2>1, <2>3, ReadKeeps
  <1>6. QED
    BY <1>4, <1>5

LEMMA ReceiveFlowKeeps ==
  ASSUME IInv, NEW c \in Cpus, NEW p \in Flows, ReceiveFlow(c, p)
  PROVE  IInv'
  <1> DEFINE key == TrackedKey(p)
             miss == [pc |-> "rules", pkt |-> p, now |-> clock]
             seen(pc) == [pc |-> pc, pkt |-> p, now |-> clock, key |-> key, end |-> conns[key]]
  <1>1. /\ ~Echo(p) /\ UNCHANGED <<clock, maps, todo, asked, until>>
        /\ Goto(c, IF Tracked(p) = {} THEN miss
                   ELSE IF clock > conns[key] THEN seen("dead") ELSE seen("update"))
    BY DEF ReceiveFlow
  <1>2. clock \in 1..MaxTime /\ clock \in Nat
    BY PacketFilterAssumption DEF IInv, TypeOK
  <1>3. key \in {CtKey(p), reverseTuple(CtKey(p))} /\ key \in CtKeys /\ conns[key] \in Nat
    BY FlowKeys DEF TrackedKey, IInv, TypeOK
  <1>4. CASE Tracked(p) = {}
    <2>1. PICK run \in Runs : Goto(c, run) /\ run.pc = "rules" /\ run.now = clock /\ run.pkt = p
      BY <1>1, <1>2, <1>4 DEF Runs
    <2>2. Seen(run)'
      BY <1>1, <1>2, <2>1 DEF Seen, InSecond, Kind, EchoRead, ConnRead, RuleRead
    <2>3. QED
      BY <1>1, <2>1, <2>2, ReadKeeps
  <1>5. CASE Tracked(p) # {} /\ clock > conns[key]
    <2>1. PICK run \in Runs : Goto(c, run) /\ run.pc = "dead" /\ run.now = clock
      BY <1>1, <1>2, <1>3, <1>5 DEF Runs
    <2>2. Seen(run)'
      BY <1>1, <1>2, <2>1 DEF Seen, InSecond, Kind, EchoRead, ConnRead, RuleRead
    <2>3. QED
      BY <1>1, <2>1, <2>2, ReadKeeps
  <1>6. CASE Tracked(p) # {} /\ ~(clock > conns[key])
    <2>1. PICK run \in Runs :
            /\ Goto(c, run) /\ run.pc = "update" /\ run.now = clock /\ run.pkt = p
            /\ run.key = key /\ run.end = conns[key]
      BY <1>1, <1>2, <1>3, <1>6 DEF Runs
    <2>2. conns[key] # 0
      BY <1>6 DEF Tracked, TrackedKey
    <2>3. Covered(key, conns[key])
      BY <1>3, <2>2 DEF IInv, ConnsCovered
    <2>4. ConnRead(run)'
      BY <1>1, <1>2, <1>3, <1>6, <2>1, <2>3 DEF ConnRead, Covered
    <2>5. Seen(run)'
      BY <1>1, <1>2, <2>1, <2>4 DEF Seen, InSecond, Kind, EchoRead, RuleRead
    <2>6. QED
      BY <1>1, <2>1, <2>5, ReadKeeps
  <1>7. QED
    BY <1>4, <1>5, <1>6

LEMMA PassEchoKeeps == ASSUME IInv, NEW c \in Cpus, PassEcho(c) PROVE IInv'
  BY IdleSeen, ReadKeeps DEF PassEcho, Return

LEMMA LookupRulesKeeps ==
  ASSUME IInv, NEW c \in Cpus, LookupRules(c)
  PROVE  IInv'
  <1> DEFINE run == cpu[c]
             key == LookupKeys(run.pkt)[First(run.pkt)]
             old == [pc |-> "expired", pkt |-> run.pkt, now |-> run.now, key |-> key]
             new == [pc |-> "track", pkt |-> run.pkt, now |-> run.now, ttl |-> rules[key] - run.now]
  <1>1. /\ run.pc = "rules" /\ UNCHANGED <<clock, maps, todo, asked, until>>
        /\ Goto(c, IF \A k \in KeysOf(run.pkt) : rules[k] = 0 THEN Idle
                   ELSE IF rules[key] < run.now THEN old ELSE new)
    BY DEF LookupRules, At
  <1>2. run \in Runs /\ Seen(run) /\ run # Idle
    BY <1>1, CpuTyped, RunFields
  <1>3. /\ run.pkt \in Flows /\ run.now \in 1..MaxTime /\ run.now \in Nat /\ ~Echo(run.pkt)
        /\ run.now <= clock /\ clock <= run.now + 1
    BY <1>1, <1>2, RunFields, PacketFilterAssumption DEF Seen, Kind, InSecond
  <1>4. CASE \A k \in KeysOf(run.pkt) : rules[k] = 0
    BY <1>1, <1>4, IdleSeen, ReadKeeps
  <1>5. CASE \E k \in KeysOf(run.pkt) : rules[k] # 0
    <2>1. key \in KeysOf(run.pkt) /\ rules[key] # 0
      BY <1>3, <1>5, FirstFound
    <2>2. key \in RuleKeys
      BY <1>3, <2>1, FlowKeys
    <2>3. rules[key] \in Nat /\ until[key] \in Nat /\ rules[key] <= until[key]
      BY <2>2 DEF IInv, TypeOK, EntriesBounded
    <2>4. CASE rules[key] < run.now
      <3>1. PICK next \in Runs : Goto(c, next) /\ next.pc = "expired" /\ next.now = run.now
        BY <1>1, <1>3, <1>5, <2>2, <2>4 DEF Runs
      <3>2. Seen(next)'
        BY <1>1, <1>3, <3>1 DEF Seen, InSecond, Kind, EchoRead, ConnRead, RuleRead
        <3>3. QED
        BY <1>1, <3>1, <3>2, ReadKeeps
    <2>5. CASE ~(rules[key] < run.now)
      <3>1. rules[key] - run.now \in Nat
        BY <1>3, <2>3, <2>5
      <3>2. PICK next \in Runs :
              /\ Goto(c, next) /\ next.pc = "track" /\ next.now = run.now
              /\ next.pkt = run.pkt /\ next.ttl = rules[key] - run.now
        BY <1>1, <1>3, <1>5, <2>5, <3>1 DEF Runs
      <3>3. until'[key] # 0 /\ next.now + next.ttl <= until'[key]
        BY <1>1, <1>3, <2>1, <2>3, <3>2
      <3>4. RuleRead(next)'
        BY <2>1, <3>2, <3>3 DEF RuleRead
      <3>5. Seen(next)'
        BY <1>1, <1>3, <3>2, <3>4 DEF Seen, InSecond, Kind, EchoRead, ConnRead
        <3>6. QED
        BY <1>1, <3>2, <3>5, ReadKeeps
    <2>6. QED
      BY <2>4, <2>5
  <1>6. QED
    BY <1>4, <1>5

\* A program ends with a write to conn_track.
LEMMA ConnWriteKeeps ==
  ASSUME IInv, NEW c \in Cpus, Return(c), UNCHANGED <<clock, rules, todo, asked, until>>,
         conns' \in [CtKeys -> Nat],
         \A k \in CtKeys : conns'[k] # 0 => conns'[k] = conns[k] \/ Covered(k, conns'[k])
  PROVE  IInv'
  <1>1. Grows
    BY QuietGrows
  <1>2. cpu' \in [Cpus -> Runs] /\ \A d \in Cpus : Seen(cpu[d])'
    BY <1>1, IdleSeen, CpuMoves DEF Return, Goto
  <1>3. TypeOK'
    BY <1>2 DEF IInv, TypeOK, Runs
  <1>4. EntriesBounded'
    BY DEF IInv, EntriesBounded
  <1>5. \A k \in CtKeys : conns[k] # 0 => Covered(k, conns[k])
    BY DEF IInv, ConnsCovered
  <1>6. \A k \in CtKeys : conns'[k] # 0 => Covered(k, conns'[k])
    BY <1>5
  <1>7. ConnsCovered'
    BY <1>6 DEF ConnsCovered, Covered
  <1>8. QED
    BY <1>2, <1>3, <1>4, <1>7 DEF IInv

LEMMA DropDeadKeeps == ASSUME IInv, NEW c \in Cpus, DropDead(c) PROVE IInv'
  <1>1. conns \in [CtKeys -> Nat] /\ conns' = [conns EXCEPT ![cpu[c].key] = 0]
    BY DEF IInv, TypeOK, DropDead
  <1>2. conns' \in [CtKeys -> Nat]
        /\ \A k \in CtKeys : conns'[k] # 0 => conns'[k] = conns[k]
    BY <1>1
  <1>3. QED
    BY <1>2, ConnWriteKeeps DEF DropDead

LEMMA PassTrackedKeeps == ASSUME IInv, NEW c \in Cpus, PassTracked(c) PROVE IInv'
  <1> DEFINE run == cpu[c]
  <1>1. /\ conns \in [CtKeys -> Nat] /\ run.pc = "update"
        /\ conns' = [conns EXCEPT ![run.key] = IF @ # 0 THEN run.end ELSE 0]
    BY DEF IInv, TypeOK, PassTracked, At
  <1>2. run.end \in Nat /\ Covered(run.key, run.end)
    BY <1>1, CpuTyped, RunFields DEF Seen, ConnRead
  <1> HIDE DEF run
  <1>3. conns' \in [CtKeys -> Nat]
        /\ \A k \in CtKeys : conns'[k] # 0 => conns'[k] = conns[k] \/ Covered(k, conns'[k])
    BY <1>1, <1>2
  <1>4. QED
    BY <1>3, ConnWriteKeeps DEF PassTracked

LEMMA PassNewKeeps == ASSUME IInv, NEW c \in Cpus, PassNew(c) PROVE IInv'
  <1> DEFINE run == cpu[c]
             key == CtKey(run.pkt)
             end == clock + run.ttl
  <1>1. /\ conns \in [CtKeys -> Nat] /\ run.pc = "track" /\ clock \in Nat
        /\ \/ conns' = [conns EXCEPT ![key] = end]
           \/ \E old \in CtKeys : conns' = [conns EXCEPT ![key] = end, ![old] = 0]
    BY PacketFilterAssumption DEF IInv, TypeOK, PassNew, At
  <1>2. run \in Runs /\ Seen(run) /\ run # Idle
    BY <1>1, CpuTyped, RunFields
  <1>3. /\ run.pkt \in Flows /\ run.now \in Nat /\ run.ttl \in Nat /\ ~Echo(run.pkt)
        /\ clock <= run.now + 1
    BY <1>1, <1>2, RunFields, PacketFilterAssumption DEF Seen, Kind, InSecond
  <1>4. Covered(key, end) /\ end \in Nat /\ key \in CtKeys
    <2>1. PICK r \in KeysOf(run.pkt) : until[r] # 0 /\ run.now + run.ttl <= until[r]
      BY <1>1, <1>2 DEF Seen, RuleRead
    <2>2. r \in Covering(key) /\ key \in CtKeys
      BY <1>3, FlowKeys
    <2>3. until[r] \in Nat
      BY <2>2, CoveringKeys DEF IInv, TypeOK
    <2>4. end <= until[r] + 1 /\ end \in Nat
      BY <1>1, <1>3, <2>1, <2>3
    <2>5. QED
      BY <2>1, <2>2, <2>4 DEF Covered
  <1> HIDE DEF run, key, end
  <1>5. conns' \in [CtKeys -> Nat]
        /\ \A k \in CtKeys : conns'[k] # 0 => conns'[k] = conns[k] \/ Covered(k, conns'[k])
    <2>1. CASE conns' = [conns EXCEPT ![key] = end]
      BY <1>1, <1>4, <2>1
    <2>2. CASE \E old \in CtKeys : conns' = [conns EXCEPT ![key] = end, ![old] = 0]
      <3>1. PICK old \in CtKeys : conns' = [conns EXCEPT ![key] = end, ![old] = 0]
        BY <2>2
      <3>2. QED
        BY <1>1, <1>4, <3>1
    <2>3. QED
      BY <1>1, <2>1, <2>2
  <1>6. QED
    BY <1>5, ConnWriteKeeps DEF PassNew

LEMMA DropExpiredKeeps == ASSUME IInv, NEW c \in Cpus, DropExpired(c) PROVE IInv'
  <1>1. /\ rules \in [RuleKeys -> Nat] /\ rules' = [rules EXCEPT ![cpu[c].key] = 0]
        /\ UNCHANGED <<clock, conns, todo, asked, until>> /\ Return(c)
    BY DEF IInv, TypeOK, DropExpired
  <1>2. Grows
    BY <1>1, QuietGrows
  <1>3. cpu' \in [Cpus -> Runs] /\ \A d \in Cpus : Seen(cpu[d])'
    BY <1>1, <1>2, IdleSeen, CpuMoves DEF Return, Goto
  <1>4. rules' \in [RuleKeys -> Nat] /\ \A k \in RuleKeys : rules'[k] = rules[k] \/ rules'[k] = 0
    BY <1>1
  <1>5. TypeOK'
    BY <1>1, <1>3, <1>4 DEF IInv, TypeOK, Runs
  <1>6. \A k \in RuleKeys : until[k] \in Nat /\ rules[k] <= until[k]
    BY DEF IInv, TypeOK, EntriesBounded
  <1>7. EntriesBounded'
    BY <1>1, <1>4, <1>6 DEF EntriesBounded
  <1>8. QED
    BY <1>1, <1>2, <1>3, <1>5, <1>7, ConnsLater DEF IInv

LEMMA FilterKeeps == ASSUME IInv, NEW c \in Cpus, Filter(c) PROVE IInv'
  BY PassEchoKeeps, DropDeadKeeps, PassTrackedKeeps, LookupRulesKeeps, DropExpiredKeeps,
     PassNewKeeps DEF Filter

LEMMA NextIInv == IInv /\ [Next]_vars => IInv'
  <1> SUFFICES ASSUME IInv, [Next]_vars PROVE IInv'
    OBVIOUS
  <1>1. CASE Tick \/ Restart
    BY <1>1, TickKeeps, RestartKeeps
  <1>2. ASSUME NEW h \in Handlers,
               (\E op \in Operations : ReceiveAOP(h, op)) \/ EbpfRuleAdd(h) \/ EbpfRuleAddFails(h)
        PROVE  IInv'
    BY <1>2, ReceiveAOPKeeps, EbpfRuleAddKeeps, EbpfRuleAddFailsKeeps
  <1>3. ASSUME NEW q \in Replies, SendReply(q) PROVE IInv'
    BY <1>3, SendReplyKeeps
  <1>4. ASSUME NEW c \in Cpus, (\E p \in Flows : Receive(c, p)) \/ Filter(c) PROVE IInv'
    BY <1>4, ReceiveEchoKeeps, ReceiveFlowKeeps, FilterKeeps DEF Receive
  <1>5. CASE UNCHANGED vars
    <2>1. UNCHANGED <<clock, rules, conns, cpu, todo, asked, until>>
      BY <1>5 DEF vars, maps
    <2>2. TypeOK' /\ EntriesBounded' /\ Grows
      BY <2>1, QuietGrows DEF IInv, TypeOK, EntriesBounded
    <2>3. QED
      BY <2>1, <2>2, ConnsLater, OthersSeen DEF IInv
  <1>6. QED
    BY <1>1, <1>2, <1>3, <1>4, <1>5 DEF Next

-----------------------------------------------------------------------------
(* Theorems.                                                               *)

\* The maps and the program runs keep their types; above all the ttl that
\* xdp_white_prog computes for a connection never falls below zero.
THEOREM TypeCorrect == Spec => []TypeOK
  <1>1. IInv => TypeOK
    BY DEF IInv
  <1>2. QED
    BY InitIInv, NextIInv, <1>1, PTL DEF Spec

LEMMA IInvPassed == IInv => PassedInTime
  <1> SUFFICES ASSUME IInv, NEW c \in Cpus, Passing(c)
               PROVE  \E k \in RulesFor(cpu[c].pkt) : until[k] # 0 /\ cpu[c].now <= until[k] + 1
    BY DEF PassedInTime
  <1> DEFINE run == cpu[c]
  <1>1. run \in Runs /\ Seen(run) /\ run.pc \in {"echo", "update", "track"}
    BY CpuTyped DEF Passing
  <1>2. run.pkt \in Flows /\ run.now \in Nat
    BY <1>1, RunFields, PacketFilterAssumption
  <1>3. Echo(run.pkt) <=> run.pc = "echo"
    BY <1>1 DEF Seen, Kind
  <1>4. \A k \in RuleKeys : until[k] \in Nat
    BY DEF IInv, TypeOK
  <1>5. CASE run.pc = "echo"
    <2>1. until[EchoKey(run.pkt)] # 0 /\ run.now <= until[EchoKey(run.pkt)]
      BY <1>1, <1>5 DEF Seen, EchoRead
    <2>2. EchoKey(run.pkt) \in RulesFor(run.pkt) /\ EchoKey(run.pkt) \in RuleKeys
      BY <1>2, <1>3, <1>5, FlowKeys DEF RulesFor
    <2>3. run.now <= until[EchoKey(run.pkt)] + 1
      BY <1>2, <1>4, <2>1, <2>2
    <2>4. QED
      BY <2>1, <2>2, <2>3
  <1>6. CASE run.pc = "update"
    <2>1. /\ run.key \in {CtKey(run.pkt), reverseTuple(CtKey(run.pkt))} /\ run.end \in Nat
          /\ run.now <= run.end /\ Covered(run.key, run.end)
      BY <1>1, <1>6, RunFields DEF Seen, ConnRead
    <2>2. PICK r \in Covering(run.key) : until[r] # 0 /\ run.end <= until[r] + 1
      BY <2>1 DEF Covered
    <2>3. run.key = CtKey(run.pkt)
      BY <1>2, <2>1, <2>2, ReverseUncovered
    <2>4. r \in RulesFor(run.pkt) /\ r \in RuleKeys
      BY <1>3, <1>6, <2>2, <2>3, CoveringKeys DEF RulesFor
    <2>5. run.now <= until[r] + 1
      BY <1>2, <1>4, <2>1, <2>2, <2>4
    <2>6. QED
      BY <2>2, <2>4, <2>5
  <1>7. CASE run.pc = "track"
    <2>1. PICK r \in KeysOf(run.pkt) : until[r] # 0 /\ run.now + run.ttl <= until[r]
      BY <1>1, <1>7 DEF Seen, RuleRead
    <2>2. run.ttl \in Nat
      BY <1>1, <1>7, RunFields
    <2>3. r \in RulesFor(run.pkt) /\ r \in RuleKeys
      BY <1>2, <1>3, <1>7, <2>1, FlowKeys DEF RulesFor
    <2>4. run.now <= until[r] + 1
      BY <1>2, <1>4, <2>1, <2>2, <2>3
    <2>5. QED
      BY <2>1, <2>3, <2>4
  <1>8. QED
    BY <1>1, <1>5, <1>6, <1>7

\* xdp_white_prog lets a packet through only while a rule for its connection lasts,
\* or within the second after that, on any number of CPUs and with any evictions.
THEOREM NothingPassesLate == Spec => []PassedInTime
  BY InitIInv, NextIInv, IInvPassed, PTL DEF Spec
=============================================================================
