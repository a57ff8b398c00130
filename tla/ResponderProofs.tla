--------------------------- MODULE ResponderProofs ---------------------------
(***************************************************************************)
(* Theorems of Responder, for any number of routines, any packets and any  *)
(* values of the limits.                                                   *)
(***************************************************************************)
EXTENDS Responder, FiniteSetTheorems, TLAPS

\* What a routine remembers of the cookie when it took a packet: it is still
\* the current one, or it became the previous one after the packet came.
Remembered ==
    \A w \in Workers :
        LET k == worker[w] IN
        k.pc = "hmac" =>
            /\ k.cur <= cookies.curr
            /\ k.cur = cookies.curr => k.gen = cookies.time
            /\ k.cur + 1 = cookies.curr => k.cur = cookies.prev /\ k.init <= stored

\* RecvThreatCount runs ahead of the refusals since the last good packet only
\* when those have passed the threshold, as they have for whoever clamps it and
\* signals.
Counted ==
    /\ threat <= rejects \/ rejects > ThreatCountBeforeBlock
    /\ Blocking => rejects > ThreatCountBeforeBlock

IInv == TypeOK /\ IsFiniteSet(sent) /\ Remembered /\ Counted

\* The records the model builds have the types of the fields they are put in.
LEMMA IdleType == Idle.pc = "idle" /\ Idle.pkt = NoPacket /\ Idle.init = 0
                  /\ Idle.overload = FALSE /\ Idle.cur = 0 /\ Idle.gen = 0 /\ Idle.time = 0
                  /\ NoPacket \in Packet /\ NoPacket.ts = 0
  BY DEF Idle, NoPacket, Packet, Types

WorkerStates(t) ==
    [pc : {"idle", "hmac", "times", "count", "clamp", "signal",
           "store", "clear", "cookie", "generate", "send"},
     pkt : Packet, init : 0..t, overload : BOOLEAN, cur : Nat, gen : Nat, time : 0..t]

LEMMA IdleInStates == ASSUME NEW t \in Nat PROVE Idle \in WorkerStates(t)
  BY IdleType DEF Idle, WorkerStates

LEMMA InitIInv == Init => IInv
  <1> SUFFICES ASSUME Init PROVE IInv
    OBVIOUS
  <1>1. now \in Nat
    BY ResponderAssumption DEF Init, StartTime
  <1>2. Idle \in WorkerStates(now)
    BY <1>1, IdleInStates
  <1>3. IsFiniteSet(sent)
    BY FS_EmptySet DEF Init
  <1>4. TypeOK
    <2>1. worker \in [Workers -> WorkerStates(now)] /\ \A w \in Workers : worker[w].pkt.ts <= now
      BY <1>1, <1>2, IdleType DEF Init
    <2>2. /\ last \in 0..now /\ threat \in Nat /\ newest \in Nat /\ stored \in 0..now
          /\ rejects \in 0..(ThreatCountBeforeBlock + 1)
          /\ cookies \in [curr : Nat, prev : Nat, time : 0..now]
      BY <1>1, ResponderAssumption DEF Init
    <2>3. QED
      BY <1>1, <2>1, <2>2 DEF Init, TypeOK, WorkerStates
  <1>5. Remembered /\ Counted
    BY IdleType, ResponderAssumption DEF Init, Remembered, Counted, Blocking
  <1>6. QED
    BY <1>3, <1>4, <1>5 DEF IInv

-----------------------------------------------------------------------------
(* Steps that change one routine.                                          *)

\* Only w's routine goes on, with a packet already looked at or none.
Goes(w, pc) ==
    /\ worker' \in [Workers -> WorkerStates(now')]
    /\ \A v \in Workers : worker'[v].pkt.ts <= now'
    /\ worker'[w].pc = pc
    /\ \A v \in Workers : v # w => worker'[v] = worker[v]
    /\ Remembered'

\* A routine that drops its packet or leaves "hmac" disturbs nothing that is
\* remembered of the others.
LEMMA OneWorker ==
    ASSUME IInv, NEW w \in Workers, NEW k \in WorkerStates(now),
           k.pkt.ts <= now, k.pc # "hmac", worker' = [worker EXCEPT ![w] = k],
           UNCHANGED <<now, cookies, stored>>
    PROVE  Goes(w, k.pc)
  <1>1. worker \in [Workers -> WorkerStates(now)]
    BY DEF IInv, TypeOK, WorkerStates
  <1>2. \A v \in Workers : worker'[v] = IF v = w THEN k ELSE worker[v]
    BY <1>1
  <1>3. worker' \in [Workers -> WorkerStates(now')]
    BY <1>1
  <1>4. \A v \in Workers : worker'[v].pkt.ts <= now'
    BY <1>2 DEF IInv, TypeOK
  <1>5. Remembered'
    BY <1>2 DEF IInv, Remembered
  <1>6. QED
    BY <1>2, <1>3, <1>4, <1>5 DEF Goes

LEMMA DiscardStep ==
    ASSUME IInv, NEW w \in Workers, Discard(w), UNCHANGED <<now, cookies, stored>>
    PROVE  Goes(w, "idle")
  <1>1. now \in Nat
    BY DEF IInv, TypeOK
  <1>2. Idle \in WorkerStates(now) /\ Idle.pkt.ts <= now /\ Idle.pc = "idle"
    BY <1>1, IdleInStates, IdleType
  <1>3. QED
    BY <1>2, OneWorker DEF Discard

\* The routine moves on with the same packet.
LEMMA MoveStep ==
    ASSUME IInv, NEW w \in Workers,
           NEW pc \in {"times", "clamp", "signal", "store", "clear", "cookie", "generate", "send"},
           \/ worker' = [worker EXCEPT ![w].pc = pc]
           \/ worker' = [worker EXCEPT ![w].pc = pc, ![w].init = 0]
           \/ worker' = [worker EXCEPT ![w].pc = pc, ![w].cur = 0, ![w].gen = 0]
           \/ \E t \in {0, now} : worker' = [worker EXCEPT ![w].pc = pc, ![w].time = t],
           UNCHANGED <<now, cookies, stored>>
    PROVE  Goes(w, pc)
  <1>1. /\ worker[w] \in WorkerStates(now) /\ worker \in [Workers -> WorkerStates(now)]
        /\ worker[w].pkt.ts <= now /\ now \in Nat
    BY DEF IInv, TypeOK, WorkerStates
  <1>2. PICK k : /\ worker' = [worker EXCEPT ![w] = k]
                 /\ \/ k = [worker[w] EXCEPT !.pc = pc]
                    \/ k = [worker[w] EXCEPT !.pc = pc, !.init = 0]
                    \/ k = [worker[w] EXCEPT !.pc = pc, !.cur = 0, !.gen = 0]
                    \/ \E t \in {0, now} : k = [worker[w] EXCEPT !.pc = pc, !.time = t]
    <2>1. CASE worker' = [worker EXCEPT ![w].pc = pc]
      BY <2>1
    <2>2. CASE worker' = [worker EXCEPT ![w].pc = pc, ![w].init = 0]
      BY <1>1, <2>2
    <2>3. CASE worker' = [worker EXCEPT ![w].pc = pc, ![w].cur = 0, ![w].gen = 0]
      BY <1>1, <2>3
    <2>4. ASSUME NEW t \in {0, now}, worker' = [worker EXCEPT ![w].pc = pc, ![w].time = t]
          PROVE  worker' = [worker EXCEPT ![w] = [worker[w] EXCEPT !.pc = pc, !.time = t]]
      BY <1>1, <2>4
    <2>5. QED
      BY <2>1, <2>2, <2>3, <2>4
  <1>3. k \in WorkerStates(now) /\ k.pkt.ts <= now /\ k.pc = pc
    BY <1>1, <1>2 DEF WorkerStates
  <1>4. QED
    BY <1>2, <1>3, OneWorker

\* A packet whose times are bad leaves only its being counted to do.
LEMMA CountNextStep ==
    ASSUME IInv, NEW w \in Workers, worker' = [worker EXCEPT ![w] = [Idle EXCEPT !.pc = "count"]],
           UNCHANGED <<now, cookies, stored>>
    PROVE  Goes(w, "count")
  <1> DEFINE k == [Idle EXCEPT !.pc = "count"]
  <1>1. now \in Nat /\ Idle \in WorkerStates(now)
    BY IdleInStates DEF IInv, TypeOK
  <1>2. k \in WorkerStates(now) /\ k.pc = "count" /\ k.pkt = Idle.pkt
    BY <1>1 DEF WorkerStates
  <1>3. k.pkt.ts <= now
    BY <1>1, <1>2, IdleType
  <1> HIDE DEF k
  <1>4. QED
    BY <1>2, <1>3, OneWorker DEF k

-----------------------------------------------------------------------------
(* The invariant, one lemma for each group of actions.                     *)

\* The remote only adds packets of the present time.
LEMMA AddPacketStep ==
    ASSUME IInv, NEW type \in Types, NEW cookie \in Nat, AddPacket(type, cookie)
    PROVE  /\ sent' \in SUBSET Packet /\ IsFiniteSet(sent')
           /\ \A p \in sent' : p.ts <= now
           /\ Cardinality(sent) + 1 \in Nat
  <1>1. Cardinality(sent) \in Nat
    BY FS_CardinalityType DEF IInv
  <1> DEFINE p == [type |-> type, id |-> Cardinality(sent) + 1, ts |-> now,
                   cookie |-> IF type = "RKN" THEN cookie ELSE 0]
  <1>2. p \in Packet /\ p.ts = now
    BY <1>1 DEF IInv, TypeOK, Packet
  <1>3. sent' = sent \cup {p}
    BY DEF AddPacket
  <1>4. IsFiniteSet(sent')
    BY <1>3, FS_AddElement DEF IInv
  <1> HIDE DEF p
  <1>5. QED
    BY <1>1, <1>2, <1>3, <1>4 DEF IInv, TypeOK

LEMMA RemoteStep ==
    ASSUME IInv,
           \/ SendKnock \/ KnockEnds \/ \E type \in PeerTypes : SendOther(type)
           \/ \E cok \in coks : RecvCookie(cok)
    PROVE  IInv'
  <1> USE DEF history, connVars
  <1>1. UNCHANGED <<now, coks, worker, connVars, history>>
    BY DEF SendKnock, KnockEnds, SendOther, RecvCookie
  <1>2. Remembered' /\ Counted'
    BY <1>1 DEF IInv, Remembered, Counted, Blocking
  <1>3. "KNK" \in Types /\ "RKN" \in Types /\ PeerTypes \subseteq Types
    BY DEF Types
  <1>4. CASE SendKnock
    <2>1. AddPacket("KNK", agentCookie) /\ agentCookie \in Nat
      BY <1>4 DEF SendKnock, IInv, TypeOK
    <2>2. /\ sent' \in SUBSET Packet /\ IsFiniteSet(sent') /\ \A p \in sent' : p.ts <= now
          /\ Cardinality(sent) + 1 \in Nat
      BY <2>1, <1>3, AddPacketStep
    <2>3. QED
      BY <1>1, <1>2, <1>4, <2>2 DEF SendKnock, IInv, TypeOK
  <1>5. CASE KnockEnds
    BY <1>1, <1>2, <1>5 DEF KnockEnds, IInv, TypeOK
  <1>6. ASSUME NEW type \in PeerTypes, SendOther(type) PROVE IInv'
    <2>1. AddPacket(type, 0) /\ UNCHANGED <<knock, agentCookie>>
      BY <1>6 DEF SendOther
    <2>2. sent' \in SUBSET Packet /\ IsFiniteSet(sent') /\ \A p \in sent' : p.ts <= now
      BY <2>1, <1>3, AddPacketStep
    <2>3. QED
      BY <1>1, <1>2, <2>1, <2>2 DEF IInv, TypeOK
  <1>7. ASSUME NEW cok \in coks, RecvCookie(cok) PROVE IInv'
    <2>1. cok.cookie \in Nat /\ agentCookie' = cok.cookie
      BY <1>7 DEF RecvCookie, IInv, TypeOK
    <2>2. CASE UNCHANGED <<sent, knock>>
      BY <1>1, <1>2, <2>1, <2>2 DEF IInv, TypeOK
    <2>3. CASE /\ AddPacket("RKN", cok.cookie)
               /\ knock' = [pc |-> "RKN", trx |-> Cardinality(sent) + 1]
      <3>1. /\ sent' \in SUBSET Packet /\ IsFiniteSet(sent') /\ \A p \in sent' : p.ts <= now
            /\ Cardinality(sent) + 1 \in Nat
        BY <2>1, <2>3, <1>3, AddPacketStep
      <3>2. QED
        BY <1>1, <1>2, <2>1, <2>3, <3>1 DEF IInv, TypeOK
    <2>4. QED
      BY <1>7, <2>2, <2>3 DEF RecvCookie
  <1>8. QED
    BY <1>4, <1>5, <1>6, <1>7

LEMMA TickStep == ASSUME IInv, Tick PROVE IInv'
  <1> USE DEF history, connVars, remoteVars
  <1>1. /\ now \in Nat /\ now' = now + 1
        /\ UNCHANGED <<sent, knock, agentCookie, coks, worker, connVars, history>>
    BY DEF Tick, IInv, TypeOK
  <1>2. 0..now \subseteq 0..now' /\ \A t \in Nat : t <= now => t <= now'
    BY <1>1
  <1>3. worker \in [Workers -> WorkerStates(now)] /\ WorkerStates(now) \subseteq WorkerStates(now')
    BY <1>2 DEF IInv, TypeOK, WorkerStates
  <1>4. worker' \in [Workers -> WorkerStates(now')]
    BY <1>1, <1>3
  <1>5. cookies' \in [curr : Nat, prev : Nat, time : 0..now'] /\ last' \in 0..now' /\ stored' \in 0..now'
    BY <1>1, <1>2 DEF IInv, TypeOK
  <1>6. (\A p \in sent' : p.ts <= now') /\ (\A w \in Workers : worker'[w].pkt.ts <= now')
    BY <1>1, <1>2, <1>3 DEF IInv, TypeOK, WorkerStates, Packet
  <1>7. TypeOK'
    BY <1>1, <1>4, <1>5, <1>6 DEF IInv, TypeOK, WorkerStates
  <1>8. QED
    BY <1>1, <1>7 DEF IInv, Remembered, Counted, Blocking

LEMMA TakeStep ==
    ASSUME IInv, NEW w \in Workers, NEW p \in sent, NEW overload \in OverloadStates,
           Take(w, p, overload)
    PROVE  IInv'
  <1> USE DEF history, connVars, remoteVars
  <1> DEFINE k == [pc |-> "hmac", pkt |-> p, init |-> now, overload |-> overload,
                   cur |-> cookies.curr, gen |-> cookies.time, time |-> 0]
  <1>1. worker' = [worker EXCEPT ![w] = k]
    BY DEF Take
  <1>2. UNCHANGED <<now, sent, knock, agentCookie, coks, connVars, history>>
    BY DEF Take
  <1>3. k \in WorkerStates(now) /\ k.pkt.ts <= now
    BY ResponderAssumption DEF IInv, TypeOK, WorkerStates
  <1>4. k.cur = cookies.curr /\ k.gen = cookies.time /\ k.pc = "hmac"
    OBVIOUS
  <1>5. worker \in [Workers -> WorkerStates(now)] /\ cookies.curr \in Nat
    BY DEF IInv, TypeOK, WorkerStates
  <1> HIDE DEF k
  <1>6. \A v \in Workers : worker'[v] = IF v = w THEN k ELSE worker[v]
    BY <1>1, <1>5
  <1>7. /\ worker' \in [Workers -> WorkerStates(now)]
        /\ \A v \in Workers : worker'[v].pkt.ts <= now
    BY <1>1, <1>3, <1>5, <1>6 DEF IInv, TypeOK
  <1>8. Remembered'
    BY <1>2, <1>4, <1>5, <1>6 DEF IInv, Remembered
  <1>9. QED
    BY <1>2, <1>4, <1>6, <1>7, <1>8 DEF IInv, TypeOK, WorkerStates, Counted, Blocking

\* A step of a routine that counts no threat.
LEMMA PacketStep ==
    ASSUME IInv, NEW w \in Workers,
           \/ CheckPacket(w) \/ RejectPeer(w) \/ TimesBad(w) \/ TimesGood(w) \/ StoreTime(w)
           \/ ReadClock(w) \/ SendCookie(w)
    PROVE  IInv'
  <1> USE DEF history, connVars, remoteVars
  <1>1. UNCHANGED <<now, sent, knock, agentCookie, threat, cookies, blocked, stored, rejects>>
    BY DEF CheckPacket, RejectPeer, TimesBad, TimesGood, StoreTime, ReadClock, SendCookie
  <1>2. PICK pc \in {"idle", "times", "count", "store", "clear", "generate"} : Goes(w, pc)
    <2>1. CASE Discard(w)
      BY <2>1, <1>1, DiscardStep
    <2>2. ASSUME NEW pc \in {"store", "clear"},
                 \/ worker' = [worker EXCEPT ![w].pc = pc]
                 \/ worker' = [worker EXCEPT ![w].pc = pc, ![w].init = 0]
          PROVE  Goes(w, pc)
      BY <2>2, <1>1, MoveStep
    <2>3. CASE worker' = [worker EXCEPT ![w].pc = "times", ![w].cur = 0, ![w].gen = 0]
      BY <2>3, <1>1, MoveStep
    <2>4. CASE worker' = [worker EXCEPT ![w].pc = "generate", ![w].time = now]
      BY <2>4, <1>1, MoveStep
    <2>5. CASE worker' = [worker EXCEPT ![w] = [Idle EXCEPT !.pc = "count"]]
      BY <2>5, <1>1, CountNextStep
    <2>6. QED
      BY <2>1, <2>2, <2>3, <2>4, <2>5
      DEF CheckPacket, RejectPeer, TimesBad, TimesGood, StoreTime, ReadClock, SendCookie, GoOn
  <1>3. coks' \in SUBSET [trx : Nat, cookie : Nat]
    <2>1. CASE UNCHANGED coks
      BY <2>1 DEF IInv, TypeOK
    <2>2. CASE SendCookie(w)
      <3>1. worker[w].pkt.id \in Nat /\ cookies.curr \in Nat
        BY DEF IInv, TypeOK, Packet
      <3>2. QED
        BY <2>2, <3>1 DEF SendCookie, IInv, TypeOK
    <2>3. QED
      BY <2>1, <2>2 DEF CheckPacket, RejectPeer, TimesBad, TimesGood, StoreTime, ReadClock
  <1>4. last' \in 0..now /\ newest' \in Nat /\ disordered' \in BOOLEAN
    <2>1. worker[w].pkt.ts \in 0..now
      BY DEF IInv, TypeOK, Packet
    <2>2. CASE StoreTime(w)
      <3>1. /\ last' = worker[w].pkt.ts /\ disordered' \in BOOLEAN
            /\ newest' \in {worker[w].pkt.ts, newest}
        BY <2>2, Zenon DEF StoreTime
      <3>2. QED
        BY <2>1, <3>1 DEF IInv, TypeOK
    <2>3. CASE ~StoreTime(w)
      <3>1. last' = last /\ newest' = newest /\ disordered' \in {disordered, disordered \/ Storing(w) # {}}
        BY <2>3 DEF CheckPacket, RejectPeer, TimesBad, TimesGood, ReadClock, SendCookie
      <3>2. QED
        BY <3>1 DEF IInv, TypeOK
    <2>4. QED
      BY <2>2, <2>3
  <1>5. Counted'
    BY <1>1, <1>2 DEF IInv, Counted, Goes, Blocking
  <1>6. QED
    BY <1>1, <1>2, <1>3, <1>4, <1>5 DEF IInv, TypeOK, WorkerStates, Goes

\* The steps of a refusal, from its counting to the signal.
LEMMA ThreatStep ==
    ASSUME IInv, NEW w \in Workers, CountThreat(w) \/ ClampThreat(w) \/ SendBlockSignal(w)
    PROVE  IInv' /\ BlockStep
  <1> USE DEF history, connVars, remoteVars
  <1>1. UNCHANGED <<now, sent, knock, agentCookie, coks, last, cookies, stored, newest, disordered>>
    BY DEF CountThreat, ClampThreat, SendBlockSignal
  <1>2. /\ threat \in Nat /\ rejects \in 0..(ThreatCountBeforeBlock + 1)
        /\ blocked \in BOOLEAN /\ ThreatCountBeforeBlock \in Nat
    BY ResponderAssumption DEF IInv, TypeOK
  <1>3. CASE CountThreat(w)
    <2>1. PICK pc \in {"idle", "clamp"} :
            Goes(w, pc) /\ (pc = "clamp" => threat' > ThreatCountBeforeBlock)
      BY <1>1, <1>3, DiscardStep, MoveStep DEF CountThreat
    <2>2. /\ threat' = threat + 1 /\ blocked' = blocked
          /\ rejects' = IF rejects > ThreatCountBeforeBlock THEN rejects ELSE rejects + 1
      BY <1>3 DEF CountThreat
    <2>3. threat' \in Nat /\ rejects' \in 0..(ThreatCountBeforeBlock + 1)
      BY <1>2, <2>2
    <2>4. threat' <= rejects' \/ rejects' > ThreatCountBeforeBlock
      BY <1>2, <2>2 DEF IInv, Counted
    <2>5. Blocking' => rejects' > ThreatCountBeforeBlock
      <3>1. CASE pc = "clamp"
        BY <1>2, <2>1, <2>2, <2>3, <2>4, <3>1
      <3>2. CASE pc = "idle"
        <4>1. Blocking' => Blocking
          BY <2>1, <3>2 DEF Blocking, Goes
        <4>2. QED
          BY <1>2, <2>2, <4>1 DEF IInv, Counted
      <3>3. QED
        BY <3>1, <3>2
    <2>6. BlockStep
      BY <2>2 DEF BlockStep
    <2>7. QED
      BY <1>1, <1>2, <2>1, <2>2, <2>3, <2>4, <2>5, <2>6 DEF IInv, TypeOK, WorkerStates, Counted, Goes
  <1>4. CASE ClampThreat(w) \/ SendBlockSignal(w)
    <2>1. rejects > ThreatCountBeforeBlock /\ rejects' = rejects
      BY <1>4 DEF ClampThreat, SendBlockSignal, IInv, Counted, Blocking
    <2>2. PICK pc \in {"idle", "signal"} : Goes(w, pc)
      BY <1>1, <1>4, DiscardStep, MoveStep DEF ClampThreat, SendBlockSignal
    <2>3. threat' \in Nat /\ blocked' \in BOOLEAN
      BY <1>2, <1>4 DEF ClampThreat, SendBlockSignal
    <2>4. Counted' /\ BlockStep
      BY <2>1 DEF Counted, BlockStep
    <2>5. QED
      BY <1>1, <1>2, <2>1, <2>2, <2>3, <2>4 DEF IInv, TypeOK, WorkerStates, Goes
  <1>5. QED
    BY <1>3, <1>4

LEMMA ClearThreatStep == ASSUME IInv, NEW w \in Workers, ClearThreat(w) PROVE IInv'
  <1> USE DEF history, connVars, remoteVars
  <1>1. /\ UNCHANGED <<now, sent, knock, agentCookie, coks, last, cookies, blocked, stored,
                       newest, disordered>>
        /\ threat' = 0 /\ rejects' = IF Blocking THEN rejects ELSE 0
    BY DEF ClearThreat
  <1>2. PICK pc \in {"idle", "cookie"} : Goes(w, pc)
    BY <1>1, DiscardStep, MoveStep DEF ClearThreat, Proceed
  <1>3. rejects \in 0..(ThreatCountBeforeBlock + 1) /\ ThreatCountBeforeBlock \in Nat
    BY ResponderAssumption DEF IInv, TypeOK
  <1>4. rejects' \in 0..(ThreatCountBeforeBlock + 1)
    BY <1>1, <1>3
  <1>5. Counted'
    <2>1. Blocking' => Blocking
      BY <1>2 DEF Blocking, Goes
    <2>2. QED
      BY <1>1, <1>3, <1>4, <2>1 DEF IInv, Counted
  <1>6. QED
    BY <1>1, <1>2, <1>4, <1>5 DEF IInv, TypeOK, WorkerStates, Goes

\* A new cookie is stored after every packet already taken came, and pushes the
\* one such a packet may carry to prev.
LEMMA GenerateCookieStep == ASSUME IInv, NEW w \in Workers, GenerateCookie(w) PROVE IInv'
  <1> USE DEF history, connVars, remoteVars
  <1>1. UNCHANGED <<now, sent, knock, agentCookie, coks, last, threat, blocked, newest,
                    disordered, rejects>>
    BY DEF GenerateCookie
  <1>2. worker \in [Workers -> WorkerStates(now)] /\ now \in Nat
        /\ cookies \in [curr : Nat, prev : Nat, time : 0..now]
    BY DEF IInv, TypeOK, WorkerStates
  <1> DEFINE k == [worker[w] EXCEPT !.pc = "send", !.time = 0]
  <1>3. worker' = [worker EXCEPT ![w] = k]
    BY <1>2 DEF GenerateCookie
  <1>4. /\ k \in WorkerStates(now) /\ k.pkt = worker[w].pkt /\ k.pc = "send"
        /\ worker[w].time \in 0..now
    <2>1. worker[w] \in WorkerStates(now) /\ 0 \in 0..now
      BY <1>2
    <2>2. QED
      BY <2>1 DEF WorkerStates
  <1> HIDE DEF k
  <1>5. \A v \in Workers : worker'[v] = IF v = w THEN k ELSE worker[v]
    BY <1>2, <1>3
  <1>6. worker' \in [Workers -> WorkerStates(now)] /\ \A v \in Workers : worker'[v].pkt.ts <= now
    BY <1>2, <1>3, <1>4, <1>5 DEF IInv, TypeOK
  <1>7. cookies' \in [curr : Nat, prev : Nat, time : 0..now] /\ stored' \in 0..now
    BY <1>2, <1>4 DEF GenerateCookie, IInv, TypeOK
  <1>8. Remembered'
    <2> SUFFICES ASSUME NEW v \in Workers, worker[v].pc = "hmac"
                 PROVE  /\ worker[v].cur <= cookies'.curr
                        /\ worker[v].cur = cookies'.curr => worker[v].gen = cookies'.time
                        /\ worker[v].cur + 1 = cookies'.curr =>
                              worker[v].cur = cookies'.prev /\ worker[v].init <= stored'
      BY <1>4, <1>5 DEF Remembered
    <2>1. worker[v].cur \in Nat /\ worker[v].init \in 0..now /\ worker[v].cur <= cookies.curr
      BY <1>2 DEF IInv, Remembered, WorkerStates
    <2>2. CASE UNCHANGED <<cookies, stored>>
      BY <2>2 DEF IInv, Remembered
    <2>3. CASE /\ cookies' = [curr |-> cookies.curr + 1, prev |-> cookies.curr,
                              time |-> worker[w].time]
               /\ stored' = now
      BY <1>2, <2>1, <2>3
    <2>4. QED
      BY <2>2, <2>3 DEF GenerateCookie
  <1>9. Counted'
    BY <1>1, <1>4, <1>5 DEF IInv, Counted, Blocking
  <1>10. QED
    BY <1>1, <1>6, <1>7, <1>8, <1>9 DEF IInv, TypeOK, WorkerStates

-----------------------------------------------------------------------------
(* Theorems.                                                               *)

LEMMA NextIInv == IInv /\ [Next]_vars => IInv'
  <1> SUFFICES ASSUME IInv, [Next]_vars PROVE IInv'
    OBVIOUS
  <1>1. CASE Tick
    BY <1>1, TickStep
  <1>2. CASE \/ SendKnock \/ KnockEnds \/ \E type \in PeerTypes : SendOther(type)
             \/ \E cok \in coks : RecvCookie(cok)
    BY <1>2, RemoteStep
  <1>3. CASE \E w \in Workers, p \in sent, overload \in OverloadStates : Take(w, p, overload)
    BY <1>3, TakeStep
  <1>4. ASSUME NEW w \in Workers,
               \/ CheckPacket(w) \/ RejectPeer(w) \/ TimesBad(w) \/ TimesGood(w) \/ StoreTime(w)
               \/ ReadClock(w) \/ SendCookie(w)
        PROVE  IInv'
    BY <1>4, PacketStep
  <1>5. ASSUME NEW w \in Workers, CountThreat(w) \/ ClampThreat(w) \/ SendBlockSignal(w)
        PROVE  IInv'
    BY <1>5, ThreatStep
  <1>6. ASSUME NEW w \in Workers, ClearThreat(w) \/ GenerateCookie(w)
        PROVE  IInv'
    BY <1>6, ClearThreatStep, GenerateCookieStep
  <1>7. CASE UNCHANGED vars
    <2>1. IsFiniteSet(sent') /\ TypeOK'
      BY <1>7 DEF vars, connVars, remoteVars, history, IInv, TypeOK
    <2>2. Remembered' /\ Counted'
      BY <1>7 DEF vars, connVars, remoteVars, history, IInv, Remembered, Counted, Blocking
    <2>3. QED
      BY <2>1, <2>2 DEF IInv
  <1>8. QED
    BY <1>1, <1>2, <1>3, <1>4, <1>5, <1>6, <1>7 DEF Next

THEOREM Invariance == Spec => []IInv
  BY InitIInv, NextIInv, PTL DEF Spec

\* Every field keeps its type and no recorded time passes the clock: the
\* stored send time, the cookie's time and the receive times.
THEOREM TypeCorrect == Spec => []TypeOK
<1>1. IInv => TypeOK
  BY DEF IInv
<1>2. QED
  BY <1>1, Invariance, PTL

\* An RKN held up in the queue is not refused because the cookie was replaced
\* meanwhile, for any number of routines and any two time limits, when whoever
\* replaced it was not held up a round trip before the lock.
THEOREM HeldCookieAlwaysWorks == Spec => []HeldCookieWorks
<1>1. IInv => HeldCookieWorks
  <2> SUFFICES ASSUME IInv, NEW w \in Workers, Rejoin(worker[w]),
                      worker[w].pkt.cookie = worker[w].cur,
                      worker[w].init >= worker[w].gen + CookieRoundTripTime,
                      \/ cookies.curr = worker[w].cur
                      \/ /\ cookies.curr = worker[w].cur + 1
                         /\ stored < cookies.time + CookieRoundTripTime
               PROVE  Passes(worker[w])
    BY DEF HeldCookieWorks
  <2>1. /\ worker[w].cur \in Nat /\ worker[w].gen \in Nat /\ worker[w].init \in Nat
        /\ cookies.curr \in Nat /\ cookies.time \in Nat /\ CookieRoundTripTime \in Nat \ {0}
        /\ stored \in Nat
    BY ResponderAssumption DEF IInv, TypeOK
  <2>2. worker[w].overload /\ worker[w].pkt.type = "RKN"
    BY DEF Rejoin
  <2>3. CheckHMAC(worker[w], TRUE)
    BY <2>1 DEF IInv, Remembered, Rejoin, CheckHMAC
  <2>4. QED
    BY <2>2, <2>3 DEF Passes, IsAllowedAtOverload
<1>2. QED
  BY <1>1, Invariance, PTL

\* No connection is blocked before more than ThreatCountBeforeBlock refusals, with
\* no good packet between them but one that came after the threshold was passed,
\* however many routines count, clamp and clear at the same time.
THEOREM BlockAlwaysEarned == Spec => BlockEarned
<1>1. IInv /\ [Next]_vars => BlockStep
  <2> SUFFICES ASSUME IInv, [Next]_vars PROVE BlockStep
    OBVIOUS
  <2> USE DEF history, connVars, remoteVars
  <2>1. CASE blocked' = blocked
    BY <2>1 DEF BlockStep
  <2>2. ASSUME NEW w \in Workers, SendBlockSignal(w) PROVE BlockStep
    BY <2>2, ThreatStep
  <2>3. QED
    BY <2>1, <2>2
    DEF Next, vars, Tick, SendKnock, KnockEnds, SendOther, RecvCookie, Take, CheckPacket,
        RejectPeer, TimesBad, CountThreat, ClampThreat, TimesGood, StoreTime, ClearThreat,
        ReadClock, GenerateCookie, SendCookie
<1>2. QED
  BY <1>1, Invariance, PTL DEF Spec, BlockEarned

\* Unless two packets have overtaken each other: no packet accepted and checked was
\* sent after LastRemoteSendTime, at most one is between its test and its store,
\* and it is later by the minimal interval if it was compared.
Ordered ==
    ~disordered =>
        /\ newest <= last
        /\ \A w \in Workers : worker[w].pc = "store" =>
             /\ \A v \in Workers : worker[v].pc = "store" => v = w
             /\ ShouldCheckRecvAttack(worker[w].pkt.type)
                  => worker[w].pkt.ts >= last + MinimalRecvInterval

LEMMA OrderedStep == ASSUME IInv, Ordered, [Next]_vars PROVE Ordered' /\ AcceptStep
  <1> USE DEF history, connVars, remoteVars
  <1>1. /\ worker \in [Workers -> WorkerStates(now)]
        /\ last \in Nat /\ newest \in Nat /\ MinimalRecvInterval \in Nat \ {0}
        /\ \A w \in Workers : worker[w].pkt.ts \in Nat
        /\ disordered \in BOOLEAN
    BY ResponderAssumption DEF IInv, TypeOK, WorkerStates, Packet
  <1>2. ASSUME UNCHANGED <<last, newest, disordered>>,
               \A w \in Workers : worker'[w] = worker[w] \/ worker'[w].pc # "store"
        PROVE  Ordered'
    BY <1>2 DEF Ordered
  <1>3. ASSUME NEW w \in Workers, StoreTime(w)
        PROVE  Ordered' /\ AcceptStep
    <2> DEFINE ts == worker[w].pkt.ts
               checked == ShouldCheckRecvAttack(worker[w].pkt.type)
    <2>1. /\ last' = ts /\ ts \in Nat /\ worker[w].pc = "store"
          /\ newest' = IF checked /\ ts > newest THEN ts ELSE newest
          /\ disordered' = IF ts < newest THEN TRUE ELSE disordered /\ Storing(w) # {}
          /\ worker' = [worker EXCEPT ![w].pc = "clear"]
      BY <1>1, <1>3 DEF StoreTime
    <2>2. \A v \in Workers : worker'[v].pc = "store" => v \in Storing(w)
      BY <1>1, <2>1 DEF Storing, WorkerStates
    <2>3. ~disordered => Storing(w) = {}
      BY <2>1 DEF Ordered, Storing
    <2>4. Ordered'
      <3> SUFFICES ASSUME ~disordered'
                   PROVE  newest' <= last' /\ \A v \in Workers : worker'[v].pc # "store"
        BY DEF Ordered
      <3>1. ts >= newest /\ Storing(w) = {}
        BY <1>1, <2>1, <2>3
      <3>2. QED
        BY <1>1, <2>1, <2>2, <3>1
    <2>5. ~disordered /\ checked => ts > newest
      BY <1>1, <2>1 DEF Ordered
    <2>6. AcceptStep
      <3> SUFFICES ASSUME ~disordered, NEW v \in Workers, StoreTime(v),
                          ShouldCheckRecvAttack(worker[v].pkt.type)
                   PROVE  worker[v].pkt.ts > newest
        BY DEF AcceptStep, InOrder
      <3>1. v = w
        BY <2>1 DEF Ordered, StoreTime
      <3>2. QED
        BY <2>5, <3>1
    <2>7. QED
      BY <2>4, <2>6
  <1>4. ASSUME NEW w \in Workers, TimesGood(w)
        PROVE  Ordered'
    <2>1. /\ UNCHANGED <<last, newest>> /\ disordered' = (disordered \/ Storing(w) # {})
          /\ worker' = [worker EXCEPT ![w].pc = "store", ![w].init = 0]
      BY <1>4 DEF TimesGood
    <2>2. /\ worker'[w].pkt = worker[w].pkt
          /\ \A v \in Workers : v # w => worker'[v] = worker[v]
      BY <1>1, <2>1 DEF WorkerStates
    <2>3. ShouldCheckRecvAttack(worker[w].pkt.type) => worker[w].pkt.ts >= last + MinimalRecvInterval
      BY <1>1, <1>4 DEF TimesGood, IsThreat
    <2>4. SUFFICES ASSUME ~disordered, Storing(w) = {} PROVE Ordered'
      BY <2>1 DEF Ordered
    <2>5. \A v \in Workers : worker'[v].pc = "store" => v = w
      BY <2>2, <2>4 DEF Storing
    <2>6. QED
      BY <2>1, <2>2, <2>3, <2>4, <2>5 DEF Ordered
  <1>5. ASSUME NEW w \in Workers,
               \/ CheckPacket(w) \/ RejectPeer(w) \/ TimesBad(w) \/ CountThreat(w)
               \/ ClampThreat(w) \/ SendBlockSignal(w) \/ ClearThreat(w) \/ ReadClock(w)
               \/ GenerateCookie(w) \/ SendCookie(w)
        PROVE  Ordered'
    <2>1. UNCHANGED <<last, newest, disordered>>
      BY <1>5 DEF CheckPacket, RejectPeer, TimesBad, CountThreat, ClampThreat, SendBlockSignal,
                  ClearThreat, ReadClock, GenerateCookie, SendCookie
    <2>2. worker'[w].pc # "store" /\ \A v \in Workers : v # w => worker'[v] = worker[v]
      <3>1. CASE Discard(w)
        BY <1>1, <3>1, IdleType DEF Discard
      <3>2. CASE GoOn(w)
        BY <1>1, <3>2 DEF GoOn, WorkerStates
      <3>3. CASE TimesBad(w)
        BY <1>1, <3>3 DEF TimesBad, Idle
      <3>4. CASE CountThreat(w) \/ ClampThreat(w) \/ ClearThreat(w)
        BY <1>1, <3>1, <3>4 DEF CountThreat, ClampThreat, ClearThreat, Proceed, WorkerStates
      <3>5. CASE ReadClock(w) \/ GenerateCookie(w)
        BY <1>1, <3>5 DEF ReadClock, GenerateCookie, WorkerStates
      <3>6. QED
        BY <1>5, <3>1, <3>2, <3>3, <3>4, <3>5 DEF CheckPacket, RejectPeer, SendBlockSignal, SendCookie
    <2>3. QED
      BY <1>2, <2>1, <2>2
  <1>6. ASSUME NEW w \in Workers, NEW p \in sent, NEW overload \in OverloadStates,
               Take(w, p, overload)
        PROVE  Ordered'
    BY <1>1, <1>2, <1>6 DEF Take
  <1>7. ASSUME UNCHANGED <<last, newest, disordered, worker>>
        PROVE  Ordered'
    BY <1>7 DEF Ordered
  <1>8. Ordered'
    BY <1>3, <1>4, <1>5, <1>6, <1>7 DEF Next, vars, Tick, SendKnock, KnockEnds, SendOther, RecvCookie
  <1>9. AcceptStep
    BY <1>3 DEF AcceptStep, InOrder
  <1>10. QED
    BY <1>8, <1>9

\* Of the packets that shouldCheckRecvAttack covers none is accepted twice, and none after
\* one that was sent later, for any routines, messages, clock, delays and limits, unless
\* the two were tested before either was stored, or an NHP_ART has moved the time back, and
\* no later packet was stored since.
THEOREM ReplayNeverAccepted == Spec => AcceptedInOrder
<1>1. Init => Ordered
  BY IdleType, ResponderAssumption DEF Init, Ordered
<1>2. IInv /\ Ordered /\ [Next]_vars => Ordered' /\ AcceptStep
  BY OrderedStep
<1>3. QED
  BY <1>1, <1>2, Invariance, PTL DEF Spec, AcceptedInOrder
=============================================================================
