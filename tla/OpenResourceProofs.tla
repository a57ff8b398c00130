------------------------- MODULE OpenResourceProofs -------------------------
(***************************************************************************)
(* Theorems of OpenResource, for any resources, entries, times and number  *)
(* of requests.                                                            *)
(***************************************************************************)
EXTENDS OpenResource, TLAPS

\* A request is sent once, in the past, and waits no longer than its timeout.
Waits ==
    \A r \in Reqs :
        /\ agent[r].sent <= now
        /\ agent[r].pc = "waiting" => now <= agent[r].sent + AgentTimeout
        /\ agent[r].pc = "acked" => agent[r].acked <= agent[r].sent + AgentTimeout

\* Nothing happens for a request before the agent has sent it and the server
\* has asked the ACs.
InTurn ==
    \A r \in Reqs :
        /\ agent[r].pc = "none" => server[r] = "none"
        /\ server[r] \in {"none", "received"}
             => \A s \in Resources : ac[<<r, s>>].pc = "none" /\ trx[<<r, s>>].pc = "none"

\* What is reported as open is what the AC has carried out to the end.
Reported ==
    /\ \A o \in Reqs \X Resources : trx[o].pc = "ok" => ac[o].pc = "added"
    /\ \A o \in Reqs \X Resources : ac[o].pc = "added" => ac[o].next = Entries + 1
    /\ \A o \in Reqs \X Resources : ac[o].pc \in {"none", "sent"} => ac[o].next = 1
    /\ \A r \in Reqs : agent[r].pc = "acked" =>
         \A s \in agent[r].hosts : trx[<<r, s>>].pc = "ok"

\* Every entry a request has added so far was last added by a request that was
\* sent, and lasts from the sending of the first on for the time it asks for,
\* unless the last asked for less.
Lasting ==
    \A r \in Reqs, s \in Resources, i \in EntryIds :
        i < ac[<<r, s>>].next =>
            /\ setBy[<<s, i>>] \in Reqs /\ agent[setBy[<<s, i>>]].pc # "none"
            /\ SetForAsLong(r, s, i) => expire[<<s, i>>] >= agent[r].sent + AOPOpenTime(agent[r])

IInv == TypeOK /\ Waits /\ InTurn /\ Reported /\ Lasting

LEMMA Times ==
    ASSUME NEW req \in AgentRecords
    PROVE  Asked(req) \in Nat /\ AOPOpenTime(req) \in Nat
  <1>1. req.group \in Groups /\ OpenTime[req.group] \in Nat /\ DefaultIpOpenTime \in Nat
    BY OpenResourceAssumption DEF AgentRecords
  <1>2. Asked(req) \in Nat
    BY <1>1 DEF Asked
  <1>3. QED
    BY <1>2, OpenResourceAssumption DEF AOPOpenTime

\* A request that has added an entry was sent by the agent.
LEMMA AddedAfterSent ==
    ASSUME TypeOK, InTurn, Reported, NEW r \in Reqs, NEW s \in Resources, ac[<<r, s>>].next # 1
    PROVE  agent[r].pc # "none"
  <1>1. ac[<<r, s>>].pc \notin {"none", "sent"}
    BY DEF Reported
  <1>2. QED
    BY <1>1 DEF InTurn

\* A step that adds no entry and leaves the requests sent what they are.
LEMMA LastingKept ==
    ASSUME TypeOK, InTurn, Reported, Lasting, UNCHANGED <<expire, setBy>>,
           \A r \in Reqs : agent[r].pc # "none" =>
               /\ agent'[r].pc # "none" /\ agent'[r].kind = agent[r].kind
               /\ agent'[r].group = agent[r].group /\ agent'[r].sent = agent[r].sent,
           \A r \in Reqs, s \in Resources : ac'[<<r, s>>].next = ac[<<r, s>>].next
    PROVE  Lasting'
  <1> SUFFICES ASSUME NEW r \in Reqs, NEW s \in Resources, NEW i \in EntryIds,
                      i < ac[<<r, s>>].next
               PROVE  /\ setBy[<<s, i>>] \in Reqs /\ agent'[setBy[<<s, i>>]].pc # "none"
                      /\ SetForAsLong(r, s, i)' =>
                           expire[<<s, i>>] >= agent'[r].sent + AOPOpenTime(agent'[r])
    BY DEF Lasting
  <1>1. agent[r].pc # "none"
    BY AddedAfterSent DEF EntryIds
  <1>2. setBy[<<s, i>>] \in Reqs /\ agent[setBy[<<s, i>>]].pc # "none"
    BY DEF Lasting
  <1>3. /\ Asked(agent'[r]) = Asked(agent[r])
        /\ Asked(agent'[setBy[<<s, i>>]]) = Asked(agent[setBy[<<s, i>>]])
        /\ AOPOpenTime(agent'[r]) = AOPOpenTime(agent[r])
    BY <1>1, <1>2 DEF Asked, AOPOpenTime
  <1>4. SetForAsLong(r, s, i)' => SetForAsLong(r, s, i)
    BY <1>3 DEF SetForAsLong
  <1>5. QED
    BY <1>1, <1>2, <1>3, <1>4 DEF Lasting

LEMMA InitIInv == Init => IInv
  <1> SUFFICES ASSUME Init PROVE IInv
    OBVIOUS
  <1>1. TypeOK
    <2>1. 1 \in 1..(Entries + 1)
      BY OpenResourceAssumption
    <2>2. AnyGroup \in Groups
      BY OpenResourceAssumption DEF AnyGroup
    <2>3. QED
      BY <2>1, <2>2 DEF Init, TypeOK, AgentRecords, TrxRecords, ACRecords
  <1>2. Waits /\ InTurn
    BY DEF Init, Waits, InTurn
  <1>3. Reported
    BY DEF Init, Reported
  <1>5. Lasting
    <2>1. \A r \in Reqs, s \in Resources : ac[<<r, s>>].next = 1
      BY DEF Init
    <2>2. \A i \in EntryIds : ~(i < 1)
      BY DEF EntryIds
    <2>3. QED
      BY <2>1, <2>2 DEF Lasting
  <1>6. QED
    BY <1>1, <1>2, <1>3, <1>5 DEF IInv

-----------------------------------------------------------------------------
(* Steps of the clock and the agent.                                       *)

LEMMA TickKeeps == ASSUME IInv, Tick PROVE IInv'
  <1> USE DEF IInv
  <1>1. now \in Nat /\ now' = now + 1 /\ UNCHANGED <<agent, server, trx, ac, expire, tempExpire, setBy>>
    BY DEF TypeOK, Tick
  <1>2. TypeOK' /\ InTurn' /\ Reported'
    BY <1>1 DEF TypeOK, InTurn, Reported
  <1>3. Waits'
    BY <1>1, OpenResourceAssumption DEF Waits, Tick, AgentDue, TypeOK, AgentRecords
  <1>5. Lasting'
    BY <1>1, LastingKept DEF TypeOK
  <1>6. QED
    BY <1>2, <1>3, <1>5

LEMMA SendKeeps ==
    ASSUME IInv, NEW r \in Reqs, NEW kind \in {"KNK", "EXT"}, NEW group \in Groups,
           Send(r, kind, group)
    PROVE  IInv'
  <1> USE DEF IInv
  <1>1. /\ agent[r].pc = "none" /\ server[r] = "none"
        /\ \A s \in Resources : /\ ac[<<r, s>>].pc = "none" /\ ac[<<r, s>>].next = 1
                                /\ trx[<<r, s>>].pc = "none"
    BY DEF Send, InTurn, Reported
  <1>2. /\ agent'[r] = [pc |-> "waiting", kind |-> kind, group |-> group,
                         sent |-> now, acked |-> 0, hosts |-> {}]
        /\ \A q \in Reqs : q # r => agent'[q] = agent[q]
        /\ UNCHANGED <<now, server, trx, ac, expire, tempExpire, setBy>>
    BY DEF Send, TypeOK
  <1>3. TypeOK'
    BY DEF TypeOK, Send, AgentRecords
  <1>4. Waits'
    BY <1>2, OpenResourceAssumption DEF Waits, TypeOK, AgentRecords
  <1>5. InTurn'
    BY <1>1, <1>2 DEF InTurn, TypeOK
  <1>6. Reported'
    BY <1>2 DEF Reported, TypeOK
  <1>8. Lasting'
    BY <1>1, <1>2, LastingKept
  <1>9. QED
    BY <1>3, <1>4, <1>5, <1>6, <1>8

LEMMA ReceiveAckKeeps == ASSUME IInv, NEW r \in Reqs, ReceiveAck(r) PROVE IInv'
  <1> USE DEF IInv
  <1> DEFINE opened == {s \in Resources : trx[<<r, s>>].pc = "ok"}
  <1>1. /\ agent[r].pc = "waiting" /\ server[r] = "acked"
        /\ agent'[r].pc = (IF opened = {} THEN "failed" ELSE "acked")
        /\ agent'[r].kind = agent[r].kind /\ agent'[r].sent = agent[r].sent
        /\ agent'[r].acked = now /\ agent'[r].hosts = opened
        /\ \A q \in Reqs : q # r => agent'[q] = agent[q]
        /\ server'[r] = "done" /\ \A q \in Reqs : q # r => server'[q] = server[q]
        /\ UNCHANGED <<now, trx, ac, expire, tempExpire, setBy>>
    BY DEF ReceiveAck, TypeOK
  <1>2. TypeOK'
    <2> DEFINE told == [agent[r] EXCEPT !.pc = IF opened = {} THEN "failed" ELSE "acked",
                                        !.acked = now, !.hosts = opened]
    <2>1. agent[r] \in AgentRecords /\ now \in Nat /\ opened \in SUBSET Resources
      BY DEF TypeOK
    <2>2. told \in AgentRecords
      BY <2>1 DEF AgentRecords
    <2>3. /\ agent' = [agent EXCEPT ![r] = told] /\ server' = [server EXCEPT ![r] = "done"]
          /\ UNCHANGED <<now, trx, ac, expire, tempExpire, setBy>>
      BY DEF ReceiveAck
    <2>4. QED
      BY <2>2, <2>3 DEF TypeOK
  <1>3. Waits'
    BY <1>1 DEF Waits
  <1>4. InTurn'
    BY <1>1 DEF InTurn
  <1>5. Reported'
    BY <1>1 DEF Reported
  <1>7. Lasting'
    <2>1. agent'[r].group = agent[r].group /\ agent'[r].pc # "none"
      BY <1>1 DEF ReceiveAck, TypeOK
    <2>2. QED
      BY <1>1, <2>1, LastingKept
  <1>8. QED
    BY <1>2, <1>3, <1>4, <1>5, <1>7

LEMMA AgentTimesOutKeeps == ASSUME IInv, NEW r \in Reqs, AgentTimesOut(r) PROVE IInv'
  <1> USE DEF IInv
  <1> DEFINE failed == [agent[r] EXCEPT !.pc = "failed"]
  <1>1. /\ agent[r].pc = "waiting" /\ agent' = [agent EXCEPT ![r] = failed]
        /\ agent[r] \in AgentRecords
        /\ UNCHANGED <<now, server, trx, ac, expire, tempExpire, setBy>>
    BY DEF AgentTimesOut, AgentDue, TypeOK
  <1>2. /\ failed \in AgentRecords /\ failed.pc = "failed"
        /\ failed.kind = agent[r].kind /\ failed.sent = agent[r].sent
        /\ failed.group = agent[r].group
    BY <1>1 DEF AgentRecords
  <1> HIDE DEF failed
  <1>3. TypeOK'
    BY <1>1, <1>2 DEF TypeOK
  <1>4. /\ agent'[r] = failed
        /\ \A q \in Reqs : q # r => agent'[q] = agent[q]
    BY <1>1 DEF TypeOK
  <1>5. Waits'
    BY <1>1, <1>2, <1>4 DEF Waits
  <1>6. InTurn'
    BY <1>1, <1>2, <1>4 DEF InTurn
  <1>7. Reported'
    BY <1>1, <1>2, <1>4 DEF Reported
  <1>9. Lasting'
    BY <1>1, <1>2, <1>4, LastingKept
  <1>10. QED
    BY <1>3, <1>5, <1>6, <1>7, <1>9

-----------------------------------------------------------------------------
(* Steps of the server.                                                    *)

\* A step of the server's handler that only moves it on, past nothing the ACs
\* depend on.
LEMMA HandlerKeeps ==
    ASSUME IInv, NEW r \in Reqs, agent[r].pc # "none",
           NEW pc \in {"received", "acked"},
           pc = "received" => server[r] = "none",
           server' = [server EXCEPT ![r] = pc],
           UNCHANGED <<now, agent, trx, ac, expire, tempExpire, setBy>>
    PROVE  IInv'
  <1> USE DEF IInv
  <1>1. server'[r] = pc /\ \A q \in Reqs : q # r => server'[q] = server[q]
    BY DEF TypeOK
  <1>2. TypeOK'
    BY DEF TypeOK
  <1>3. InTurn'
    BY <1>1 DEF InTurn
  <1>4. Waits' /\ Reported'
    BY DEF Waits, Reported
  <1>5. Lasting'
    BY LastingKept
  <1>6. QED
    BY <1>2, <1>3, <1>4, <1>5

LEMMA OpenResourcesKeeps ==
    ASSUME IInv, NEW r \in Reqs, NEW online \in SUBSET Resources, OpenResources(r, online)
    PROVE  IInv'
  <1> USE DEF IInv
  <1>1. /\ server[r] = "received" /\ agent[r].pc # "none"
        /\ \A s \in Resources : ac[<<r, s>>].pc = "none" /\ ac[<<r, s>>].next = 1
                              /\ trx[<<r, s>>].pc = "none"
    BY DEF OpenResources, InTurn, Reported
  <1>2. /\ server'[r] = "opening" /\ \A q \in Reqs : q # r => server'[q] = server[q]
        /\ UNCHANGED <<now, agent, expire, tempExpire, setBy>>
    BY DEF OpenResources, TypeOK
  <1>3. \A o \in Reqs \X Resources :
          /\ trx'[o] \in TrxRecords /\ ac'[o] \in ACRecords
          /\ o[1] # r => trx'[o] = trx[o] /\ ac'[o] = ac[o]
          /\ o[1] = r => trx'[o].pc \in {"none", "pending", "fail"}
          /\ o[1] = r => ac'[o].next = 1 /\ ac'[o].pc \in {"none", "sent"}
    <2> SUFFICES ASSUME NEW o \in Reqs \X Resources
                 PROVE  /\ trx'[o] \in TrxRecords /\ ac'[o] \in ACRecords
                        /\ o[1] # r => trx'[o] = trx[o] /\ ac'[o] = ac[o]
                        /\ o[1] = r => trx'[o].pc \in {"none", "pending", "fail"}
                        /\ o[1] = r => ac'[o].next = 1 /\ ac'[o].pc \in {"none", "sent"}
      OBVIOUS
    <2>1. /\ trx'[o] = IF o[1] # r \/ o[2] \notin ResourcesOf[agent[r].group] THEN trx[o]
                       ELSE [pc |-> IF o[2] \in online THEN "pending" ELSE "fail", sent |-> now]
          /\ ac'[o] = IF o[1] = r /\ o[2] \in ResourcesOf[agent[r].group] \intersect online
                      THEN [pc |-> "sent", next |-> 1] ELSE ac[o]
      BY DEF OpenResources
    <2>2. /\ trx[o] \in TrxRecords /\ ac[o] \in ACRecords /\ now \in Nat /\ 1 \in 1..(Entries + 1)
          /\ o = <<o[1], o[2]>> /\ o[2] \in Resources
      BY OpenResourceAssumption DEF TypeOK
    <2>3. o[1] = r => ac[o].pc = "none" /\ ac[o].next = 1 /\ trx[o].pc = "none"
      BY <1>1, <2>2
    <2>4. QED
      BY <2>1, <2>2, <2>3 DEF TrxRecords, ACRecords
  <1>4. TypeOK'
    <2>1. /\ trx' \in [Reqs \X Resources -> TrxRecords]
          /\ ac' \in [Reqs \X Resources -> ACRecords]
      BY <1>3 DEF OpenResources
    <2>2. server' \in [Reqs -> {"none", "received", "opening", "acked", "done"}]
      BY DEF OpenResources, TypeOK
    <2>3. QED
      BY <1>2, <2>1, <2>2 DEF TypeOK
  <1>5. \A q \in Reqs, s \in Resources :
          q # r => trx'[<<q, s>>] = trx[<<q, s>>] /\ ac'[<<q, s>>] = ac[<<q, s>>]
    BY <1>3
  <1>6. InTurn'
    BY <1>1, <1>2, <1>5 DEF InTurn
  <1>7. Waits'
    BY <1>2 DEF Waits
  <1>8. Reported'
    <2>1. \A o \in Reqs \X Resources :
            /\ trx'[o].pc = "ok" => ac'[o].pc = "added"
            /\ ac'[o].pc = "added" => ac'[o].next = Entries + 1
            /\ ac'[o].pc \in {"none", "sent"} => ac'[o].next = 1
      BY <1>3 DEF Reported
    <2>2. \A q \in Reqs : agent'[q].pc = "acked" =>
            \A s \in agent'[q].hosts : trx'[<<q, s>>].pc = "ok"
      <3> SUFFICES ASSUME NEW q \in Reqs, agent[q].pc = "acked", NEW s \in agent[q].hosts
                   PROVE  trx'[<<q, s>>].pc = "ok"
        BY <1>2
      <3>1. s \in Resources /\ trx[<<q, s>>].pc = "ok"
        BY DEF Reported, TypeOK, AgentRecords
      <3>2. q # r
        BY <1>1, <3>1
      <3>3. QED
        BY <1>5, <3>1, <3>2
    <2>3. QED
      BY <2>1, <2>2 DEF Reported
  <1>9. Lasting'
    <2>1. ASSUME NEW q \in Reqs, NEW s \in Resources
          PROVE  ac'[<<q, s>>].next = ac[<<q, s>>].next
      <3>1. CASE q = r
        BY <1>1, <1>3, <3>1
      <3>2. CASE q # r
        BY <1>5, <3>2
      <3>3. QED
        BY <3>1, <3>2
    <2>2. QED
      BY <1>2, <2>1, LastingKept
  <1>10. QED
    BY <1>4, <1>6, <1>7, <1>8, <1>9

\* The end of a transaction with an AC: "ok" only for what the AC has added.
LEMMA TrxKeeps ==
    ASSUME IInv, NEW o \in Reqs \X Resources, trx[o].pc = "pending", NEW pc \in {"ok", "fail"},
           pc = "ok" => ac[o].pc = "added",
           trx' = [trx EXCEPT ![o].pc = pc],
           UNCHANGED <<now, agent, server, ac, expire, tempExpire, setBy>>
    PROVE  IInv'
  <1> USE DEF IInv
  <1> DEFINE ended == [trx[o] EXCEPT !.pc = pc]
  <1>1. ended \in TrxRecords /\ ended.pc = pc
    BY DEF TypeOK, TrxRecords
  <1>2. trx' = [trx EXCEPT ![o] = ended]
    OBVIOUS
  <1> HIDE DEF ended
  <1>3. trx'[o].pc = pc /\ \A p \in Reqs \X Resources : p # o => trx'[p] = trx[p]
    BY <1>1, <1>2 DEF TypeOK
  <1>4. TypeOK'
    BY <1>1, <1>2 DEF TypeOK
  <1>5. InTurn'
    <2> SUFFICES ASSUME NEW r \in Reqs, server[r] \in {"none", "received"}, NEW s \in Resources
                 PROVE  ac[<<r, s>>].pc = "none" /\ trx'[<<r, s>>].pc = "none"
      BY DEF InTurn
    <2>1. ac[<<r, s>>].pc = "none" /\ trx[<<r, s>>].pc = "none"
      BY DEF InTurn
    <2>2. <<r, s>> # o
      BY <2>1
    <2>3. QED
      BY <1>3, <2>1, <2>2
  <1>6. Reported'
    <2>1. \A p \in Reqs \X Resources : trx'[p].pc = "ok" => ac[p].pc = "added"
      BY <1>3 DEF Reported
    <2>2. ASSUME NEW r \in Reqs, agent[r].pc = "acked", NEW s \in agent[r].hosts
          PROVE  trx'[<<r, s>>].pc = "ok"
      <3>1. s \in Resources /\ trx[<<r, s>>].pc = "ok"
        BY <2>2 DEF Reported, TypeOK, AgentRecords
      <3>2. <<r, s>> # o
        BY <3>1
      <3>3. QED
        BY <1>3, <3>1, <3>2
    <2>3. QED
      BY <2>1, <2>2 DEF Reported
  <1>7. Waits'
    BY DEF Waits
  <1>8. Lasting'
    BY LastingKept
  <1>9. QED
    BY <1>4, <1>5, <1>6, <1>7, <1>8

-----------------------------------------------------------------------------
(* Steps of the AC.                                                        *)

\* A step of the AC's handler that adds no entry.
LEMMA ACKeeps ==
    ASSUME IInv, NEW o \in Reqs \X Resources,
           ac[o].pc \in {"sent", "adding"}, NEW pc \in {"adding", "added", "failed"},
           pc = "added" => ac[o].next = Entries + 1,
           ac' = [ac EXCEPT ![o].pc = pc], tempExpire' \in [Resources -> Nat],
           UNCHANGED <<now, agent, server, trx, expire, setBy>>
    PROVE  IInv'
  <1> USE DEF IInv
  <1> DEFINE moved == [ac[o] EXCEPT !.pc = pc]
  <1>1. moved \in ACRecords /\ moved.pc = pc /\ moved.next = ac[o].next
    BY DEF TypeOK, ACRecords
  <1>2. ac' = [ac EXCEPT ![o] = moved]
    OBVIOUS
  <1> HIDE DEF moved
  <1>3. /\ ac'[o].pc = pc /\ ac'[o].next = ac[o].next
        /\ \A p \in Reqs \X Resources : p # o => ac'[p] = ac[p]
    BY <1>1, <1>2 DEF TypeOK
  <1>4. TypeOK'
    <2>1. ac' \in [Reqs \X Resources -> ACRecords]
      BY <1>1, <1>2 DEF TypeOK
    <2>2. QED
      BY <2>1 DEF TypeOK
  <1>5. InTurn'
    <2> SUFFICES ASSUME NEW r \in Reqs, server[r] \in {"none", "received"}, NEW s \in Resources
                 PROVE  ac'[<<r, s>>].pc = "none" /\ trx[<<r, s>>].pc = "none"
      BY DEF InTurn
    <2>1. ac[<<r, s>>].pc = "none" /\ trx[<<r, s>>].pc = "none"
      BY DEF InTurn
    <2>2. <<r, s>> # o
      BY <2>1
    <2>3. QED
      BY <1>3, <2>1, <2>2
  <1>6. Reported'
    BY <1>3 DEF Reported
  <1>7. Waits'
    BY DEF Waits
  <1>8. Lasting'
    <2>1. \A r \in Reqs, s \in Resources : ac'[<<r, s>>].next = ac[<<r, s>>].next
      BY <1>3
    <2>2. QED
      BY <2>1, LastingKept
  <1>9. QED
    BY <1>4, <1>5, <1>6, <1>7, <1>8

LEMMA AddEntryKeeps ==
    ASSUME IInv, NEW r \in Reqs, NEW s \in Resources, AddEntry(<<r, s>>) PROVE IInv'
  <1> USE DEF IInv
  <1> DEFINE n == ac[<<r, s>>].next
             end == now + AOPOpenTime(agent[r])
  <1>1. /\ <<r, s>> \in Reqs \X Resources /\ n \in 1..(Entries + 1) /\ Entries \in Nat
        /\ agent[r] \in AgentRecords /\ now \in Nat
    BY OpenResourceAssumption DEF TypeOK, ACRecords, AgentRecords
  <1>2. /\ ac[<<r, s>>].pc = "adding" /\ n \in EntryIds /\ n + 1 \in 1..(Entries + 1)
        /\ ac' = [ac EXCEPT ![<<r, s>>] = [pc |-> "adding", next |-> n + 1]]
        /\ expire' = [expire EXCEPT ![<<s, n>>] = end]
        /\ setBy' = [setBy EXCEPT ![<<s, n>>] = r]
        /\ UNCHANGED <<now, agent, server, trx, tempExpire>>
    BY <1>1 DEF AddEntry, EntryIds
  <1>3. end \in Nat
    BY <1>1, Times
  <1> HIDE DEF n, end
  <1>4. /\ ac'[<<r, s>>].pc = "adding" /\ ac'[<<r, s>>].next = n + 1
        /\ \A p \in Reqs \X Resources : p # <<r, s>> => ac'[p] = ac[p]
        /\ expire'[<<s, n>>] = end /\ setBy'[<<s, n>>] = r
        /\ \A e \in Resources \X EntryIds :
             e # <<s, n>> => expire'[e] = expire[e] /\ setBy'[e] = setBy[e]
    BY <1>1, <1>2 DEF TypeOK
  <1>5. TypeOK'
    <2>1. ac' \in [Reqs \X Resources -> ACRecords]
      BY <1>1, <1>2 DEF TypeOK, ACRecords
    <2>2. expire' \in [Resources \X EntryIds -> Nat]
      BY <1>2, <1>3 DEF TypeOK
    <2>3. setBy' \in [Resources \X EntryIds -> Reqs \union {0}]
      BY <1>2 DEF TypeOK
    <2>4. QED
      BY <1>2, <2>1, <2>2, <2>3 DEF TypeOK
  <1>6. InTurn'
    <2> SUFFICES ASSUME NEW q \in Reqs, server[q] \in {"none", "received"}, NEW t \in Resources
                 PROVE  ac'[<<q, t>>].pc = "none" /\ trx[<<q, t>>].pc = "none"
      BY <1>2 DEF InTurn
    <2>1. ac[<<q, t>>].pc = "none" /\ trx[<<q, t>>].pc = "none"
      BY DEF InTurn
    <2>2. <<q, t>> # <<r, s>>
      BY <1>2, <2>1
    <2>3. QED
      BY <1>4, <2>1, <2>2
  <1>7. Reported'
    <2>1. ASSUME NEW p \in Reqs \X Resources
          PROVE  /\ trx[p].pc = "ok" => ac'[p].pc = "added"
                 /\ ac'[p].pc = "added" => ac'[p].next = Entries + 1
                 /\ ac'[p].pc \in {"none", "sent"} => ac'[p].next = 1
      <3>1. CASE p = <<r, s>>
        <4>1. trx[p].pc # "ok"
          BY <1>1, <1>2, <3>1 DEF Reported
        <4>2. QED
          BY <1>4, <3>1, <4>1
      <3>2. CASE p # <<r, s>>
        BY <1>4, <3>2 DEF Reported
      <3>3. QED
        BY <3>1, <3>2
    <2>2. QED
      BY <1>2, <2>1 DEF Reported
  <1>8. Waits'
    BY <1>2 DEF Waits
  <1>10. Lasting'
    <2> SUFFICES ASSUME NEW q \in Reqs, NEW t \in Resources, NEW i \in EntryIds,
                        i < ac'[<<q, t>>].next
                 PROVE  /\ setBy'[<<t, i>>] \in Reqs /\ agent[setBy'[<<t, i>>]].pc # "none"
                        /\ SetForAsLong(q, t, i)' =>
                             expire'[<<t, i>>] >= agent[q].sent + AOPOpenTime(agent[q])
      BY <1>2 DEF Lasting
    <2>1. /\ agent[q] \in AgentRecords /\ agent[q].sent \in Nat /\ agent[q].sent <= now
      BY DEF Waits, TypeOK, AgentRecords
    <2>2. CASE t = s /\ i = n
      <3>1. setBy'[<<t, i>>] = r /\ expire'[<<t, i>>] = now + AOPOpenTime(agent[r])
        BY <1>3, <1>4, <2>2 DEF end
      <3>2. agent[r].pc # "none"
        BY <1>2, AddedAfterSent DEF InTurn, Reported
      <3>3. SetForAsLong(q, t, i)' => Asked(agent[r]) >= Asked(agent[q])
        BY <1>2, <3>1 DEF SetForAsLong
      <3>4. QED
        BY <1>1, <2>1, <3>1, <3>2, <3>3, Times, OpenResourceAssumption DEF AOPOpenTime
    <2>3. CASE ~(t = s /\ i = n)
      <3>1. i < ac[<<q, t>>].next
        <4>1. CASE q = r /\ t = s
          BY <1>1, <1>4, <2>3, <4>1 DEF EntryIds, n
        <4>2. CASE ~(q = r /\ t = s)
          BY <1>4, <4>2
        <4>3. QED
          BY <4>1, <4>2
      <3>2. expire'[<<t, i>>] = expire[<<t, i>>] /\ setBy'[<<t, i>>] = setBy[<<t, i>>]
        BY <1>4, <2>3
      <3>3. SetForAsLong(q, t, i)' => SetForAsLong(q, t, i)
        BY <1>2, <3>2 DEF SetForAsLong
      <3>4. QED
        BY <3>1, <3>2, <3>3 DEF Lasting
    <2>4. QED
      BY <2>2, <2>3
  <1>11. QED
    BY <1>5, <1>6, <1>7, <1>8, <1>10

-----------------------------------------------------------------------------
(* The theorems.                                                           *)

LEMMA NextIInv == IInv /\ [Next]_vars => IInv'
  <1> SUFFICES ASSUME IInv, [Next]_vars PROVE IInv'
    OBVIOUS
  <1>1. CASE UNCHANGED vars
    <2>1. UNCHANGED <<now, agent, server, trx, ac, expire, tempExpire, setBy>>
      BY <1>1 DEF vars
    <2>2. TypeOK' /\ Waits' /\ InTurn'
      BY <2>1 DEF IInv, TypeOK, Waits, InTurn
    <2>3. Reported'
      BY <2>1 DEF IInv, Reported
    <2>4. Lasting'
      BY <2>1 DEF IInv, Lasting, SetForAsLong
    <2>5. QED
      BY <2>2, <2>3, <2>4 DEF IInv
  <1>2. CASE Tick
    BY <1>2, TickKeeps
  <1>3. ASSUME NEW r \in Reqs, NEW kind \in {"KNK", "EXT"}, NEW group \in Groups,
                Send(r, kind, group)
         PROVE  IInv'
    BY <1>3, SendKeeps
  <1>4. ASSUME NEW r \in Reqs, ReceiveAck(r) PROVE IInv'
    BY <1>4, ReceiveAckKeeps
  <1>5. ASSUME NEW r \in Reqs, AgentTimesOut(r) PROVE IInv'
    BY <1>5, AgentTimesOutKeeps
  <1>6. ASSUME NEW r \in Reqs, ReceiveKnock(r) PROVE IInv'
    BY <1>6, HandlerKeeps DEF ReceiveKnock
  <1>7. ASSUME NEW r \in Reqs, Refuse(r) \/ Answer(r) PROVE IInv'
    <2>1. agent[r].pc # "none"
      BY <1>7 DEF Refuse, Answer, IInv, InTurn
    <2>2. /\ server' = [server EXCEPT ![r] = "acked"]
          /\ UNCHANGED <<now, agent, trx, ac, expire, tempExpire, setBy>>
      BY <1>7 DEF Refuse, Answer
    <2>3. QED
      BY <2>1, <2>2, HandlerKeeps
  <1>8. ASSUME NEW r \in Reqs, NEW online \in SUBSET Resources, OpenResources(r, online) PROVE IInv'
    BY <1>8, OpenResourcesKeeps
  <1>9. ASSUME NEW o \in Reqs \X Resources, ReceiveART(o) PROVE IInv'
    <2>1. CASE ac[o].pc = "added"
      BY <1>9, <2>1, TrxKeeps DEF ReceiveART
    <2>2. CASE ac[o].pc # "added"
      BY <1>9, <2>2, TrxKeeps DEF ReceiveART
    <2>3. QED
      BY <2>1, <2>2
  <1>10. ASSUME NEW o \in Reqs \X Resources, ServerTimesOut(o) PROVE IInv'
    BY <1>10, TrxKeeps DEF ServerTimesOut
  <1>11. ASSUME NEW o \in Reqs \X Resources, ReceiveAOP(o) PROVE IInv'
    BY <1>11, ACKeeps DEF ReceiveAOP, IInv, TypeOK
  <1>12. ASSUME NEW o \in Reqs \X Resources, AddEntry(o) PROVE IInv'
    <2>1. PICK r \in Reqs, s \in Resources : o = <<r, s>>
      OBVIOUS
    <2>2. QED
      BY <1>12, <2>1, AddEntryKeeps
  <1>13. ASSUME NEW o \in Reqs \X Resources, AddEntryFails(o) PROVE IInv'
    BY <1>13, ACKeeps DEF AddEntryFails, IInv, TypeOK
  <1>14. ASSUME NEW o \in Reqs \X Resources, AddRange(o) PROVE IInv'
    <2>1. tempExpire' \in [Resources -> Nat]
      <3>1. o[1] \in Reqs /\ now \in Nat
        BY DEF IInv, TypeOK
      <3>2. TempOpenTime(AOPOpenTime(agent[o[1]])) \in Nat
        BY OpenResourceAssumption DEF TempOpenTime
      <3>3. QED
        BY <1>14, <3>1, <3>2 DEF AddRange, IInv, TypeOK
    <2>2. QED
      BY <1>14, <2>1, ACKeeps DEF AddRange
  <1>15. QED
    BY <1>1, <1>2, <1>3, <1>4, <1>5, <1>6, <1>7, <1>8, <1>9, <1>10, <1>11, <1>12, <1>13, <1>14
       DEF Next

\* The inductive invariant holds in every state of the knock protocol.
THEOREM Invariance == Spec => []IInv
  <1>1. Init => IInv
    BY InitIInv
  <1>2. IInv /\ [Next]_vars => IInv'
    BY NextIInv
  <1>3. QED
    BY <1>1, <1>2, PTL DEF Spec

\* Every field of the agent, the server, the AC and its entries keeps its type.
THEOREM TypeCorrect == Spec => []TypeOK
  <1>1. IInv => TypeOK
    BY DEF IInv
  <1>2. QED
    BY <1>1, Invariance, PTL

\* "compensate ac open time": with the agent's timeout within
\* ACOpenCompensationTime, an agent that is told a resource is open can use it
\* for the whole open time from then on, whatever other requests do or fail to
\* do, unless an entry was last added for a shorter time.
THEOREM PromiseKept == Spec => []OpenWhilePromised
  <1>1. ASSUME IInv PROVE OpenWhilePromised
    <2> SUFFICES ASSUME NEW r \in Reqs, NEW s \in Resources, agent[r].pc = "acked",
                        s \in agent[r].hosts, NEW i \in EntryIds
                 PROVE  \/ setBy[<<s, i>>] # 0 /\ ~SetForAsLong(r, s, i)
                        \/ expire[<<s, i>>] >= agent[r].acked + Asked(agent[r])
      BY DEF OpenWhilePromised
    <2>1. agent[r].acked <= agent[r].sent + AgentTimeout
      BY <1>1 DEF IInv, Waits
    <2>2. ac[<<r, s>>].next = Entries + 1 /\ i < Entries + 1
      <3>1. trx[<<r, s>>].pc = "ok" /\ <<r, s>> \in Reqs \X Resources
        BY <1>1 DEF IInv, Reported
      <3>2. ac[<<r, s>>].next = Entries + 1
        BY <1>1, <3>1 DEF IInv, Reported
      <3>3. QED
        BY <3>2, OpenResourceAssumption DEF EntryIds
    <2>3. /\ setBy[<<s, i>>] \in Reqs
          /\ SetForAsLong(r, s, i) => expire[<<s, i>>] >= agent[r].sent + AOPOpenTime(agent[r])
      BY <1>1, <2>2 DEF IInv, Lasting
    <2>4. /\ agent[r] \in AgentRecords /\ expire[<<s, i>>] \in Nat
          /\ agent[r].sent \in Nat /\ agent[r].acked \in Nat
      BY <1>1 DEF IInv, TypeOK, AgentRecords
    <2>5. setBy[<<s, i>>] # 0
      BY <2>3, OpenResourceAssumption DEF Reqs
    <2>6. SetForAsLong(r, s, i) => expire[<<s, i>>] >= agent[r].acked + Asked(agent[r])
      BY <2>1, <2>3, <2>4, Times, OpenResourceAssumption DEF AOPOpenTime
    <2>7. QED
      BY <2>5, <2>6
  <1>2. QED
    BY <1>1, Invariance, PTL
=============================================================================
