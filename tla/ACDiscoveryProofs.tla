------------------------- MODULE ACDiscoveryProofs -------------------------
(***************************************************************************)
(* Theorems of ACDiscovery, for any servers, connections and limits.       *)
(***************************************************************************)
EXTENDS ACDiscovery, TLAPS

DStates == [pc : {"start", "look", "send", "keepalive", "wait", "handle", "nap", "stuck",
                "ended", "crashed"},
            conn : Conns \cup {NoConn},
            failCount : 0..(ServerDiscoveryRetryBeforeFail - 1)]

Keys == Servers \X Conns

IInv == TypeOK /\ FailedNotConnected

-----------------------------------------------------------------------------
(* Changes of one connection or of one discovery.                          *)

LEMMA ConnFields ==
  ASSUME NEW s \in ConnStates
  PROVE  /\ \A pc \in {"free", "select", "deaf", "left"} :
              /\ [s EXCEPT !.pc = pc] \in ConnStates
              /\ [s EXCEPT !.pc = pc].connected = s.connected
         /\ [s EXCEPT !.reading = FALSE] \in ConnStates
         /\ [s EXCEPT !.reading = FALSE].connected = s.connected
         /\ [s EXCEPT !.connected = TRUE] \in ConnStates
         /\ \A n \in 0..(ReportToServerInterval + 1) :
              /\ [s EXCEPT !.silent = n] \in ConnStates
              /\ [s EXCEPT !.silent = n].connected = s.connected
  BY DEF ConnStates

LEMMA ConnCloses ==
  ASSUME NEW s \in ConnStates, NEW x \in BOOLEAN, NEW y \in BOOLEAN, NEW new,
         new = [s EXCEPT !.connected = x, !.closed = y]
  PROVE  new \in ConnStates /\ new.connected = x
  BY DEF ConnStates

LEMMA NewConn ==
  /\ Unused \in ConnStates /\ ~Unused.connected
  /\ [Unused EXCEPT !.pc = "select"] \in ConnStates
  /\ ~[Unused EXCEPT !.pc = "select"].connected
  <1>1. 0 \in 0..(ReportToServerInterval + 1)
    BY ACDiscoveryAssumption
  <1>2. Unused \in ConnStates /\ ~Unused.connected
    BY <1>1 DEF Unused, ConnStates
  <1> QED BY <1>2, ConnFields

LEMMA DiscoveryMoves ==
  ASSUME NEW ds \in [Servers -> DStates], NEW v \in Servers, NEW new,
         NEW pc \in {"start", "look", "send", "keepalive", "wait", "handle", "nap", "stuck",
                "ended", "crashed"},
         NEW n \in 0..(ServerDiscoveryRetryBeforeFail - 1),
         \/ new = [ds EXCEPT ![v].pc = pc]
         \/ new = [ds EXCEPT ![v].pc = pc, ![v].failCount = n, ![v].conn = NoConn]
  PROVE  new \in [Servers -> DStates]
  <1>1. PICK s : s = ds[v]
    OBVIOUS
  <1>2. s \in DStates
    BY <1>1
  <1>3. [s EXCEPT !.pc = pc] \in DStates
    BY <1>2 DEF DStates
  <1>4. [s EXCEPT !.pc = pc, !.failCount = n, !.conn = NoConn] \in DStates
    BY <1>2 DEF DStates
  <1>5. CASE new = [ds EXCEPT ![v].pc = pc]
    <2>1. new = [ds EXCEPT ![v] = [s EXCEPT !.pc = pc]]
      BY <1>1, <1>5
    <2> QED BY <1>3, <2>1
  <1>6. CASE new = [ds EXCEPT ![v].pc = pc, ![v].failCount = n, ![v].conn = NoConn]
    <2>1. new = [ds EXCEPT ![v] = [s EXCEPT !.pc = pc, !.failCount = n, !.conn = NoConn]]
      BY <1>1, <1>6
    <2> QED BY <1>4, <2>1
  <1> QED BY <1>5, <1>6

\* Nobody becomes connected.
Calmer(new) ==
    /\ new \in [Keys -> ConnStates]
    /\ \A k \in Keys : new[k].connected => conn[k].connected

LEMMA OneConn ==
  ASSUME TypeOK, NEW k, NEW s, conn' = [conn EXCEPT ![k] = s],
         k \in Keys => s \in ConnStates /\ (s.connected => conn[k].connected)
  PROVE  Calmer(conn')
  BY DEF TypeOK, Calmer, Keys

LEMMA Disconnected ==
  ASSUME IInv, Calmer(conn'), UNCHANGED <<fail, connMap>>
  PROVE  FailedNotConnected'
  <1> SUFFICES ASSUME NEW v \in Servers, fail[v], connMap[v] # NoConn
               PROVE  ~conn'[<<v, connMap[v]>>].connected
    BY DEF FailedNotConnected
  <1>1. <<v, connMap[v]>> \in Keys
    BY DEF IInv, TypeOK, Keys
  <1>2. ~conn[<<v, connMap[v]>>].connected
    BY DEF IInv, FailedNotConnected
  <1> QED BY <1>1, <1>2 DEF Calmer

-----------------------------------------------------------------------------
(* serverDiscovery.                                                        *)

LEMMA LookStep ==
  ASSUME IInv, NEW v \in Servers,
         Begin(v) \/ Look(v) \/ Abandon(v) \/ TransactionFails(v)
  PROVE  IInv'
  <1>1. d' \in [Servers -> DStates]
    <2>1. d \in [Servers -> DStates] /\ connMap[v] \in Conns \cup {NoConn}
      BY DEF IInv, TypeOK, DStates
    <2>2. CASE Look(v)
      <3>1. PICK pc \in {"nap", "keepalive", "send", "ended"} :
              d' = [d EXCEPT ![v].pc = pc, ![v].conn = connMap[v]]
        BY <2>2 DEF Look
      <3> QED BY <2>1, <3>1 DEF DStates
    <2>3. CASE Begin(v) \/ Abandon(v) \/ TransactionFails(v)
      <3>1. PICK pc \in {"look", "ended", "stuck", "handle"} : d' = [d EXCEPT ![v].pc = pc]
        BY <2>3 DEF Begin, Abandon, TransactionFails
      <3> QED BY <2>1, <3>1 DEF DStates
    <2> QED BY <2>2, <2>3
  <1>2. TypeOK'
    BY <1>1 DEF Begin, Look, Abandon, TransactionFails, IInv, TypeOK, DStates
  <1>3. FailedNotConnected'
    BY DEF Begin, Look, Abandon, TransactionFails, IInv, FailedNotConnected
  <1> QED BY <1>2, <1>3 DEF IInv

LEMMA SendStep ==
  ASSUME IInv, NEW v \in Servers, SendMessage(v)
  PROVE  IInv'
  <1>1. PICK c \in Conns :
          /\ d' = [d EXCEPT ![v].pc = IF @ = "send" THEN "wait" ELSE "nap"]
          /\ via' = [via EXCEPT ![v] = IF d[v].pc = "send" THEN c ELSE @]
          /\ \/ /\ connMap[v] = c
                /\ UNCHANGED <<connMap, conn>>
             \/ /\ connMap[v] = NoConn
                /\ connMap' = [connMap EXCEPT ![v] = c]
                /\ conn' = [conn EXCEPT ![<<v, c>>] = [Unused EXCEPT !.pc = "select"]]
          /\ UNCHANGED <<reply, fail, aak, acceptInput, up, record, calm, running>>
    BY DEF SendMessage
  <1>2. d' \in [Servers -> DStates]
    <2>1. PICK pc \in {"wait", "nap"} : d' = [d EXCEPT ![v].pc = pc]
      BY <1>1
    <2>2. PICK ds, new : ds = d /\ new = d'
      OBVIOUS
    <2>3. ds \in [Servers -> DStates] /\ 0 \in 0..(ServerDiscoveryRetryBeforeFail - 1)
      BY <2>2, ACDiscoveryAssumption DEF IInv, TypeOK, DStates
    <2>4. new = [ds EXCEPT ![v].pc = pc]
      BY <2>1, <2>2
    <2>5. new \in [Servers -> DStates]
      BY <2>3, <2>4, DiscoveryMoves
    <2> QED BY <2>2, <2>5
  <1>3. /\ via' \in [Servers -> Conns \cup {NoConn}]
        /\ connMap' \in [Servers -> Conns \cup {NoConn}]
        /\ conn' \in [Keys -> ConnStates]
    <2>1. PICK s \in ConnStates : s = [Unused EXCEPT !.pc = "select"]
      BY NewConn
    <2>2. conn' = conn \/ conn' = [conn EXCEPT ![<<v, c>>] = s]
      BY <1>1, <2>1
    <2>3. conn' \in [Keys -> ConnStates]
      BY <2>2 DEF IInv, TypeOK, Keys
    <2>4. via' \in [Servers -> Conns \cup {NoConn}]
      BY <1>1 DEF IInv, TypeOK
    <2>5. connMap' \in [Servers -> Conns \cup {NoConn}]
      BY <1>1 DEF IInv, TypeOK
    <2> QED BY <2>3, <2>4, <2>5
  <1>4. TypeOK'
    BY <1>1, <1>2, <1>3 DEF IInv, TypeOK, DStates, Keys
  <1>5. FailedNotConnected'
    <2>1. CASE UNCHANGED <<connMap, conn>>
      BY <1>1, <2>1 DEF IInv, FailedNotConnected
    <2>2. CASE /\ connMap' = [connMap EXCEPT ![v] = c]
               /\ conn' = [conn EXCEPT ![<<v, c>>] = [Unused EXCEPT !.pc = "select"]]
      <3> SUFFICES ASSUME NEW u \in Servers, fail[u], connMap'[u] # NoConn
                   PROVE  ~conn'[<<u, connMap'[u]>>].connected
        BY <1>1 DEF FailedNotConnected
      <3>1. CASE u = v
        <4>1. connMap'[u] = c /\ conn'[<<u, c>>] = [Unused EXCEPT !.pc = "select"]
          BY <2>2, <3>1 DEF IInv, TypeOK
        <4> QED BY <4>1, NewConn
      <3>2. CASE u # v
        <4>1. connMap'[u] = connMap[u] /\ conn'[<<u, connMap[u]>>] = conn[<<u, connMap[u]>>]
          BY <2>2, <3>2 DEF IInv, TypeOK
        <4> QED BY <4>1 DEF IInv, FailedNotConnected
      <3> QED BY <3>1, <3>2
    <2> QED BY <1>1, <2>1, <2>2
  <1> QED BY <1>4, <1>5 DEF IInv

LEMMA AnswerStep ==
  ASSUME IInv, NEW v \in Servers, ReceiveAAK(v)
  PROVE  IInv'
  <1>1. d' \in [Servers -> DStates]
    <2>1. d \in [Servers -> DStates] /\ d' = [d EXCEPT ![v].pc = "handle"]
      BY DEF ReceiveAAK, IInv, TypeOK, DStates
    <2> QED BY <2>1 DEF DStates
  <1>2. Calmer(conn')
    <2>1. PICK k : k = <<v, via[v]>>
      OBVIOUS
    <2>2. conn' = [conn EXCEPT ![k] = [conn[k] EXCEPT !.silent = 0]]
      BY <2>1 DEF ReceiveAAK
    <2>3. PICK s : s = [conn[k] EXCEPT !.silent = 0]
      OBVIOUS
    <2>4. k \in Keys => s \in ConnStates /\ s.connected = conn[k].connected
      <3>1. 0 \in 0..(ReportToServerInterval + 1)
        BY ACDiscoveryAssumption
      <3>2. k \in Keys => conn[k] \in ConnStates
        BY DEF IInv, TypeOK, Keys
      <3> QED BY <2>3, <3>1, <3>2, ConnFields
    <2> QED BY <2>2, <2>3, <2>4, OneConn DEF IInv
  <1>3. TypeOK'
    BY <1>1, <1>2 DEF ReceiveAAK, IInv, TypeOK, DStates, Calmer, Keys
  <1>4. FailedNotConnected'
    BY <1>2, Disconnected DEF ReceiveAAK
  <1> QED BY <1>3, <1>4 DEF IInv

LEMMA HandleAAKStep ==
  ASSUME IInv, NEW v \in Servers, HandleAAK(v)
  PROVE  IInv'
  <1>1. d' \in [Servers -> DStates]
    <2>1. 0 \in 0..(ServerDiscoveryRetryBeforeFail - 1)
      BY ACDiscoveryAssumption
    <2>2. PICK pc \in {"crashed", "nap"} :
            d' = [d EXCEPT ![v].pc = pc, ![v].failCount = 0, ![v].conn = NoConn]
      BY DEF HandleAAK
    <2>3. PICK ds, new : ds = d /\ new = d'
      OBVIOUS
    <2>4. ds \in [Servers -> DStates]
      BY <2>3 DEF IInv, TypeOK, DStates
    <2>5. new = [ds EXCEPT ![v].pc = pc, ![v].failCount = 0, ![v].conn = NoConn]
      BY <2>2, <2>3
    <2>6. new \in [Servers -> DStates]
      BY <2>1, <2>4, <2>5, DiscoveryMoves
    <2> QED BY <2>3, <2>6
  <1>2. \/ conn' = conn
        \/ /\ connMap[v] # NoConn
           /\ conn' = [conn EXCEPT ![<<v, connMap[v]>>] = [conn[<<v, connMap[v]>>] EXCEPT !.connected = TRUE]]
    BY DEF HandleAAK
  <1>3. conn' \in [Keys -> ConnStates]
    <2>1. PICK k : k = <<v, connMap[v]>>
      OBVIOUS
    <2>2. connMap[v] # NoConn => k \in Keys /\ conn[k] \in ConnStates
      BY <2>1 DEF IInv, TypeOK, Keys
    <2>3. PICK s : s = [conn[k] EXCEPT !.connected = TRUE]
      OBVIOUS
    <2>4. connMap[v] # NoConn => s \in ConnStates
      BY <2>2, <2>3, ConnFields
    <2>5. conn' = conn \/ (connMap[v] # NoConn /\ conn' = [conn EXCEPT ![k] = s])
      BY <1>2, <2>1, <2>3
    <2> QED BY <2>4, <2>5 DEF IInv, TypeOK, Keys
  <1>4. TypeOK'
    BY <1>1, <1>3 DEF HandleAAK, IInv, TypeOK, DStates, Keys
  <1>5. FailedNotConnected'
    <2> SUFFICES ASSUME NEW u \in Servers, fail'[u], connMap'[u] # NoConn
                 PROVE  ~conn'[<<u, connMap'[u]>>].connected
      BY DEF FailedNotConnected
    <2>1. u # v /\ fail[u] /\ connMap'[u] = connMap[u]
      BY DEF HandleAAK, IInv, TypeOK
    <2>2. conn'[<<u, connMap[u]>>] = conn[<<u, connMap[u]>>]
      BY <1>2, <2>1 DEF IInv, TypeOK
    <2> QED BY <2>1, <2>2 DEF IInv, FailedNotConnected
  <1> QED BY <1>4, <1>5 DEF IInv

\* The count stays below the number it is taken modulo.
LEMMA CountWraps ==
  ASSUME NEW n \in Nat
  PROVE  n % ServerDiscoveryRetryBeforeFail \in 0..(ServerDiscoveryRetryBeforeFail - 1)
  BY ACDiscoveryAssumption

LEMMA HandleErrorStep ==
  ASSUME IInv, NEW v \in Servers, HandleError(v)
  PROVE  IInv'
  <1> DEFINE n == (d[v].failCount + 1) % ServerDiscoveryRetryBeforeFail
             third == n = 0
  <1>1. n \in 0..(ServerDiscoveryRetryBeforeFail - 1)
    <2>1. d[v].failCount + 1 \in Nat
      BY ACDiscoveryAssumption DEF IInv, TypeOK
    <2> QED BY <2>1, CountWraps
  <1>2. /\ \E pc \in {"crashed", "nap"} :
             d' = [d EXCEPT ![v].pc = pc, ![v].failCount = n, ![v].conn = NoConn]
        /\ fail' = [fail EXCEPT ![v] = @ \/ third]
        /\ connMap' = [connMap EXCEPT ![v] = IF third THEN NoConn ELSE @]
        /\ \E c : conn' = [k \in Servers \X Conns |->
                             [conn[k] EXCEPT !.connected = @ /\ k # <<v, d[v].conn>>,
                                             !.closed = @ \/ (third /\ k = <<v, c>>)]]
        /\ reply' = [reply EXCEPT ![v] = "none"] /\ via' = [via EXCEPT ![v] = NoConn]
        /\ UNCHANGED <<aak, acceptInput, up, record, calm, running>>
    BY DEF HandleError
  <1> HIDE DEF n
  <1>3. d' \in [Servers -> DStates]
    <2>1. PICK pc \in {"crashed", "nap"} :
            d' = [d EXCEPT ![v].pc = pc, ![v].failCount = n, ![v].conn = NoConn]
      BY <1>2
    <2>2. PICK ds, new, m : ds = d /\ new = d' /\ m = n
      OBVIOUS
    <2>3. ds \in [Servers -> DStates] /\ m \in 0..(ServerDiscoveryRetryBeforeFail - 1)
      BY <1>1, <2>2 DEF IInv, TypeOK, DStates
    <2>4. new = [ds EXCEPT ![v].pc = pc, ![v].failCount = m, ![v].conn = NoConn]
      BY <2>1, <2>2
    <2>5. new \in [Servers -> DStates]
      BY <2>3, <2>4, DiscoveryMoves
    <2> QED BY <2>2, <2>5
  <1>4. Calmer(conn')
    <2>1. PICK c : conn' = [k \in Servers \X Conns |->
                              [conn[k] EXCEPT !.connected = @ /\ k # <<v, d[v].conn>>,
                                              !.closed = @ \/ (third /\ k = <<v, c>>)]]
      BY <1>2
    <2> SUFFICES ASSUME NEW k \in Keys
                 PROVE  /\ conn'[k] \in ConnStates
                        /\ conn'[k].connected => conn[k].connected
      BY <2>1 DEF Calmer, Keys
    <2>2. PICK s \in ConnStates : s = conn[k]
      BY DEF IInv, TypeOK, Keys
    <2>3. PICK x, y \in BOOLEAN : /\ x <=> s.connected /\ k # <<v, d[v].conn>>
                                  /\ y <=> s.closed \/ (third /\ k = <<v, c>>)
      OBVIOUS
    <2>4. s.connected \in BOOLEAN /\ s.closed \in BOOLEAN
      BY DEF ConnStates
    <2>5. conn'[k] = [s EXCEPT !.connected = x, !.closed = y]
      BY <2>1, <2>2, <2>3, <2>4 DEF Keys
    <2>6. PICK new : new = [s EXCEPT !.connected = x, !.closed = y]
      OBVIOUS
    <2>7. new \in ConnStates /\ new.connected = x
      BY <2>6, ConnCloses
    <2>8. conn'[k] \in ConnStates
      BY <2>5, <2>6, <2>7
    <2>9. conn'[k].connected = x /\ conn[k].connected = s.connected
      BY <2>2, <2>5, <2>6, <2>7
    <2> QED BY <2>3, <2>8, <2>9
  <1>5. /\ connMap' \in [Servers -> Conns \cup {NoConn}]
        /\ via' \in [Servers -> Conns \cup {NoConn}]
        /\ reply' \in [Servers -> {"none", "AAK", "error"}]
        /\ fail' \in [Servers -> BOOLEAN]
    BY <1>2 DEF IInv, TypeOK
  <1>6. TypeOK'
    BY <1>2, <1>3, <1>4, <1>5 DEF IInv, TypeOK, DStates, Calmer, Keys
  <1>7. FailedNotConnected'
    <2> SUFFICES ASSUME NEW u \in Servers, fail'[u], connMap'[u] # NoConn
                 PROVE  ~conn'[<<u, connMap'[u]>>].connected
      BY DEF FailedNotConnected
    <2>1. connMap'[u] = connMap[u] /\ fail[u]
      BY <1>2 DEF IInv, TypeOK
    <2>2. <<u, connMap[u]>> \in Keys
      BY <2>1 DEF IInv, TypeOK, Keys
    <2>3. ~conn[<<u, connMap[u]>>].connected
      BY <2>1 DEF IInv, FailedNotConnected
    <2> QED BY <1>4, <2>1, <2>2, <2>3 DEF Calmer
  <1> QED BY <1>6, <1>7 DEF IInv

LEMMA WakeStep ==
  ASSUME IInv, NEW v \in Servers, Wake(v)
  PROVE  IInv'
  <1>1. d' \in [Servers -> DStates]
    <2>1. d \in [Servers -> DStates] /\ d' = [d EXCEPT ![v].pc = "look"]
      BY DEF Wake, IInv, TypeOK, DStates
    <2> QED BY <2>1 DEF DStates
  <1>2. Calmer(conn')
    <2>1. CASE conn' = conn
      BY <2>1 DEF Calmer, IInv, TypeOK, Keys
    <2>2. CASE conn' # conn
      <3>1. PICK k : k = <<v, connMap[v]>>
        OBVIOUS
      <3>2. /\ connMap[v] # NoConn /\ ~(conn[k].silent > ReportToServerInterval)
            /\ conn' = [conn EXCEPT ![k] = [conn[k] EXCEPT !.silent = conn[k].silent + 1]]
        BY <2>2, <3>1 DEF Wake
      <3>3. k \in Keys
        BY <3>1, <3>2 DEF IInv, TypeOK, Keys
      <3>4. PICK c \in ConnStates : c = conn[k]
        BY <3>3 DEF IInv, TypeOK, Keys
      <3>5. c.silent + 1 \in 0..(ReportToServerInterval + 1)
        BY <3>2, <3>4, ACDiscoveryAssumption DEF ConnStates
      <3>6. PICK n \in 0..(ReportToServerInterval + 1) : n = c.silent + 1
        BY <3>5
      <3>7. PICK s : s = [c EXCEPT !.silent = n]
        OBVIOUS
      <3>8. s \in ConnStates /\ s.connected = c.connected
        BY <3>7, ConnFields
      <3>9. conn' = [conn EXCEPT ![k] = s]
        BY <3>2, <3>4, <3>6, <3>7
      <3> QED BY <3>4, <3>8, <3>9, OneConn DEF IInv
    <2> QED BY <2>1, <2>2
  <1>3. TypeOK'
    BY <1>1, <1>2 DEF Wake, IInv, TypeOK, DStates, Calmer, Keys
  <1>4. FailedNotConnected'
    BY <1>2, Disconnected DEF Wake
  <1> QED BY <1>3, <1>4 DEF IInv

-----------------------------------------------------------------------------
(* connectionRoutine, the servers and the watcher.                         *)

LEMMA MoveStep ==
  ASSUME IInv, NEW v \in Servers, NEW c \in Conns,
         NEW from, NEW to \in {"free", "select", "deaf", "left"}, Move(v, c, from, to)
  PROVE  IInv'
  <1>1. PICK k \in Keys : k = <<v, c>>
    BY DEF Keys
  <1>2. PICK s : s = [conn[k] EXCEPT !.pc = to]
    OBVIOUS
  <1>3. conn[k] \in ConnStates
    BY DEF IInv, TypeOK, Keys
  <1>4. s \in ConnStates /\ s.connected = conn[k].connected
    BY <1>2, <1>3, ConnFields
  <1>5. conn' = [conn EXCEPT ![k] = s]
    BY <1>1, <1>2 DEF Move
  <1>6. Calmer(conn')
    BY <1>4, <1>5, OneConn DEF IInv
  <1>7. TypeOK'
    BY <1>6 DEF Move, IInv, TypeOK, Calmer, Keys
  <1>8. FailedNotConnected'
    BY <1>6, Disconnected DEF Move
  <1> QED BY <1>7, <1>8 DEF IInv

LEMMA ReceiverQuitsStep ==
  ASSUME IInv, NEW v \in Servers, NEW c \in Conns, ReceiverQuits(v, c)
  PROVE  IInv'
  <1>1. PICK k \in Keys : k = <<v, c>>
    BY DEF Keys
  <1>2. PICK s : s = [conn[k] EXCEPT !.reading = FALSE]
    OBVIOUS
  <1>3. conn[k] \in ConnStates
    BY DEF IInv, TypeOK, Keys
  <1>4. s \in ConnStates /\ s.connected = conn[k].connected
    BY <1>2, <1>3, ConnFields
  <1>5. conn' = [conn EXCEPT ![k] = s]
    BY <1>1, <1>2 DEF ReceiverQuits
  <1>6. Calmer(conn')
    BY <1>4, <1>5, OneConn DEF IInv
  <1>7. TypeOK'
    BY <1>6 DEF ReceiverQuits, IInv, TypeOK, Calmer, Keys
  <1>8. FailedNotConnected'
    BY <1>6, Disconnected DEF ReceiverQuits
  <1> QED BY <1>7, <1>8 DEF IInv

LEMMA CleanupStep ==
  ASSUME IInv, NEW v \in Servers, NEW c \in Conns, Cleanup(v, c)
  PROVE  IInv'
  <1>1. d' \in [Servers -> DStates]
    <2>1. d \in [Servers -> DStates]
      BY DEF IInv, TypeOK, DStates
    <2>2. PICK n \in Conns \cup {NoConn} : d' = [d EXCEPT ![v].conn = n]
      <3>1. d[v].conn \in Conns \cup {NoConn}
        BY <2>1 DEF DStates
      <3>2. d' = [d EXCEPT ![v].conn = IF d[v].conn = c THEN NoConn ELSE d[v].conn]
        BY DEF Cleanup
      <3> QED BY <3>1, <3>2
    <2> QED BY <2>1, <2>2 DEF DStates
  <1>2. Calmer(conn')
    <2>1. PICK k \in Keys : k = <<v, c>>
      BY DEF Keys
    <2>2. conn' = [conn EXCEPT ![k] = Unused]
      BY <2>1 DEF Cleanup
    <2> QED BY <2>2, NewConn, OneConn DEF IInv
  <1>3. /\ connMap' \in [Servers -> Conns \cup {NoConn}]
        /\ record' \in [Servers -> Conns \cup {NoConn}]
    BY DEF Cleanup, IInv, TypeOK
  <1>4. TypeOK'
    BY <1>1, <1>2, <1>3 DEF Cleanup, IInv, TypeOK, DStates, Calmer, Keys
  <1>5. FailedNotConnected'
    <2> SUFFICES ASSUME NEW u \in Servers, fail'[u], connMap'[u] # NoConn
                 PROVE  ~conn'[<<u, connMap'[u]>>].connected
      BY DEF FailedNotConnected
    <2>1. connMap'[u] = connMap[u] /\ fail[u]
      BY DEF Cleanup, IInv, TypeOK
    <2>2. <<u, connMap[u]>> \in Keys
      BY <2>1 DEF IInv, TypeOK, Keys
    <2>3. ~conn[<<u, connMap[u]>>].connected
      BY <2>1 DEF IInv, FailedNotConnected
    <2> QED BY <1>2, <2>1, <2>2, <2>3 DEF Calmer
  <1> QED BY <1>4, <1>5 DEF IInv

LEMMA ServerTalksStep ==
  ASSUME IInv, NEW v \in Servers, ServerTalks(v)
  PROVE  IInv'
  <1>1. Calmer(conn')
    <2>1. PICK k : k = <<v, record[v]>>
      OBVIOUS
    <2>2. PICK s : s = [conn[k] EXCEPT !.silent = 0]
      OBVIOUS
    <2>3. conn' = [conn EXCEPT ![k] = s]
      BY <2>1, <2>2 DEF ServerTalks
    <2>4. k \in Keys => s \in ConnStates /\ s.connected = conn[k].connected
      <3>1. 0 \in 0..(ReportToServerInterval + 1)
        BY ACDiscoveryAssumption
      <3>2. k \in Keys => conn[k] \in ConnStates
        BY DEF IInv, TypeOK, Keys
      <3> QED BY <2>2, <3>1, <3>2, ConnFields
    <2> QED BY <2>3, <2>4, OneConn DEF IInv
  <1>2. TypeOK'
    BY <1>1 DEF ServerTalks, IInv, TypeOK, Calmer, Keys
  <1>3. FailedNotConnected'
    BY <1>1, Disconnected DEF ServerTalks
  <1> QED BY <1>2, <1>3 DEF IInv

LEMMA OutsideStep ==
  ASSUME IInv,
         \/ Watch \/ Started \/ CalmDown
         \/ \E v \in Servers : ServerOnline(v) \/ ServerStops(v) \/ ServerStarts(v)
  PROVE  IInv'
  <1>1. UNCHANGED <<d, reply, fail, via, connMap, conn>>
    BY DEF Watch, Started, CalmDown, ServerOnline, ServerStops, ServerStarts
  <1>2. FailedNotConnected'
    BY <1>1 DEF IInv, FailedNotConnected
  <1>3. /\ aak' \in [Servers -> BOOLEAN] /\ up' \subseteq Servers
        /\ record' \in [Servers -> Conns \cup {NoConn}]
    BY DEF Watch, Started, CalmDown, ServerOnline, ServerStops, ServerStarts, IInv, TypeOK
  <1>4. acceptInput' \in BOOLEAN /\ calm' \in BOOLEAN /\ running' \in BOOLEAN
    <2>1. calm' \in BOOLEAN /\ running' \in BOOLEAN
      BY DEF Watch, Started, CalmDown, ServerOnline, ServerStops, ServerStarts, IInv, TypeOK
    <2>2. acceptInput' \in BOOLEAN
      BY Zenon DEF Watch, Started, CalmDown, ServerOnline, ServerStops, ServerStarts, IInv, TypeOK
    <2> QED BY <2>1, <2>2
  <1> QED BY <1>1, <1>2, <1>3, <1>4 DEF IInv, TypeOK

-----------------------------------------------------------------------------
LEMMA Initially ==
  ASSUME Init
  PROVE  IInv
  <1>1. 0 \in 0..(ServerDiscoveryRetryBeforeFail - 1)
    BY ACDiscoveryAssumption
  <1>2. conn \in [Keys -> ConnStates]
    BY NewConn DEF Init, Keys
  <1>3. TypeOK
    BY <1>1, <1>2 DEF Init, TypeOK, Keys
  <1>4. FailedNotConnected
    BY DEF Init, FailedNotConnected
  <1> QED BY <1>3, <1>4 DEF IInv

LEMMA Inductive ==
  ASSUME IInv, [Next]_vars
  PROVE  IInv'
  <1>1. ASSUME NEW v \in Servers, Discovery(v) \/ Abandon(v)
        PROVE  IInv'
    BY <1>1, LookStep, SendStep, AnswerStep, HandleAAKStep, HandleErrorStep, WakeStep
       DEF Discovery
  <1>2. ASSUME NEW v \in Servers, NEW c \in Conns,
               Routine(v, c) \/ Blocked(v, c) \/ ReceiverQuits(v, c)
        PROVE  IInv'
    <2>1. CASE \E from, to \in {"free", "select", "deaf", "left"} : Move(v, c, from, to)
      BY <2>1, MoveStep
    <2>2. CASE SeesClose(v, c) \/ IdleTimeout(v, c) \/ Blocked(v, c)
      <3>1. \E from, to \in {"free", "select", "deaf", "left"} : Move(v, c, from, to)
        BY <2>2 DEF SeesClose, IdleTimeout, Blocked
      <3> QED BY <2>1, <3>1
    <2> QED BY <1>2, <2>2, CleanupStep, ReceiverQuitsStep DEF Routine
  <1>3. ASSUME NEW v \in Servers, ServerTalks(v)
        PROVE  IInv'
    BY <1>3, ServerTalksStep
  <1>4. CASE \/ Watch \/ Started \/ CalmDown
             \/ \E v \in Servers : ServerOnline(v) \/ ServerStops(v) \/ ServerStarts(v)
    BY <1>4, OutsideStep
  <1>5. CASE UNCHANGED vars
    BY <1>5 DEF vars, IInv, TypeOK, FailedNotConnected
  <1> QED BY <1>1, <1>2, <1>3, <1>4, <1>5 DEF Next

THEOREM Invariance == Spec => []IInv
  BY Initially, Inductive, PTL DEF Spec

\* The discoveries, the connections and the records keep their types, and no discovery
\* counts failures beyond the one that resets the count.
THEOREM TypeCorrect == Spec => []TypeOK
  <1>1. IInv => TypeOK
    BY DEF IInv
  <1> QED BY <1>1, Invariance, PTL

\* A server counted as failed is never at the same time connected, over any dials,
\* timeouts, cleanups and restarts, for any number of servers and connections.
THEOREM FailedNeverConnected == Spec => []FailedNotConnected
  <1>1. IInv => FailedNotConnected
    BY DEF IInv
  <1> QED BY <1>1, Invariance, PTL


-----------------------------------------------------------------------------
(* The entries of remoteConnectionMap.                                     *)

Usable(s) == s.pc # "free" /\ ~s.closed

LEMMA UsableFields ==
  ASSUME NEW s \in ConnStates, Usable(s)
  PROVE  /\ \A pc \in {"select", "deaf", "left"} : Usable([s EXCEPT !.pc = pc])
         /\ Usable([s EXCEPT !.reading = FALSE]) /\ Usable([s EXCEPT !.connected = TRUE])
         /\ \A n : Usable([s EXCEPT !.silent = n])
         /\ \A x : Usable([s EXCEPT !.connected = x, !.closed = FALSE])
  BY DEF ConnStates, Usable

LEMMA NewUsable ==
  Usable([Unused EXCEPT !.pc = "select"])
  BY DEF Unused, Usable

\* A step that adds no entry leaves usable what an entry names.
LEMMA EntriesKept ==
  ASSUME TypeOK, NoClosedEntry,
         \A v \in Servers : connMap'[v] \in {connMap[v], NoConn},
         \A v \in Servers, c \in Conns :
            connMap'[v] = c /\ Usable(conn[<<v, c>>]) => Usable(conn'[<<v, c>>])
  PROVE  NoClosedEntry'
  <1> SUFFICES ASSUME NEW v \in Servers, connMap'[v] # NoConn
               PROVE  Usable(conn'[<<v, connMap'[v]>>])
    BY DEF NoClosedEntry, Usable
  <1>1. connMap'[v] = connMap[v] /\ connMap[v] \in Conns
    BY DEF TypeOK
  <1>2. Usable(conn[<<v, connMap[v]>>])
    BY <1>1 DEF NoClosedEntry, Usable
  <1> QED BY <1>1, <1>2

\* A step that changes the fields of one connection, not its closing.
LEMMA OneKept ==
  ASSUME TypeOK, NoClosedEntry, NEW k, NEW s, conn' = [conn EXCEPT ![k] = s],
         k \in Keys /\ Usable(conn[k]) => Usable(s), UNCHANGED connMap
  PROVE  NoClosedEntry'
  <1>1. conn \in [Keys -> ConnStates]
    BY DEF TypeOK, Keys
  <1>2. ASSUME NEW v \in Servers, NEW c \in Conns, Usable(conn[<<v, c>>])
        PROVE  Usable(conn'[<<v, c>>])
    <2>1. <<v, c>> \in Keys
      BY DEF Keys
    <2>2. CASE <<v, c>> = k
      BY <1>1, <1>2, <2>1, <2>2
    <2>3. CASE <<v, c>> # k
      <3>1. conn'[<<v, c>>] = conn[<<v, c>>]
        BY <1>1, <2>1, <2>3
      <3> QED BY <1>2, <3>1
    <2> QED BY <2>2, <2>3
  <1> QED BY <1>2, EntriesKept

LEMMA EntryDiscovery ==
  ASSUME TypeOK, NoClosedEntry, NEW v \in Servers, Discovery(v)
  PROVE  NoClosedEntry'
  <1>t. conn \in [Keys -> ConnStates] /\ connMap \in [Servers -> Conns \cup {NoConn}]
    BY DEF TypeOK, Keys
  <1>1. CASE Begin(v) \/ Look(v) \/ TransactionFails(v)
    BY <1>1 DEF Begin, Look, TransactionFails, NoClosedEntry
  <1>2. CASE SendMessage(v)
    <2>1. PICK c \in Conns :
            \/ UNCHANGED <<connMap, conn>>
            \/ /\ connMap' = [connMap EXCEPT ![v] = c]
               /\ conn' = [conn EXCEPT ![<<v, c>>] = [Unused EXCEPT !.pc = "select"]]
      BY <1>2 DEF SendMessage
    <2>2. CASE UNCHANGED <<connMap, conn>>
      BY <2>2 DEF NoClosedEntry
    <2>3. CASE /\ connMap' = [connMap EXCEPT ![v] = c]
               /\ conn' = [conn EXCEPT ![<<v, c>>] = [Unused EXCEPT !.pc = "select"]]
      <3> SUFFICES ASSUME NEW u \in Servers, connMap'[u] # NoConn
                   PROVE  Usable(conn'[<<u, connMap'[u]>>])
        BY DEF NoClosedEntry, Usable
      <3>1. CASE u = v
        <4>1. connMap'[u] = c /\ conn'[<<u, c>>] = [Unused EXCEPT !.pc = "select"]
          BY <1>t, <2>3, <3>1 DEF Keys
        <4> QED BY <4>1, NewUsable
      <3>2. CASE u # v
        <4>1. connMap'[u] = connMap[u] /\ conn'[<<u, connMap[u]>>] = conn[<<u, connMap[u]>>]
          BY <1>t, <2>3, <3>2 DEF Keys
        <4> QED BY <4>1 DEF NoClosedEntry, Usable
      <3> QED BY <3>1, <3>2
    <2> QED BY <2>1, <2>2, <2>3
  <1>3. CASE ReceiveAAK(v)
    <2>1. PICK k, s : k = <<v, via[v]>> /\ s = [conn[k] EXCEPT !.silent = 0]
      OBVIOUS
    <2>2. conn' = [conn EXCEPT ![k] = s] /\ UNCHANGED connMap
      BY <1>3, <2>1 DEF ReceiveAAK
    <2>3. k \in Keys /\ Usable(conn[k]) => Usable(s)
      BY <1>t, <2>1, UsableFields
    <2> QED BY <2>2, <2>3, OneKept
  <1>4. CASE HandleAAK(v)
    <2>1. PICK k, s : k = <<v, connMap[v]>> /\ s = [conn[k] EXCEPT !.connected = TRUE]
      OBVIOUS
    <2>2. k \in Keys /\ Usable(conn[k]) => Usable(s)
      BY <1>t, <2>1, UsableFields
    <2>3. UNCHANGED connMap /\ (conn' = conn \/ conn' = [conn EXCEPT ![k] = s])
      BY <1>4, <2>1 DEF HandleAAK
    <2>4. CASE conn' = conn
      BY <2>3, <2>4 DEF NoClosedEntry
    <2> QED BY <2>2, <2>3, <2>4, OneKept
  <1>5. CASE HandleError(v)
    <2> DEFINE third == (d[v].failCount + 1) % ServerDiscoveryRetryBeforeFail = 0
               e == <<v, d[v].conn>>
    <2>1. /\ connMap' = [connMap EXCEPT ![v] = IF third THEN NoConn ELSE @]
          /\ conn' = [k \in Servers \X Conns |->
                        [conn[k] EXCEPT !.connected = @ /\ k # e,
                                        !.closed = @ \/ (third /\ k = <<v, connMap[v]>>)]]
      BY <1>5 DEF HandleError
    <2> HIDE DEF third, e
    <2>2. \A u \in Servers : connMap'[u] \in {connMap[u], NoConn}
      BY <1>t, <2>1
    <2>3. ASSUME NEW u \in Servers, NEW c \in Conns, connMap'[u] = c,
                 Usable(conn[<<u, c>>])
          PROVE  Usable(conn'[<<u, c>>])
      <3>1. PICK k \in Keys, s \in ConnStates : k = <<u, c>> /\ s = conn[k]
        BY <1>t DEF Keys
      <3>2. ~(third /\ k = <<v, connMap[v]>>)
        <4> SUFFICES ASSUME third, k = <<v, connMap[v]>> PROVE FALSE
          OBVIOUS
        <4>1. u = v
          BY <3>1
        <4>2. connMap' = [connMap EXCEPT ![v] = NoConn]
          BY <2>1
        <4>3. connMap'[v] = NoConn /\ NoConn \notin Conns
          BY <1>t, <4>2 DEF Conns, NoConn
        <4> QED BY <2>3, <4>1, <4>3
      <3>3. s.pc # "free" /\ ~s.closed
        BY <2>3, <3>1 DEF Usable
      <3>4. PICK x, y \in BOOLEAN : /\ x <=> s.connected /\ k # e
                                    /\ y <=> s.closed \/ (third /\ k = <<v, connMap[v]>>)
        OBVIOUS
      <3>5. s.connected \in BOOLEAN /\ s.closed \in BOOLEAN
        BY DEF ConnStates
      <3>6. conn'[k] = [s EXCEPT !.connected = x, !.closed = y]
        BY <2>1, <3>1, <3>4, <3>5 DEF Keys
      <3>7. PICK new : new = [s EXCEPT !.connected = x, !.closed = y]
        OBVIOUS
      <3>8. ~y
        BY <3>2, <3>3, <3>4
      <3>9. Usable(new)
        BY <3>3, <3>7, <3>8, UsableFields DEF Usable
      <3> QED BY <3>1, <3>6, <3>7, <3>9
    <2> QED BY <2>2, <2>3, EntriesKept
  <1>6. CASE Wake(v)
    <2>1. PICK k, s : k = <<v, connMap[v]>> /\ s = [conn[k] EXCEPT !.silent = @ + 1]
      OBVIOUS
    <2>2. k \in Keys /\ Usable(conn[k]) => Usable(s)
      BY <1>t, <2>1, UsableFields
    <2>3. UNCHANGED connMap /\ (conn' = conn \/ conn' = [conn EXCEPT ![k] = s])
      BY <1>6, <2>1 DEF Wake
    <2>4. CASE conn' = conn
      BY <2>3, <2>4 DEF NoClosedEntry
    <2> QED BY <2>2, <2>3, <2>4, OneKept
  <1> QED BY <1>1, <1>2, <1>3, <1>4, <1>5, <1>6 DEF Discovery

LEMMA EntryRoutine ==
  ASSUME TypeOK, NoClosedEntry, NEW v \in Servers, NEW c \in Conns,
         Routine(v, c) \/ Blocked(v, c) \/ ReceiverQuits(v, c)
  PROVE  NoClosedEntry'
  <1>t. conn \in [Keys -> ConnStates] /\ connMap \in [Servers -> Conns \cup {NoConn}]
    BY DEF TypeOK, Keys
  <1>1. ASSUME NEW from, NEW to \in {"deaf", "left"}, Move(v, c, from, to)
        PROVE  NoClosedEntry'
    <2>1. PICK k, s : k = <<v, c>> /\ s = [conn[k] EXCEPT !.pc = to]
      OBVIOUS
    <2>2. k \in Keys /\ Usable(conn[k]) => Usable(s)
      BY <1>t, <2>1, UsableFields
    <2>3. conn' = [conn EXCEPT ![k] = s] /\ UNCHANGED connMap
      BY <1>1, <2>1 DEF Move
    <2> QED BY <2>2, <2>3, OneKept
  <1>2. CASE SeesClose(v, c) \/ Blocked(v, c) \/ IdleTimeout(v, c)
    <2>1. \E from, to : to \in {"deaf", "left"} /\ Move(v, c, from, to)
      BY <1>2 DEF SeesClose, Blocked, IdleTimeout
    <2> QED BY <1>1, <2>1
  <1>3. CASE Cleanup(v, c)
    <2>1. /\ connMap' = [connMap EXCEPT ![v] = NoConn]
          /\ conn' = [conn EXCEPT ![<<v, c>>] = Unused]
      BY <1>3 DEF Cleanup
    <2>2. \A u \in Servers : connMap'[u] \in {connMap[u], NoConn}
      BY <1>t, <2>1
    <2>3. \A u \in Servers, e \in Conns :
            connMap'[u] = e /\ Usable(conn[<<u, e>>]) => Usable(conn'[<<u, e>>])
      BY <1>t, <2>1 DEF Keys, Conns, NoConn
    <2> QED BY <2>2, <2>3, EntriesKept
  <1>4. CASE ReceiverQuits(v, c)
    <2>1. PICK k, s : k = <<v, c>> /\ s = [conn[k] EXCEPT !.reading = FALSE]
      OBVIOUS
    <2>2. k \in Keys /\ Usable(conn[k]) => Usable(s)
      BY <1>t, <2>1, UsableFields
    <2>3. conn' = [conn EXCEPT ![k] = s] /\ UNCHANGED connMap
      BY <1>4, <2>1 DEF ReceiverQuits
    <2> QED BY <2>2, <2>3, OneKept
  <1> QED BY <1>2, <1>3, <1>4 DEF Routine

LEMMA EntryStep ==
  ASSUME TypeOK, NoClosedEntry, [Next]_vars
  PROVE  NoClosedEntry'
  <1>1. ASSUME NEW v \in Servers, ServerTalks(v)
        PROVE  NoClosedEntry'
    <2>1. PICK k, s : k = <<v, record[v]>> /\ s = [conn[k] EXCEPT !.silent = 0]
      OBVIOUS
    <2>2. k \in Keys /\ Usable(conn[k]) => Usable(s)
      BY <2>1, UsableFields DEF TypeOK, Keys
    <2>3. conn' = [conn EXCEPT ![k] = s] /\ UNCHANGED connMap
      BY <1>1, <2>1 DEF ServerTalks
    <2> QED BY <2>2, <2>3, OneKept
  <1>2. CASE \/ Watch \/ Started \/ CalmDown \/ UNCHANGED vars
             \/ \E v \in Servers : \/ Abandon(v) \/ ServerOnline(v)
                                   \/ ServerStops(v) \/ ServerStarts(v)
    <2>1. UNCHANGED <<connMap, conn>>
      BY <1>2 DEF Watch, Started, CalmDown, Abandon, ServerOnline, ServerStops, ServerStarts, vars
    <2> QED BY <2>1 DEF NoClosedEntry
  <1> QED BY <1>1, <1>2, EntryDiscovery, EntryRoutine DEF Next

\* An entry of remoteConnectionMap is never a connection that was closed or has ended,
\* whichever of the discovery and the routines of old and new connections removes entries.
THEOREM EntriesNeverClosed == Spec => []NoClosedEntry
  <1>1. Init => NoClosedEntry
    BY DEF Init, NoClosedEntry
  <1>2. TypeOK /\ NoClosedEntry /\ [Next]_vars => NoClosedEntry'
    BY EntryStep
  <1> QED BY <1>1, <1>2, TypeCorrect, PTL DEF Spec
=============================================================================
