----------------------------- MODULE ACDiscovery -----------------------------
(***************************************************************************)
(* How an AC keeps itself registered with its servers                      *)
(* (endpoints/ac/udpac.go): serverDiscovery of each server, which reports  *)
(* with NHP_AOL and counts failures, sendMessageRoutine, which dials the   *)
(* connections, connectionRoutine with its cleanup, and the watcher of     *)
(* maintainServerConnectionRoutine, which accepts all input when every     *)
(* server has failed.  The server's side is HandleACOnline and its restart.*)
(*                                                                         *)
(* The servers are those configured at the start: a reload of server.toml  *)
(* replaces serverPeerMap without a signal to this cycle, and AddServerPeer*)
(* and RemoveServerPeer, which signal it, are never called.  Stop is left  *)
(* out.  Time is counted in rounds of serverDiscovery; a timer of seconds  *)
(* is taken to fire after every routine that can run at once has run.      *)
(***************************************************************************)
EXTENDS Naturals, FiniteSets

CONSTANTS
    Servers,
    ServerDiscoveryRetryBeforeFail,
    ReportToServerInterval,     \* in rounds of MinialServerDiscoveryInterval
    ConnBound                   \* bound: connections at a time per server

ASSUME ACDiscoveryAssumption ==
    /\ Servers # {}
    /\ ServerDiscoveryRetryBeforeFail \in Nat \ {0}
    /\ ReportToServerInterval \in Nat
    /\ ConnBound \in Nat

VARIABLES
    d,          \* serverDiscovery of each server, with its local variables
    reply,      \* what it was sent over ResponseMsgCh
    fail,       \* its serverFailCount
    via,        \* the connection of the NHP_AOL it waits for; NoConn if none
    aak,        \* an NHP_AAK is on its way to it
    connMap,    \* remoteConnectionMap
    conn,       \* the connections and their routines
    acceptInput,\* IPTables.AcceptInputMode
    up,         \* servers that are running
    record,     \* each server's record of this AC: the connection it came over
    calm,       \* from now on no message is lost and no server stops
    running     \* IsRunning: Start has set it, after it started the routines

vars == <<d, reply, fail, via, aak, connMap, conn, acceptInput, up, record, calm, running>>

NoConn == 0
Conns == 1..ConnBound

\* A connection's routine is in its loop, waits on the nil channels Close leaves
\* behind, or has left its loop.
ConnStates == [pc : {"free", "select", "deaf", "left"},
               closed : BOOLEAN, connected : BOOLEAN, reading : BOOLEAN,
               silent : 0..(ReportToServerInterval + 1)]

TypeOK ==
    /\ d \in [Servers -> [pc : {"start", "look", "send", "keepalive", "wait", "handle",
                                "nap", "stuck", "ended", "crashed"},
                          conn : Conns \cup {NoConn},
                          failCount : 0..(ServerDiscoveryRetryBeforeFail - 1)]]
    /\ reply \in [Servers -> {"none", "AAK", "error"}]
    /\ fail \in [Servers -> BOOLEAN]
    /\ via \in [Servers -> Conns \cup {NoConn}]
    /\ aak \in [Servers -> BOOLEAN]
    /\ connMap \in [Servers -> Conns \cup {NoConn}]
    /\ conn \in [Servers \X Conns -> ConnStates]
    /\ acceptInput \in BOOLEAN
    /\ up \subseteq Servers
    /\ record \in [Servers -> Conns \cup {NoConn}]
    /\ calm \in BOOLEAN /\ running \in BOOLEAN

Unused == [pc |-> "free", closed |-> FALSE, connected |-> FALSE, reading |-> TRUE,
           silent |-> 0]

Init ==
    /\ d = [v \in Servers |-> [pc |-> "start", conn |-> NoConn, failCount |-> 0]]
    /\ reply = [v \in Servers |-> "none"]
    /\ fail = [v \in Servers |-> FALSE]
    /\ via = [v \in Servers |-> NoConn]
    /\ aak = [v \in Servers |-> FALSE]
    /\ connMap = [v \in Servers |-> NoConn]
    /\ conn = [k \in Servers \X Conns |-> Unused]
    /\ acceptInput = FALSE
    /\ up = Servers
    /\ record = [v \in Servers |-> NoConn]
    /\ calm = FALSE /\ running = FALSE

Crashed == \E v \in Servers : d[v].pc = "crashed"
Open(v, c) == conn[<<v, c>>].pc = "select" /\ ~conn[<<v, c>>].closed
Hears(v, c) == Open(v, c) /\ conn[<<v, c>>].reading

-----------------------------------------------------------------------------
(* serverDiscovery.                                                        *)

\* It returns at once when its server's address is nil: no name of it was resolved.
Begin(v) ==
    /\ d[v].pc = "start"
    /\ \E pc \in {"look", "ended"} : d' = [d EXCEPT ![v].pc = pc]
    /\ UNCHANGED <<reply, fail, via, aak, connMap, conn, acceptInput, up, record, calm, running>>

\* Faulty variant: a connection once confirmed is never reported over again.
LookConnectedOnly(v) ==
    LET c == connMap[v]
        fresh == c # NoConn /\ conn[<<v, c>>].connected
    IN
    /\ d[v].pc = "look"
    /\ \E pc \in IF fresh THEN {"nap", "keepalive"}
             ELSE {IF running THEN "send" ELSE "ended"} :
          d' = [d EXCEPT ![v].pc = pc, ![v].conn = c]
    /\ UNCHANGED <<reply, fail, via, aak, connMap, conn, acceptInput, up, record, calm, running>>

\* It looks for a connection, and reports over it, or over a new one, unless it
\* is connected and has heard from the server lately; NHP_KPL if it has been
\* silent itself.  It returns when it has to report before Start set running.
Look(v) ==
    LET c == connMap[v]
        fresh == /\ c # NoConn /\ conn[<<v, c>>].connected
                 /\ conn[<<v, c>>].silent <= ReportToServerInterval
    IN
    /\ d[v].pc = "look"
    /\ \E pc \in IF fresh THEN {"nap", "keepalive"}
             ELSE {IF running THEN "send" ELSE "ended"} :
          d' = [d EXCEPT ![v].pc = pc, ![v].conn = c]
    /\ UNCHANGED <<reply, fail, via, aak, connMap, conn, acceptInput, up, record, calm, running>>

\* sendMessageRoutine takes the message and finds the connection or dials one.
SendMessage(v) ==
    \E c \in Conns :
        /\ d[v].pc \in {"send", "keepalive"}
        /\ d' = [d EXCEPT ![v].pc = IF @ = "send" THEN "wait" ELSE "nap"]
        /\ via' = [via EXCEPT ![v] = IF d[v].pc = "send" THEN c ELSE @]
        /\ \/ /\ connMap[v] = c
              /\ UNCHANGED <<connMap, conn>>
           \/ /\ connMap[v] = NoConn
              /\ conn[<<v, c>>].pc = "free"
              /\ connMap' = [connMap EXCEPT ![v] = c]
              /\ conn' = [conn EXCEPT ![<<v, c>>] = [Unused EXCEPT !.pc = "select"]]
        /\ UNCHANGED <<reply, fail, aak, acceptInput, up, record, calm, running>>

\* It cannot dial, or msgToPacketQueue is full: nobody answers ResponseMsgCh.
Abandon(v) ==
    /\ ~calm /\ d[v].pc = "send"
    /\ d' = [d EXCEPT ![v].pc = "stuck"]
    /\ UNCHANGED <<reply, fail, via, aak, connMap, conn, acceptInput, up, record, calm, running>>

\* The NHP_AAK is received over the connection, the response handed over.
ReceiveAAK(v) ==
    /\ d[v].pc = "wait" /\ aak[v]
    /\ Hears(v, via[v])
    /\ d' = [d EXCEPT ![v].pc = "handle"]
    /\ reply' = [reply EXCEPT ![v] = "AAK"]
    /\ aak' = [aak EXCEPT ![v] = FALSE]
    /\ conn' = [conn EXCEPT ![<<v, via[v]>>].silent = 0]
    /\ UNCHANGED <<fail, via, connMap, acceptInput, up, record, calm, running>>

\* The transaction times out, or ends with its connection.
TransactionFails(v) ==
    /\ d[v].pc = "wait"
    /\ ~calm \/ v \notin up \/ ~Hears(v, via[v])
    /\ d' = [d EXCEPT ![v].pc = "handle"]
    /\ reply' = [reply EXCEPT ![v] = "error"]
    /\ aak' = [aak EXCEPT ![v] = FALSE]
    /\ UNCHANGED <<fail, via, connMap, conn, acceptInput, up, record, calm, running>>

\* Faulty variant: the local count is reset, the shared one is not.
HandleAAKKeepsFail(v) ==
    /\ d[v].pc = "handle" /\ reply[v] = "AAK"
    /\ reply' = [reply EXCEPT ![v] = "none"] /\ via' = [via EXCEPT ![v] = NoConn]
    /\ d' = [d EXCEPT ![v].pc = IF connMap[v] = NoConn THEN "crashed" ELSE "nap",
                      ![v].failCount = 0, ![v].conn = NoConn]
    /\ conn' = IF connMap[v] = NoConn THEN conn
               ELSE [conn EXCEPT ![<<v, connMap[v]>>].connected = TRUE]
    /\ UNCHANGED <<fail, aak, connMap, acceptInput, up, record, calm, running>>

\* "server discovery succeeded": the connection is looked up again, and used
\* without a test.
HandleAAK(v) ==
    /\ d[v].pc = "handle" /\ reply[v] = "AAK"
    /\ reply' = [reply EXCEPT ![v] = "none"] /\ via' = [via EXCEPT ![v] = NoConn]
    /\ fail' = [fail EXCEPT ![v] = FALSE]
    /\ d' = [d EXCEPT ![v].pc = IF connMap[v] = NoConn THEN "crashed" ELSE "nap",
                      ![v].failCount = 0, ![v].conn = NoConn]
    /\ conn' = IF connMap[v] = NoConn THEN conn
               ELSE [conn EXCEPT ![<<v, connMap[v]>>].connected = TRUE]
    /\ UNCHANGED <<aak, connMap, acceptInput, up, record, calm, running>>

\* Faulty variant: a server fails with one failure more than configured.
HandleErrorOffByOne(v) ==
    LET n == (d[v].failCount + 1) % (ServerDiscoveryRetryBeforeFail + 1)
        c == connMap[v]
        third == n = 0
    IN
    /\ d[v].pc = "handle" /\ reply[v] = "error"
    /\ reply' = [reply EXCEPT ![v] = "none"] /\ via' = [via EXCEPT ![v] = NoConn]
    /\ fail' = [fail EXCEPT ![v] = @ \/ third]
    /\ d' = [d EXCEPT ![v].pc = IF third /\ c = NoConn THEN "crashed" ELSE "nap",
                      ![v].failCount = n, ![v].conn = NoConn]
    /\ connMap' = [connMap EXCEPT ![v] = IF third THEN NoConn ELSE @]
    /\ conn' = [k \in Servers \X Conns |->
                  [conn[k] EXCEPT !.connected = @ /\ k # <<v, d[v].conn>>,
                                  !.closed = @ \/ (third /\ k = <<v, c>>)]]
    /\ UNCHANGED <<aak, acceptInput, up, record, calm, running>>

\* What an error does to the connections: the one found at first is no longer
\* connected; the third failure in a row removes and closes the one there is.
HandleError(v) ==
    LET n == (d[v].failCount + 1) % ServerDiscoveryRetryBeforeFail
        c == connMap[v]
        third == n = 0
    IN
    /\ d[v].pc = "handle" /\ reply[v] = "error"
    /\ reply' = [reply EXCEPT ![v] = "none"] /\ via' = [via EXCEPT ![v] = NoConn]
    /\ fail' = [fail EXCEPT ![v] = @ \/ third]
    /\ d' = [d EXCEPT ![v].pc = IF third /\ c = NoConn THEN "crashed" ELSE "nap",
                      ![v].failCount = n, ![v].conn = NoConn]
    /\ connMap' = [connMap EXCEPT ![v] = IF third THEN NoConn ELSE @]
    /\ conn' = [k \in Servers \X Conns |->
                  [conn[k] EXCEPT !.connected = @ /\ k # <<v, d[v].conn>>,
                                  !.closed = @ \/ (third /\ k = <<v, c>>)]]
    /\ UNCHANGED <<aak, acceptInput, up, record, calm, running>>

\* MinialServerDiscoveryInterval has passed.
Wake(v) ==
    /\ d[v].pc = "nap"
    /\ \A k \in Servers \X Conns :
          conn[k].pc # "left" /\ (conn[k].closed => conn[k].pc = "deaf")
    /\ d' = [d EXCEPT ![v].pc = "look"]
    /\ conn' = IF connMap[v] = NoConn \/ conn[<<v, connMap[v]>>].silent > ReportToServerInterval
               THEN conn ELSE [conn EXCEPT ![<<v, connMap[v]>>].silent = @ + 1]
    /\ UNCHANGED <<reply, fail, via, aak, connMap, acceptInput, up, record, calm, running>>

-----------------------------------------------------------------------------
(* connectionRoutine.                                                      *)

Move(v, c, from, to) ==
    /\ conn[<<v, c>>].pc = from
    /\ conn' = [conn EXCEPT ![<<v, c>>].pc = to]
    /\ UNCHANGED <<d, reply, fail, via, aak, connMap, acceptInput, up, record, calm, running>>

\* A read error that is not the close (the port is unreachable) ends
\* recvPacketRoutine all the same: n is 0.
ReceiverQuits(v, c) ==
    /\ v \notin up /\ Open(v, c)
    /\ conn' = [conn EXCEPT ![<<v, c>>].reading = FALSE]
    /\ UNCHANGED <<d, reply, fail, via, aak, connMap, acceptInput, up, record, calm, running>>

\* The queues it waits on are closed under it; a routine that handles a packet
\* meanwhile comes back to find only nil channels.
SeesClose(v, c) ==
    conn[<<v, c>>].closed /\ \E pc \in {"left", "deaf"} : Move(v, c, "select", pc)

\* A BlockSignal, after too many threats on this connection.
Blocked(v, c) == ~calm /\ ~conn[<<v, c>>].closed /\ Move(v, c, "select", "left")

\* The idle timeout, which keepalives keep off a connection that is in use.
IdleTimeout(v, c) ==
    \/ connMap[v] # c /\ via[v] # c /\ Move(v, c, "select", "left")
    \/ Move(v, c, "deaf", "left")

\* The deferred cleanup deletes the entry of its address, and closes.  The
\* number is free again: d and record no longer refer to anything by it.
Cleanup(v, c) ==
    /\ conn[<<v, c>>].pc = "left"
    /\ connMap' = [connMap EXCEPT ![v] = NoConn]
    /\ conn' = [conn EXCEPT ![<<v, c>>] = Unused]
    /\ d' = [d EXCEPT ![v].conn = IF @ = c THEN NoConn ELSE @]
    /\ record' = [record EXCEPT ![v] = IF @ = c THEN NoConn ELSE @]
    /\ UNCHANGED <<reply, fail, via, aak, acceptInput, up, calm, running>>

-----------------------------------------------------------------------------
(* The watcher, the servers and the network.                               *)

\* Faulty variant: the input is opened and never closed again.
WatchOpensOnly ==
    /\ acceptInput' = (acceptInput \/ \A v \in Servers : fail[v])
    /\ UNCHANGED <<d, reply, fail, via, aak, connMap, conn, up, record, calm, running>>

\* "check whether all server discovery failed. If so, open all blocked input"
Watch ==
    /\ acceptInput' = \A v \in Servers : fail[v]
    /\ UNCHANGED <<d, reply, fail, via, aak, connMap, conn, up, record, calm, running>>

\* HandleACOnline records the connection the NHP_AOL came over and answers.
ServerOnline(v) ==
    /\ v \in up /\ d[v].pc = "wait" /\ ~aak[v] /\ Open(v, via[v])
    /\ record' = [record EXCEPT ![v] = via[v]]
    /\ aak' = [aak EXCEPT ![v] = TRUE]
    /\ UNCHANGED <<d, reply, fail, via, connMap, conn, acceptInput, up, calm, running>>

\* An NHP_AOP of the server reaches the AC.
ServerTalks(v) ==
    /\ v \in up /\ record[v] # NoConn /\ Hears(v, record[v])
    /\ conn' = [conn EXCEPT ![<<v, record[v]>>].silent = 0]
    /\ UNCHANGED <<d, reply, fail, via, aak, connMap, acceptInput, up, record, calm, running>>

\* The server stops, or starts again with empty maps.
ServerStops(v) ==
    /\ ~calm /\ v \in up
    /\ up' = up \ {v} /\ record' = [record EXCEPT ![v] = NoConn]
    /\ aak' = [aak EXCEPT ![v] = FALSE]
    /\ UNCHANGED <<d, reply, fail, via, connMap, conn, acceptInput, calm, running>>

ServerStarts(v) ==
    /\ ~calm /\ v \notin up
    /\ up' = up \cup {v}
    /\ UNCHANGED <<d, reply, fail, via, aak, connMap, conn, acceptInput, record, calm, running>>

\* Start sets running after "go a.maintainServerConnectionRoutine()".
Started ==
    /\ ~running /\ running' = TRUE
    /\ UNCHANGED <<d, reply, fail, via, aak, connMap, conn, acceptInput, up, record, calm>>

CalmDown ==
    /\ ~calm /\ calm' = TRUE
    /\ UNCHANGED <<d, reply, fail, via, aak, connMap, conn, acceptInput, up, record,
                   running>>

-----------------------------------------------------------------------------
Discovery(v) ==
    \/ Begin(v) \/ Look(v) \/ SendMessage(v) \/ ReceiveAAK(v) \/ TransactionFails(v)
    \/ HandleAAK(v) \/ HandleError(v) \/ Wake(v)

Routine(v, c) ==
    \/ SeesClose(v, c) \/ IdleTimeout(v, c) \/ Cleanup(v, c)

Next ==
    /\ ~Crashed
    /\ \/ \E v \in Servers : \/ Discovery(v) \/ Abandon(v)
                             \/ ServerOnline(v) \/ ServerTalks(v)
                             \/ ServerStops(v) \/ ServerStarts(v)
                             \/ \E c \in Conns : \/ Routine(v, c)
                                                 \/ Blocked(v, c)
                                                 \/ ReceiverQuits(v, c)
       \/ Watch \/ Started \/ CalmDown

\* The goroutines run, timers fire, and a server that is up answers.
Fairness ==
    /\ WF_vars(~Crashed /\ Watch) /\ WF_vars(~Crashed /\ Started)
    /\ \A v \in Servers :
          /\ WF_vars(~Crashed /\ Discovery(v))
          /\ WF_vars(~Crashed /\ ServerOnline(v))
          /\ \A c \in Conns : WF_vars(~Crashed /\ Routine(v, c))

Spec == Init /\ [][Next]_vars
FairSpec == Spec /\ Fairness

-----------------------------------------------------------------------------
(* Properties.                                                             *)

Registered(v) == record[v] # NoConn /\ Hears(v, record[v])

\* What ends the discovery of a server for good: nothing starts it again.
Halted(v) == Crashed \/ d[v].pc \in {"stuck", "ended"}

\* A server counted as failed is not at the same time connected: the input is
\* never opened on account of a server the AC is connected to.
FailedNotConnected ==
    \A v \in Servers : fail[v] => connMap[v] = NoConn \/ ~conn[<<v, connMap[v]>>].connected

\* "keep interaction between ac and server": after any restarts, losses and
\* failed connections, an AC whose server is up comes back into the server's
\* records over an open connection, again and again.
ComesBack == \A v \in Servers : (calm /\ v \in up) ~> (Registered(v) \/ Halted(v))

\* The input opened while all servers had failed is closed again for good when
\* one of them is back.
InputClosesAgain ==
    \A v \in Servers : (<>[](calm /\ v \in up) /\ []~Halted(v)) => <>[]~acceptInput

\* What SendMessage relies on when it takes the connection it finds without a test: an
\* entry of remoteConnectionMap is a connection that is in use and was not closed, although
\* the discovery closes it and the connection's own routine deletes by address.  No run
\* lists it; it is proved in ACDiscoveryProofs.
NoClosedEntry ==
    \A v \in Servers : connMap[v] # NoConn =>
        /\ conn[<<v, connMap[v]>>].pc # "free"
        /\ ~conn[<<v, connMap[v]>>].closed

\* "conn must be available at this point", which the cleanup of the connection's routine
\* breaks (ACDiscoveryConn.cfg).
ConnAvailable == ~Crashed
=============================================================================
