-------------------------- MODULE KnockLoopProofs --------------------------
(***************************************************************************)
(* Theorems of KnockLoop, for any resources, editors, callers and bound.   *)
(***************************************************************************)
EXTENDS KnockLoop, FiniteSetTheorems, TLAPS

Clients == Routines \cup Callers

Busy(ed) == {e \in Editors : ed[e] # "idle"}

\* Every launch after the first, and every signal on its way to one, is one change.
SignalsCounted == launch + updated + Cardinality(Busy(editor)) <= calls + 1

\* Where Stop is, and what it has waited for.
Phases ==
    /\ running <=> stopper = "no"
    /\ "sendMsgCh" \in closed <=> stopper \in {"closing", "done"}
    /\ stopper \in {"closing", "done"} => loop \in {"off", "done"}

\* No routine runs beside a loop that is not there.
NoRoutines == loop \in {"off", "done"} => \A c \in Routines : At(c, "none")

OnItsWay(c) == client[c].pc \in {"send", "queued", "asked", "lost"} /\ client[c].what = "knock"

CallersWaited == stopper \in {"closing", "done"} => \A c \in Callers : ~OnItsWay(c)

IInv == TypeOK /\ SignalsCounted /\ Phases /\ NoRoutines /\ CallersWaited

-----------------------------------------------------------------------------
(* Clients.                                                                *)

Rests == [pc : {"none", "top", "pause"}]
Asks == [pc : Pending, what : {"knock", "exit"}, useCookie : BOOLEAN]
States == Rests \cup Asks

LEMMA StateFields ==
  ASSUME NEW s \in States
  PROVE  /\ s.pc \in {"none", "top", "pause"} \cup Pending
         /\ s.pc \in Pending => s \in Asks
         /\ s.pc \notin Pending => s \in Rests
  BY DEF States, Rests, Asks, Pending

LEMMA StatesMade ==
  /\ Nobody \in States /\ Nobody.pc = "none"
  /\ [pc |-> "top"] \in States /\ [pc |-> "pause"] \in States
  /\ \A what \in {"knock", "exit"}, useCookie \in BOOLEAN :
       /\ Request(what, useCookie) \in States
       /\ Request(what, useCookie).pc = "check"
  BY DEF Nobody, Request, States, Rests, Asks, Pending

LEMMA StateMoved ==
  ASSUME NEW s \in Asks, NEW pc \in Pending
  PROVE  /\ [s EXCEPT !.pc = pc] \in States
         /\ [s EXCEPT !.pc = pc].pc = pc
         /\ [s EXCEPT !.pc = pc].what = s.what
  BY DEF States, Asks, Pending

-----------------------------------------------------------------------------
(* Editors.                                                                *)

LEMMA BusyCounted ==
  ASSUME NEW ed, NEW new, NEW e \in Editors, NEW pc,
         ed \in [Editors -> {"idle", "test", "send"}],
         new = [ed EXCEPT ![e] = pc]
  PROVE  /\ Cardinality(Busy(ed)) \in Nat /\ Cardinality(Busy(new)) \in Nat
         /\ ed[e] = "idle" /\ pc # "idle" =>
              Cardinality(Busy(new)) = Cardinality(Busy(ed)) + 1
         /\ ed[e] # "idle" /\ pc = "idle" =>
              Cardinality(Busy(new)) = Cardinality(Busy(ed)) - 1
         /\ ed[e] # "idle" /\ pc # "idle" =>
              Cardinality(Busy(new)) = Cardinality(Busy(ed))
  <1>1. IsFiniteSet(Busy(ed)) /\ IsFiniteSet(Busy(new))
    BY FS_Subset, KnockLoopAssumption DEF Busy
  <1>2. ed[e] = "idle" /\ pc # "idle" => Busy(new) = Busy(ed) \cup {e} /\ e \notin Busy(ed)
    BY DEF Busy
  <1>3. ed[e] # "idle" /\ pc = "idle" => Busy(new) = Busy(ed) \ {e} /\ e \in Busy(ed)
    BY DEF Busy
  <1>4. ed[e] # "idle" /\ pc # "idle" => Busy(new) = Busy(ed)
    BY DEF Busy
  <1>5. Cardinality(Busy(ed)) \in Nat /\ Cardinality(Busy(new)) \in Nat
    BY <1>1, FS_CardinalityType
  <1>6. /\ Cardinality(Busy(ed) \cup {e}) =
             IF e \in Busy(ed) THEN Cardinality(Busy(ed)) ELSE Cardinality(Busy(ed)) + 1
        /\ Cardinality(Busy(ed) \ {e}) =
             IF e \in Busy(ed) THEN Cardinality(Busy(ed)) - 1 ELSE Cardinality(Busy(ed))
    BY <1>1, FS_AddElement, FS_RemoveElement
  <1> HIDE DEF Busy
  <1> QED BY <1>2, <1>3, <1>4, <1>5, <1>6

-----------------------------------------------------------------------------
(* Steps of one client.                                                    *)

Waits(s) == s.pc \in {"send", "queued", "asked", "lost"} /\ s.what = "knock"

\* What a step may make of a client's state: a routine that is not there stays so, and
\* nothing comes on its way after the close.
Allowed(c, s) ==
    /\ s \in States
    /\ c \in Routines /\ At(c, "none") => s.pc = "none"
    /\ c \in Callers /\ stopper \in {"closing", "done"} => ~Waits(s)

LEMMA ClientStep ==
  ASSUME TypeOK, NoRoutines, CallersWaited,
         NEW c \in Clients, NEW s, Allowed(c, s),
         client' = [client EXCEPT ![c] = s], UNCHANGED <<loop, stopper>>
  PROVE  /\ client' \in [Clients -> States]
         /\ NoRoutines' /\ CallersWaited'
  <1>1. client \in [Clients -> States]
    BY DEF TypeOK, Clients, States, Rests, Asks
  <1>2. client' \in [Clients -> States]
    BY <1>1 DEF Allowed
  <1>3. NoRoutines'
    BY <1>1 DEF NoRoutines, At, Allowed, Clients
  <1>4. CallersWaited'
    BY <1>1 DEF CallersWaited, OnItsWay, Waits, Allowed, Clients
  <1> QED BY <1>2, <1>3, <1>4

LEMMA AllowedStates ==
  ASSUME IInv, NEW c \in Clients, ~At(c, "none") \/ c \in Callers
  PROVE  /\ Allowed(c, Nobody)
         /\ Allowed(c, [pc |-> "top"]) /\ Allowed(c, [pc |-> "pause"])
         /\ \A what \in {"knock", "exit"}, useCookie \in BOOLEAN :
              Allowed(c, Request(what, useCookie))
  <1>1. c \in Routines => ~At(c, "none")
    BY KnockLoopAssumption DEF Clients
  <1>2. \A s : s.pc \in {"none", "top", "pause", "check"} => ~Waits(s)
    BY DEF Waits
  <1>3. [pc |-> "top"].pc = "top" /\ [pc |-> "pause"].pc = "pause"
    OBVIOUS
  <1> QED BY <1>1, <1>2, <1>3, StatesMade DEF Allowed

LEMMA AllowedMoves ==
  ASSUME IInv, NEW c \in Clients, client[c].pc \in Pending, NEW pc \in Pending,
         client[c].pc = "check" => stopper \notin {"closing", "done"} \/ c \notin Callers
  PROVE  Allowed(c, [client[c] EXCEPT !.pc = pc])
  <1>1. client[c] \in Asks
    BY StateFields DEF IInv, TypeOK, Clients, States, Rests, Asks
  <1>2. ~At(c, "none")
    BY DEF At, Pending
  <1>3. c \in Callers /\ stopper \in {"closing", "done"} => client[c].what # "knock"
    BY DEF IInv, CallersWaited, OnItsWay, Pending
  <1> QED BY <1>1, <1>2, <1>3, StateMoved DEF Allowed, Waits

LEMMA ClientOnly ==
  ASSUME IInv, NEW c \in Clients, NEW s, Allowed(c, s),
         client' = [client EXCEPT ![c] = s],
         UNCHANGED <<editing, loop, launch, calls, stopping, sender>>,
         last' \in [Resources -> {"none", "knock", "exit"}], crashed' \in BOOLEAN
  PROVE  IInv'
  <1>1. client' \in [Clients -> States] /\ NoRoutines' /\ CallersWaited'
    BY ClientStep DEF IInv, stopping
  <1>2. TypeOK'
    BY <1>1 DEF IInv, TypeOK, editing, stopping, Clients, States, Rests, Asks
  <1>3. SignalsCounted'
    BY DEF IInv, SignalsCounted, editing, Busy
  <1>4. Phases'
    BY DEF IInv, Phases, stopping
  <1> QED BY <1>1, <1>2, <1>3, <1>4 DEF IInv

\* What a client is after its request is done.
LEMMA AfterDone ==
  ASSUME IInv, NEW c \in Clients, client[c].pc \in Pending, NEW result, Done(c, result)
  PROVE  \E s : Allowed(c, s) /\ client' = [client EXCEPT ![c] = s]
  <1> DEFINE s == IF client[c].what = "exit" \/ c \in Callers THEN Nobody
                  ELSE [pc |-> IF result = "ack" THEN "pause" ELSE "top"]
  <1>1. ~At(c, "none")
    BY DEF At, Pending
  <1>2. Allowed(c, s)
    BY <1>1, AllowedStates
  <1>3. client' = [client EXCEPT ![c] = s]
    BY DEF Done, Goto
  <1> QED BY <1>2, <1>3

LEMMA MoveStep ==
  ASSUME IInv, NEW c \in Clients, client[c].pc \in Pending, NEW pc \in Pending,
         client[c].pc = "check" => stopper \notin {"closing", "done"} \/ c \notin Callers,
         Move(c, pc)
  PROVE  \E s : Allowed(c, s) /\ client' = [client EXCEPT ![c] = s]
  <1>1. Allowed(c, [client[c] EXCEPT !.pc = pc])
    BY AllowedMoves
  <1>2. client' = [client EXCEPT ![c] = [client[c] EXCEPT !.pc = pc]]
    BY DEF Move
  <1> QED BY <1>1, <1>2

\* The steps of a client that has a request, and of those who serve it.
LEMMA RequestStep ==
  ASSUME IInv, NEW c \in Clients,
         Advance(c) \/ Take(c) \/ DialFails(c) \/ DeviceDrops(c)
  PROVE  IInv'
  <1> USE DEF Pending
  <1>1. CASE CheckRunning(c)
    <2>1. client[c].pc = "check"
      BY <1>1 DEF CheckRunning, At
    <2>2. CASE running
      <3>1. stopper \notin {"closing", "done"}
        BY <2>2 DEF IInv, Phases
      <3>2. PICK s : Allowed(c, s) /\ client' = [client EXCEPT ![c] = s]
        BY <1>1, <2>1, <2>2, <3>1, MoveStep DEF CheckRunning
      <3> QED BY <1>1, <3>2, ClientOnly DEF CheckRunning, IInv, TypeOK
    <2>3. CASE ~running
      <3>1. PICK s : Allowed(c, s) /\ client' = [client EXCEPT ![c] = s]
        BY <1>1, <2>1, <2>3, AfterDone DEF CheckRunning
      <3> QED BY <1>1, <3>1, ClientOnly DEF CheckRunning, IInv, TypeOK
    <2> QED BY <2>2, <2>3
  <1>2. CASE Send(c)
    <2>1. client[c].pc = "send"
      BY <1>2 DEF Send, At
    <2>2. CASE "sendMsgCh" \in closed
      BY <1>2, <2>2 DEF Send, Panic, IInv, TypeOK, SignalsCounted, Phases, NoRoutines,
                        CallersWaited, OnItsWay, At, editing, stopping
    <2>3. CASE "sendMsgCh" \notin closed
      <3>1. PICK s : Allowed(c, s) /\ client' = [client EXCEPT ![c] = s]
        BY <1>2, <2>1, <2>3, MoveStep DEF Send
      <3> QED BY <1>2, <2>3, <3>1, ClientOnly DEF Send, IInv, TypeOK
    <2> QED BY <2>2, <2>3
  <1>3. CASE Answer(c)
    <2>1. client[c].pc = "asked" /\ ~At(c, "none")
      BY <1>3 DEF Answer, At
    <2>2. \E s : Allowed(c, s) /\ client' = [client EXCEPT ![c] = s]
      <3>1. CASE \E result : Done(c, result)
        BY <2>1, <3>1, AfterDone
      <3>2. CASE Goto(c, Request("knock", TRUE))
        BY <2>1, <3>2, AllowedStates DEF Goto
      <3> QED BY <1>3, <3>1, <3>2 DEF Answer
    <2>3. PICK s : Allowed(c, s) /\ client' = [client EXCEPT ![c] = s]
      BY <2>2
    <2> QED BY <1>3, <2>3, ClientOnly DEF Answer, IInv, TypeOK
  <1>4. CASE Take(c)
    <2>1. client[c].pc = "queued"
      BY <1>4 DEF Take, At
    <2>2. PICK s : Allowed(c, s) /\ client' = [client EXCEPT ![c] = s]
      BY <1>4, <2>1, MoveStep DEF Take
    <2>3. client[c].what \in {"knock", "exit"}
      BY <2>1, StateFields DEF IInv, TypeOK, Clients, States, Rests, Asks
    <2>4. last' \in [Resources -> {"none", "knock", "exit"}]
      BY <1>4, <2>3 DEF Take, IInv, TypeOK
    <2> QED BY <1>4, <2>2, <2>4, ClientOnly DEF Take, IInv, TypeOK
  <1>5. CASE DialFails(c)
    <2>1. client[c].pc = "queued"
      BY <1>5 DEF DialFails, At
    <2>2. PICK s : Allowed(c, s) /\ client' = [client EXCEPT ![c] = s]
      BY <1>5, <2>1, MoveStep DEF DialFails
    <2> QED BY <1>5, <2>2, ClientOnly DEF DialFails, IInv, TypeOK
  <1>6. CASE DeviceDrops(c)
    <2>1. client[c].pc = "asked"
      BY <1>6 DEF DeviceDrops, At
    <2>2. PICK s : Allowed(c, s) /\ client' = [client EXCEPT ![c] = s]
      BY <1>6, <2>1, MoveStep DEF DeviceDrops
    <2> QED BY <1>6, <2>2, ClientOnly DEF DeviceDrops, IInv, TypeOK
  <1> QED BY <1>1, <1>2, <1>3, <1>4, <1>5, <1>6 DEF Advance

\* A routine is told, or goes on.
LEMMA RoutineStep ==
  ASSUME IInv, NEW c \in Routines, Routine(c)
  PROVE  IInv'
  <1>1. c \in Clients /\ ~At(c, "none")
    BY DEF Clients, Routine, KnockAgain, PauseOver, PauseStopped, At
  <1>2. PICK s : Allowed(c, s) /\ client' = [client EXCEPT ![c] = s]
    BY <1>1, AllowedStates DEF Routine, KnockAgain, PauseOver, PauseStopped, Goto
  <1> QED BY <1>1, <1>2, ClientOnly
          DEF Routine, KnockAgain, PauseOver, PauseStopped, IInv, TypeOK

LEMMA CallStep ==
  ASSUME IInv, NEW c \in Callers, NEW what \in {"knock", "exit"}, Call(c, what)
  PROVE  IInv'
  <1> DEFINE s == Request(what, FALSE)
  <1>1. c \in Clients /\ Allowed(c, s) /\ client' = [client EXCEPT ![c] = s]
    BY AllowedStates DEF Clients, Call, Goto
  <1>2. client' \in [Clients -> States] /\ NoRoutines' /\ CallersWaited'
    <2> HIDE DEF s
    <2> QED BY <1>1, ClientStep DEF Call, IInv, stopping
  <1>3. TypeOK'
    BY <1>2, KnockLoopAssumption
       DEF Call, IInv, TypeOK, editing, stopping, Clients, States, Rests, Asks
  <1>4. SignalsCounted'
    <2>1. UNCHANGED <<launch, updated, editor>> /\ calls' = calls + 1 /\ calls \in Nat
      BY DEF Call, editing, IInv, TypeOK
    <2>2. Cardinality(Busy(editor)) \in Nat
      BY FS_Subset, FS_CardinalityType, KnockLoopAssumption DEF Busy
    <2> QED BY <2>1, <2>2, KnockLoopAssumption DEF IInv, TypeOK, SignalsCounted, Launches
  <1>5. Phases'
    BY DEF Call, IInv, Phases, stopping
  <1> QED BY <1>2, <1>3, <1>4, <1>5 DEF IInv

-----------------------------------------------------------------------------
(* Steps of the editors.                                                   *)

LEMMA EditorStep ==
  ASSUME IInv, NEW e \in Editors, Notify(e) \/ \E new \in SUBSET Resources : Edit(e, new)
  PROVE  IInv'
  <1> USE DEF IInv, TypeOK, stopping
  <1>1. NoRoutines' /\ CallersWaited' /\ Phases'
    BY DEF Notify, TestUpdated, SendUpdated, Edit, NoRoutines, CallersWaited, OnItsWay, At,
           Phases
  <1>2. PICK pc : editor' = [editor EXCEPT ![e] = pc]
    BY DEF Notify, TestUpdated, SendUpdated, Edit
  <1> DEFINE n == Cardinality(Busy(editor))
             m == Cardinality(Busy(editor'))
  <1>3. /\ n \in Nat /\ m \in Nat
        /\ editor[e] = "idle" /\ pc # "idle" => m = n + 1
        /\ editor[e] # "idle" /\ pc = "idle" => m = n - 1
        /\ editor[e] # "idle" /\ pc # "idle" => m = n
    <2>1. PICK ed, new : ed = editor /\ new = editor'
      OBVIOUS
    <2>2. ed \in [Editors -> {"idle", "test", "send"}] /\ new = [ed EXCEPT ![e] = pc]
      BY <1>2, <2>1
    <2> DEFINE x == Cardinality(Busy(ed))
               y == Cardinality(Busy(new))
    <2>3. /\ x \in Nat /\ y \in Nat
          /\ ed[e] = "idle" /\ pc # "idle" => y = x + 1
          /\ ed[e] # "idle" /\ pc = "idle" => y = x - 1
          /\ ed[e] # "idle" /\ pc # "idle" => y = x
      BY <2>2, BusyCounted
    <2> QED BY <2>1, <2>3
  <1>4. pc = editor'[e]
    BY <1>2
  <1>5. launch \in Nat /\ updated \in Nat /\ calls \in Nat /\ launch + updated + n <= calls + 1
    BY KnockLoopAssumption DEF SignalsCounted, Launches
  <1> HIDE DEF n, m
  <1>6. TypeOK' /\ launch' + updated' + m <= calls' + 1
    <2>1. CASE Notify(e) /\ TestUpdated(e)
      BY <1>3, <1>4, <1>5, <2>1 DEF TestUpdated
    <2>2. CASE Notify(e) /\ SendUpdated(e)
      <3>1. editor[e] = "send" /\ pc = "idle"
        BY <1>4, <2>2 DEF SendUpdated
      <3>2. m = n - 1
        BY <1>3, <3>1
      <3>3. updated' = updated \/ updated' = updated + 1
        BY <2>2 DEF SendUpdated
      <3>4. launch' = launch /\ calls' = calls
        BY <2>2 DEF SendUpdated
      <3>5. launch' + updated' + m <= calls' + 1
        BY <1>3, <1>5, <3>2, <3>3, <3>4
      <3>6. /\ editor' \in [Editors -> {"idle", "test", "send"}]
            /\ updated' \in 0..1
        BY <2>2 DEF SendUpdated
      <3>8. crashed' \in BOOLEAN
        BY <2>2, Zenon DEF SendUpdated, Panic
      <3>7. UNCHANGED <<targets, loop, launch, client, calls, stopping, sender, last>>
        BY <2>2 DEF SendUpdated
      <3> QED BY <3>5, <3>6, <3>7, <3>8
    <2>3. CASE \E new \in SUBSET Resources : Edit(e, new)
      BY <1>3, <1>4, <1>5, <2>3, KnockLoopAssumption DEF Edit
    <2> QED BY <2>1, <2>2, <2>3 DEF Notify
  <1>7. SignalsCounted'
    BY <1>6 DEF SignalsCounted, n, m
  <1> QED BY <1>1, <1>6, <1>7

-----------------------------------------------------------------------------
(* Steps of the loop, of the sender and of Stop.                           *)

LEMMA LaunchStep ==
  ASSUME IInv, Launch
  PROVE  IInv'
  <1>1. client \in [Clients -> States]
    BY DEF IInv, TypeOK, Clients, States, Rests, Asks
  <1>2. client' \in [Clients -> States]
    BY <1>1, StatesMade DEF Launch
  <1>3. \A c \in Callers : client'[c] = client[c]
    BY <1>1, KnockLoopAssumption DEF Launch, Clients, Routines, IInv, TypeOK
  <1>4. TypeOK'
    BY <1>2 DEF Launch, IInv, TypeOK, editing, stopping, Clients, States, Rests, Asks
  <1>5. CallersWaited'
    BY <1>3 DEF Launch, IInv, CallersWaited, OnItsWay, stopping
  <1>6. NoRoutines' /\ Phases' /\ SignalsCounted'
    BY DEF Launch, IInv, NoRoutines, Phases, SignalsCounted, stopping, editing
  <1> QED BY <1>4, <1>5, <1>6 DEF IInv

LEMMA UpdateSeenStep ==
  ASSUME IInv, UpdateSeen
  PROVE  IInv'
  <1>1. Cardinality(Busy(editor)) \in Nat
    BY FS_Subset, FS_CardinalityType, KnockLoopAssumption DEF Busy
  <1>2. launch' \in Launches /\ SignalsCounted'
    BY <1>1, KnockLoopAssumption DEF UpdateSeen, IInv, TypeOK, SignalsCounted, Launches
  <1>3. TypeOK'
    BY <1>2 DEF UpdateSeen, IInv, TypeOK, stopping
  <1>4. NoRoutines' /\ CallersWaited' /\ Phases'
    BY DEF UpdateSeen, IInv, NoRoutines, CallersWaited, OnItsWay, At, Phases, stopping
  <1> QED BY <1>2, <1>3, <1>4 DEF IInv

LEMMA LoopStep ==
  ASSUME IInv, StartKnockLoop \/ StopSeen \/ LoopEnds \/ SenderEnds
  PROVE  IInv'
  <1> USE DEF IInv, editing, stopping
  <1>1. TypeOK'
    BY DEF StartKnockLoop, StopSeen, LoopEnds, SenderEnds, TypeOK
  <1>2. SignalsCounted'
    BY DEF StartKnockLoop, StopSeen, LoopEnds, SenderEnds, SignalsCounted
  <1>3. NoRoutines' /\ CallersWaited' /\ Phases'
    BY DEF StartKnockLoop, StopSeen, LoopEnds, SenderEnds, NoRoutines, CallersWaited,
           OnItsWay, At, Phases
  <1> QED BY <1>1, <1>2, <1>3

LEMMA StopStep ==
  ASSUME IInv, StopKnockLoop \/ Stop \/ EndStop
  PROVE  IInv'
  <1> USE DEF IInv, editing, StopKnockLoop, Stop, EndStop, StopSignals, WaitAndClose,
              CloseUpdated, Panic
  <1>1. TypeOK'
    BY DEF TypeOK, Channels
  <1>2. SignalsCounted'
    BY DEF SignalsCounted
  <1>3. NoRoutines' /\ Phases'
    BY DEF NoRoutines, Phases, At
  <1>4. CallersWaited'
    <2>1. CASE WaitAndClose
      <3>1. \A c \in Callers : At(c, "none") \/ client[c].what # "knock"
        BY <2>1 DEF Waited
      <3>2. \A c \in Callers : At(c, "none") => ~OnItsWay(c)
        BY DEF At, OnItsWay
      <3> QED BY <2>1, <3>1, <3>2 DEF CallersWaited, OnItsWay
    <2>2. CASE ~WaitAndClose
      BY <2>2 DEF CallersWaited, OnItsWay
    <2> QED BY <2>1, <2>2
  <1> QED BY <1>1, <1>2, <1>3, <1>4

-----------------------------------------------------------------------------
LEMMA Initially ==
  ASSUME Init
  PROVE  IInv
  <1>1. TypeOK
    <2>1. client \in [Clients -> States]
      BY StatesMade DEF Init, Clients
    <2>2. launch \in Launches /\ calls \in 0..Bound /\ updated \in 0..1
      BY KnockLoopAssumption DEF Init, Launches
    <2> QED BY <2>1, <2>2 DEF Init, TypeOK, Clients, States, Rests, Asks
  <1>2. Cardinality(Busy(editor)) = 0
    <2>1. Busy(editor) = {}
      BY DEF Init, Busy
    <2> QED BY <2>1, FS_EmptySet
  <1>3. SignalsCounted
    BY <1>2 DEF Init, SignalsCounted
  <1>4. Phases /\ NoRoutines /\ CallersWaited
    BY DEF Init, Phases, NoRoutines, CallersWaited, At, Nobody
  <1> QED BY <1>1, <1>3, <1>4 DEF IInv

LEMMA Inductive ==
  ASSUME IInv, [Next]_vars
  PROVE  IInv'
  <1>1. CASE Next
    <2>1. CASE \E e \in Editors : Notify(e) \/ \E new \in SUBSET Resources : Edit(e, new)
      BY <2>1, EditorStep
    <2>2. CASE StartKnockLoop \/ Loop
      BY <2>2, LaunchStep, UpdateSeenStep, LoopStep DEF Loop
    <2>3. CASE \E c \in Routines : Routine(c)
      BY <2>3, RoutineStep
    <2>4. CASE \E c \in Callers, what \in {"knock", "exit"} : Call(c, what)
      BY <2>4, CallStep
    <2>5. CASE \E c \in Routines \cup Callers :
                 Advance(c) \/ Take(c) \/ DialFails(c) \/ DeviceDrops(c)
      BY <2>5, RequestStep DEF Clients
    <2>6. CASE SenderEnds
      BY <2>6, LoopStep
    <2>7. CASE StopKnockLoop \/ Stop \/ EndStop
      BY <2>7, StopStep
    <2> QED BY <1>1, <2>1, <2>2, <2>3, <2>4, <2>5, <2>6, <2>7 DEF Next
  <1>2. CASE UNCHANGED vars
    BY <1>2 DEF vars, editing, stopping, IInv, TypeOK, SignalsCounted, Phases, NoRoutines,
                CallersWaited, OnItsWay, At
  <1> QED BY <1>1, <1>2

THEOREM Invariance == Spec => []IInv
  BY Initially, Inductive, PTL DEF Spec

\* The targets, the launches, the requests and Stop keep their types, and no more
\* signals or launches come about than changes of the targets.
THEOREM TypeCorrect == Spec => []TypeOK
  <1>1. IInv => TypeOK
    BY DEF IInv
  <1> QED BY <1>1, Invariance, PTL

\* No knock is on its way to sendMsgCh, or waits for its answer, when Stop closes the
\* channel, for any resources, callers and editors.
THEOREM KnocksHaveEnded == Spec => []KnocksEndBeforeClose
  <1>1. IInv => KnocksEndBeforeClose
    <2> SUFFICES ASSUME IInv, "sendMsgCh" \in closed, NEW c \in Routines \cup Callers,
                        client[c].pc \in {"send", "queued", "asked", "lost"}
                 PROVE  client[c].what = "exit"
      BY DEF KnocksEndBeforeClose
    <2>1. stopper \in {"closing", "done"} /\ loop \in {"off", "done"}
      BY DEF IInv, Phases
    <2>2. c \in Callers
      BY <2>1 DEF IInv, NoRoutines, At
    <2>3. client[c].what # "knock"
      BY <2>1, <2>2 DEF IInv, CallersWaited, OnItsWay
    <2>4. client[c] \in Asks
      BY StateFields DEF IInv, TypeOK, Clients, States, Rests, Asks, Pending
    <2> QED BY <2>3, <2>4 DEF Asks
  <1> QED BY <1>1, Invariance, PTL
-----------------------------------------------------------------------------
(* What the routines do for their resources.                               *)

Watches(s) == s.pc # "none" /\ (s.pc = "asked" => s.what = "knock")

\* No routine runs in a launch that is to come.
Fresh ==
    \A c \in Routines :
        c[1] > launch \/ (c[1] = launch /\ loop \in {"off", "launch"}) => At(c, "none")

\* A routine sends its exit only when it was told to end.
ExitsTold ==
    \A c \in Routines : client[c].pc \in Pending /\ client[c].what = "exit" => Told(c)

\* Stop has stopped the knock loop before it closes a channel that others send to.
LoopStopped ==
    stopper \in {"wait", "closing", "done"} \/ closed # {} => "knockTargetStop" \in closed

WInv == Fresh /\ ExitsTold /\ LoopStopped /\ NoChangeMissed /\ KnockedIsWatched
            /\ PanicsOnlyStopped

\* What a step may make of a client's state: a routine ends, and sends its exit, only when
\* it was told to.
Serves(c, s) ==
    c \in Routines =>
        /\ ~At(c, "none")
        /\ s.pc = "none" => Told(c)
        /\ s.pc \in Pending /\ s.what = "exit" => Told(c)

LEMMA RoutinesKept ==
  ASSUME TypeOK, Fresh, ExitsTold, NoChangeMissed,
         NEW c \in Clients, NEW s, Serves(c, s), client' = [client EXCEPT ![c] = s],
         UNCHANGED <<editing, loop, launch, closed>>
  PROVE  Fresh' /\ ExitsTold' /\ NoChangeMissed'
  <1>1. \A d \in Routines : client'[d] = IF d = c THEN s ELSE client[d]
    BY DEF TypeOK, Clients
  <1>2. \A d \in Routines : Told(d)' <=> Told(d)
    BY DEF Told
  <1>3. Fresh'
    BY <1>1 DEF Fresh, At, Serves
  <1>4. ExitsTold'
    BY <1>1, <1>2 DEF ExitsTold, Serves
  <1>5. NoChangeMissed'
    <2>1. ASSUME "knockTargetStop" \notin closed, NEW r \in Resources
          PROVE  At(<<launch, r>>, "none")' <=> At(<<launch, r>>, "none")
      <3>1. <<launch, r>> \in Routines
        BY DEF TypeOK, Routines
      <3>2. ~Told(<<launch, r>>)
        BY <2>1, KnockLoopAssumption DEF Told, TypeOK, Launches
      <3> QED BY <1>1, <3>1, <3>2 DEF At, Serves
    <2> QED BY <2>1 DEF NoChangeMissed, editing
  <1> QED BY <1>3, <1>4, <1>5

LEMMA WatchKept ==
  ASSUME TypeOK, KnockedIsWatched,
         NEW c \in Clients, NEW s, client' = [client EXCEPT ![c] = s],
         c \in Routines /\ running /\ Watches(client[c]) => Watches(s),
         UNCHANGED <<running, last>>
  PROVE  KnockedIsWatched'
  <1>1. \A d \in Routines : client'[d] = IF d = c THEN s ELSE client[d]
    BY DEF TypeOK, Clients
  <1> SUFFICES ASSUME NEW r \in Resources, running, last[r] = "knock"
               PROVE  \E g \in Launches : Watches(client'[<<g, r>>])
    BY DEF KnockedIsWatched, Watches, At
  <1>2. PICK g \in Launches : Watches(client[<<g, r>>])
    BY DEF KnockedIsWatched, Watches, At
  <1>3. <<g, r>> \in Routines
    BY DEF Routines
  <1> QED BY <1>1, <1>2, <1>3

\* What a request that is done makes of its client.
LEMMA DoneServes ==
  ASSUME ExitsTold, NEW c \in Clients, client[c].pc \in Pending, NEW result, Done(c, result)
  PROVE  \E s : /\ client' = [client EXCEPT ![c] = s]
                /\ Serves(c, s)
                /\ c \in Routines /\ client[c].what # "exit" => Watches(s)
  <1> DEFINE s == IF client[c].what = "exit" \/ c \in Callers THEN Nobody
                  ELSE [pc |-> IF result = "ack" THEN "pause" ELSE "top"]
  <1>1. client' = [client EXCEPT ![c] = s]
    BY DEF Done, Goto
  <1>2. c \in Routines => c \notin Callers
    BY KnockLoopAssumption
  <1>3. Nobody.pc = "none" /\ s.pc \in {"none", "top", "pause"}
    BY DEF Nobody
  <1>4. Serves(c, s)
    BY <1>2, <1>3 DEF Serves, At, ExitsTold, Pending
  <1>5. c \in Routines /\ client[c].what # "exit" => Watches(s)
    BY <1>2 DEF Watches
  <1> QED BY <1>1, <1>4, <1>5

\* What a move of a request makes of its client.
LEMMA MoveServes ==
  ASSUME TypeOK, ExitsTold, NEW c \in Clients, client[c].pc \in Pending, NEW pc \in Pending,
         Move(c, pc)
  PROVE  \E s : /\ client' = [client EXCEPT ![c] = s]
                /\ Serves(c, s)
                /\ s.pc = pc /\ s.what = client[c].what
  <1> DEFINE s == [client[c] EXCEPT !.pc = pc]
  <1>1. client[c] \in Asks
    BY StateFields DEF TypeOK, Clients, States, Rests, Asks
  <1>2. s.pc = pc /\ s.what = client[c].what
    BY <1>1, StateMoved
  <1>3. client' = [client EXCEPT ![c] = s]
    BY DEF Move
  <1> HIDE DEF s
  <1>4. Serves(c, s)
    BY <1>2 DEF Serves, At, ExitsTold, Pending
  <1> QED BY <1>2, <1>3, <1>4

\* The sender takes a knock, which its routine watches, or an exit, which is the last.
LEMMA TakeWatched ==
  ASSUME TypeOK, KnockedIsWatched, NEW c \in Clients, Take(c),
         NEW s, client' = [client EXCEPT ![c] = s],
         s.pc = "asked", s.what = client[c].what
  PROVE  KnockedIsWatched'
  <1>1. \A d \in Routines : client'[d] = IF d = c THEN s ELSE client[d]
    BY DEF TypeOK, Clients
  <1> SUFFICES ASSUME NEW r \in Resources, running, last'[r] = "knock"
               PROVE  \E g \in Launches : Watches(client'[<<g, r>>])
    BY DEF KnockedIsWatched, Watches, At, Take, stopping
  <1>2. CASE c \in Routines /\ c[2] = r
    <2>1. PICK g \in Launches : c = <<g, r>>
      BY <1>2 DEF Routines
    <2>2. s.what = "knock"
      BY <1>2 DEF Take, TypeOK
    <2> QED BY <1>1, <1>2, <2>1, <2>2 DEF Watches
  <1>3. CASE ~(c \in Routines /\ c[2] = r)
    <2>1. last[r] = "knock"
      BY <1>3 DEF Take, TypeOK, Routines
    <2>2. PICK g \in Launches : Watches(client[<<g, r>>])
      BY <2>1 DEF KnockedIsWatched, Watches, At
    <2>3. <<g, r>> \in Routines /\ <<g, r>> # c
      BY <1>3 DEF Routines
    <2> QED BY <1>1, <2>2, <2>3
  <1> QED BY <1>2, <1>3

-----------------------------------------------------------------------------
(* Each step keeps the watch.                                              *)

\* A step of one client which makes of it what a routine may become.
LEMMA ServedStep ==
  ASSUME TypeOK, WInv, NEW c \in Clients, NEW s, Serves(c, s),
         client' = [client EXCEPT ![c] = s],
         UNCHANGED <<editing, loop, launch, stopping, crashed>>,
         KnockedIsWatched'
  PROVE  WInv'
  <1>1. Fresh' /\ ExitsTold' /\ NoChangeMissed'
    BY RoutinesKept DEF WInv, stopping
  <1> QED BY <1>1 DEF WInv, LoopStopped, PanicsOnlyStopped, stopping

LEMMA WatchRequest ==
  ASSUME TypeOK, WInv, NEW c \in Clients,
         Advance(c) \/ Take(c) \/ DialFails(c) \/ DeviceDrops(c)
  PROVE  WInv'
  <1> USE DEF Pending
  <1>1. ExitsTold /\ KnockedIsWatched
    BY DEF WInv
  <1>2. CASE Send(c) /\ "sendMsgCh" \in closed
    BY <1>2 DEF Send, Panic, WInv, Fresh, ExitsTold, LoopStopped, NoChangeMissed, Told, At,
                KnockedIsWatched, PanicsOnlyStopped, editing, stopping
  <1>3. CASE ~(Send(c) /\ "sendMsgCh" \in closed)
    <2>1. client[c].pc \in Pending
      BY DEF Advance, CheckRunning, Send, Answer, Take, DialFails, DeviceDrops, At
    <2>2. PICK s : /\ client' = [client EXCEPT ![c] = s]
                   /\ Serves(c, s)
                   /\ Take(c) => s.pc = "asked" /\ s.what = client[c].what
                   /\ ~Take(c) /\ c \in Routines /\ running /\ Watches(client[c])
                        => Watches(s)
      <3>1. ASSUME NEW pc \in Pending, Move(c, pc),
                   pc = "asked" => Take(c)
            PROVE  \E s : /\ client' = [client EXCEPT ![c] = s]
                          /\ Serves(c, s)
                          /\ s.pc = pc /\ s.what = client[c].what
                          /\ ~Take(c) => Watches(s)
        <4>1. PICK s : /\ client' = [client EXCEPT ![c] = s]
                       /\ Serves(c, s)
                       /\ s.pc = pc /\ s.what = client[c].what
          BY <1>1, <2>1, <3>1, MoveServes
        <4> QED BY <3>1, <4>1 DEF Watches
      <3>2. ASSUME NEW result, Done(c, result)
            PROVE  \E s : /\ client' = [client EXCEPT ![c] = s]
                          /\ Serves(c, s)
                          /\ c \in Routines /\ client[c].what # "exit" => Watches(s)
        BY <1>1, <2>1, <3>2, DoneServes
      <3>3. CASE CheckRunning(c)
        <4>1. ~Take(c)
          BY <3>3 DEF CheckRunning, Take, At
        <4>2. CASE running
          BY <3>1, <3>3, <4>1, <4>2 DEF CheckRunning
        <4>3. CASE ~running
          BY <3>2, <3>3, <4>1, <4>3 DEF CheckRunning
        <4> QED BY <4>2, <4>3
      <3>4. CASE Send(c)
        <4>1. ~Take(c)
          BY <3>4 DEF Send, Take, At
        <4> QED BY <1>3, <3>1, <3>4, <4>1 DEF Send
      <3>5. CASE Answer(c)
        <4>1. client[c].pc = "asked" /\ ~Take(c)
          BY <3>5 DEF Answer, Take, At
        <4>2. CASE \E result : Done(c, result)
          <5>1. PICK s : /\ client' = [client EXCEPT ![c] = s]
                         /\ Serves(c, s)
                         /\ c \in Routines /\ client[c].what # "exit" => Watches(s)
            BY <3>2, <4>2
          <5>2. Watches(client[c]) => client[c].what # "exit"
            BY <4>1 DEF Watches
          <5> QED BY <4>1, <5>1, <5>2
        <4>3. CASE Goto(c, Request("knock", TRUE))
          <5> DEFINE s == Request("knock", TRUE)
          <5>1. s.pc = "check" /\ s.what = "knock"
            BY DEF Request
          <5>2. client' = [client EXCEPT ![c] = s]
            BY <4>3 DEF Goto
          <5> HIDE DEF s
          <5>3. Serves(c, s) /\ Watches(s)
            BY <4>1, <5>1 DEF Serves, Watches, At
          <5> QED BY <4>1, <5>2, <5>3
        <4> QED BY <3>5, <4>2, <4>3 DEF Answer
      <3>6. CASE Take(c)
        BY <3>1, <3>6 DEF Take
      <3>7. CASE DialFails(c) \/ DeviceDrops(c)
        <4>1. Move(c, "lost")
          BY <3>7 DEF DialFails, DeviceDrops
        <4>2. PICK s : /\ client' = [client EXCEPT ![c] = s]
                       /\ Serves(c, s)
                       /\ s.pc = "lost" /\ s.what = client[c].what
          BY <3>1, <4>1
        <4>3. Take(c) => s.pc = "asked"
          <5> SUFFICES ASSUME Take(c) PROVE s.pc = "asked"
            OBVIOUS
          <5>1. PICK t : client' = [client EXCEPT ![c] = t] /\ t.pc = "asked"
            BY <3>1 DEF Take
          <5>2. client'[c] = s /\ client'[c] = t
            BY <4>2, <5>1 DEF TypeOK, Clients
          <5> QED BY <5>1, <5>2
        <4> QED BY <4>2, <4>3 DEF Watches
      <3> QED BY <3>3, <3>4, <3>5, <3>6, <3>7 DEF Advance
    <2>3. UNCHANGED <<editing, loop, launch, stopping, crashed>>
      BY <1>3 DEF Advance, CheckRunning, Send, Answer, Take, DialFails, DeviceDrops
    <2>4. KnockedIsWatched'
      <3>1. CASE Take(c)
        BY <1>1, <2>2, <3>1, TakeWatched
      <3>2. CASE ~Take(c)
        <4>1. UNCHANGED <<running, last>>
          BY <3>2 DEF Advance, CheckRunning, Send, Answer, DialFails, DeviceDrops, stopping
        <4> QED BY <1>1, <2>2, <3>2, <4>1, WatchKept
      <3> QED BY <3>1, <3>2
    <2> QED BY <2>2, <2>3, <2>4, ServedStep
  <1> QED BY <1>2, <1>3

LEMMA WatchRoutine ==
  ASSUME TypeOK, WInv, NEW c \in Routines, Routine(c)
  PROVE  WInv'
  <1>1. PICK s : /\ client' = [client EXCEPT ![c] = s]
                 /\ s.pc \in {"top", "check"}
                 /\ s.pc = "check" /\ s.what = "exit" => Told(c)
    <2> DEFINE asks(what) == Request(what, FALSE)
               told == IF Told(c) THEN "exit" ELSE "knock"
    <2>1. \A what : asks(what).pc = "check" /\ asks(what).what = what
      BY DEF Request
    <2>2. CASE KnockAgain(c)
      <3>1. client' = [client EXCEPT ![c] = asks(told)]
        BY <2>2 DEF KnockAgain, Goto
      <3>2. told = "exit" => Told(c)
        OBVIOUS
      <3> HIDE DEF asks, told
      <3> QED BY <2>1, <3>1, <3>2
    <2>3. CASE PauseOver(c)
      <3>1. client' = [client EXCEPT ![c] = [pc |-> "top"]]
        BY <2>3 DEF PauseOver, Goto
      <3>2. [pc |-> "top"].pc = "top"
        OBVIOUS
      <3> QED BY <3>1, <3>2
    <2>4. CASE PauseStopped(c)
      <3>1. client' = [client EXCEPT ![c] = asks("exit")] /\ Told(c)
        BY <2>4 DEF PauseStopped, Goto
      <3> HIDE DEF asks
      <3> QED BY <2>1, <3>1
    <2> QED BY <2>2, <2>3, <2>4 DEF Routine
  <1>2. Serves(c, s) /\ Watches(s)
    BY <1>1 DEF Routine, KnockAgain, PauseOver, PauseStopped, Serves, Watches, At, Pending
  <1>3. UNCHANGED <<editing, loop, launch, stopping, last, crashed>>
    BY DEF Routine, KnockAgain, PauseOver, PauseStopped
  <1>4. KnockedIsWatched'
    BY <1>1, <1>2, <1>3, WatchKept DEF WInv, Clients, stopping
  <1> QED BY <1>1, <1>2, <1>3, <1>4, ServedStep DEF Clients

LEMMA WatchCall ==
  ASSUME TypeOK, WInv, NEW c \in Callers, NEW what \in {"knock", "exit"}, Call(c, what)
  PROVE  WInv'
  <1>1. PICK s : client' = [client EXCEPT ![c] = s]
    BY DEF Call, Goto
  <1>2. c \in Clients /\ c \notin Routines
    BY KnockLoopAssumption DEF Clients
  <1>3. UNCHANGED <<editing, loop, launch, stopping, last, crashed>>
    BY DEF Call
  <1>4. KnockedIsWatched'
    BY <1>1, <1>2, <1>3, WatchKept DEF WInv, stopping
  <1> QED BY <1>1, <1>2, <1>3, <1>4, ServedStep DEF Serves

\* The routines of a launch are those of its targets, since none was there before.
LEMMA WatchLaunch ==
  ASSUME TypeOK, WInv, Launch
  PROVE  WInv'
  <1> DEFINE new == {launch} \X targets
  <1>1. \A c \in Routines : client'[c] = IF c \in new THEN [pc |-> "top"] ELSE client[c]
    BY DEF TypeOK, Launch
  <1>2. UNCHANGED <<editing, launch, stopping, last, crashed>> /\ loop' = "wait"
    BY DEF Launch
  <1>3. [pc |-> "top"].pc = "top"
    OBVIOUS
  <1>4. Fresh'
    BY <1>1, <1>2, KnockLoopAssumption DEF WInv, Fresh, At, TypeOK, Launches
  <1>5. ExitsTold'
    BY <1>1, <1>2, <1>3 DEF WInv, ExitsTold, Told, Pending, stopping
  <1>6. NoChangeMissed'
    <2>1. ASSUME NEW r \in Resources
          PROVE  r \in targets <=> client'[<<launch, r>>].pc # "none"
      <3>1. <<launch, r>> \in Routines /\ (<<launch, r>> \in new <=> r \in targets)
        BY DEF TypeOK, Routines
      <3>2. client[<<launch, r>>].pc = "none"
        BY <3>1 DEF WInv, Fresh, At, Launch
      <3> QED BY <1>1, <1>3, <3>1, <3>2
    <2> QED BY <1>2, <2>1 DEF NoChangeMissed, At, editing
  <1>7. KnockedIsWatched'
    <2> SUFFICES ASSUME NEW r \in Resources, running, last[r] = "knock"
                 PROVE  \E g \in Launches : Watches(client'[<<g, r>>])
      BY <1>2 DEF KnockedIsWatched, Watches, At, stopping
    <2>1. PICK g \in Launches : Watches(client[<<g, r>>])
      BY DEF WInv, KnockedIsWatched, Watches, At
    <2>2. <<g, r>> \in Routines
      BY DEF Routines
    <2> QED BY <1>1, <1>3, <2>1, <2>2 DEF Watches
  <1> QED BY <1>2, <1>4, <1>5, <1>6, <1>7 DEF WInv, LoopStopped, PanicsOnlyStopped, stopping

LEMMA WatchEdit ==
  ASSUME TypeOK, WInv, NEW e \in Editors,
         Notify(e) \/ \E new \in SUBSET Resources : Edit(e, new)
  PROVE  WInv'
  <1>1. UNCHANGED <<loop, launch, client, stopping, last>>
    BY DEF Notify, TestUpdated, SendUpdated, Edit
  <1>2. Fresh' /\ ExitsTold' /\ LoopStopped' /\ KnockedIsWatched'
    BY <1>1 DEF WInv, Fresh, ExitsTold, Told, LoopStopped, KnockedIsWatched, At, stopping
  <1>3. PanicsOnlyStopped'
    BY <1>1 DEF Notify, TestUpdated, SendUpdated, Edit, Panic, WInv, LoopStopped,
                PanicsOnlyStopped, stopping
  <1>4. NoChangeMissed'
    <2>1. CASE "knockTargetStop" \in closed
      BY <1>1, <2>1 DEF NoChangeMissed, stopping
    <2>2. CASE "knockTargetStop" \notin closed
      <3>1. closed = {}
        BY <2>2 DEF WInv, LoopStopped
      <3>2. updated' = 1 \/ editor'[e] # "idle"
        BY <3>1 DEF Notify, TestUpdated, SendUpdated, Edit, TypeOK
      <3> QED BY <3>2 DEF NoChangeMissed
    <2> QED BY <2>1, <2>2
  <1> QED BY <1>2, <1>3, <1>4 DEF WInv

\* The other steps leave the routines and what was sent as they are.
LEMMA WatchOther ==
  ASSUME TypeOK, WInv,
         \/ StartKnockLoop \/ UpdateSeen \/ StopSeen \/ LoopEnds \/ SenderEnds
         \/ StopKnockLoop \/ Stop \/ EndStop
  PROVE  WInv'
  <1> USE DEF WInv, StartKnockLoop, UpdateSeen, StopSeen, LoopEnds, SenderEnds,
              StopKnockLoop, Stop, EndStop, StopSignals, WaitAndClose, CloseUpdated, Panic,
              editing, stopping
  <1>1. /\ UNCHANGED <<client, last>> /\ closed \subseteq closed'
        /\ launch \in Nat /\ launch' \in {launch, launch + 1}
    BY KnockLoopAssumption DEF TypeOK, Launches
  <1>2. Fresh'
    BY <1>1, KnockLoopAssumption DEF Fresh, At, Routines, Launches
  <1>3. ExitsTold'
    <2>1. \A c \in Routines : Told(c) => Told(c)'
      BY <1>1, KnockLoopAssumption DEF Told, Routines, Launches
    <2> QED BY <1>1, <2>1 DEF ExitsTold
  <1>4. LoopStopped' /\ PanicsOnlyStopped'
    BY DEF LoopStopped, PanicsOnlyStopped
  <1>5. NoChangeMissed'
    BY DEF NoChangeMissed, At
  <1>6. KnockedIsWatched'
    BY DEF KnockedIsWatched, At
  <1> QED BY <1>2, <1>3, <1>4, <1>5, <1>6

LEMMA WatchInitially ==
  ASSUME Init
  PROVE  WInv
  BY DEF Init, WInv, Fresh, ExitsTold, LoopStopped, NoChangeMissed, KnockedIsWatched,
         PanicsOnlyStopped, At, Nobody, Pending

LEMMA WatchInductive ==
  ASSUME TypeOK, WInv, [Next]_vars
  PROVE  WInv'
  <1>1. CASE Next
    <2>1. CASE \E e \in Editors : Notify(e) \/ \E new \in SUBSET Resources : Edit(e, new)
      BY <2>1, WatchEdit
    <2>2. CASE StartKnockLoop \/ Loop
      BY <2>2, WatchLaunch, WatchOther DEF Loop
    <2>3. CASE \E c \in Routines : Routine(c)
      BY <2>3, WatchRoutine
    <2>4. CASE \E c \in Callers, what \in {"knock", "exit"} : Call(c, what)
      BY <2>4, WatchCall
    <2>5. CASE \E c \in Routines \cup Callers :
                 Advance(c) \/ Take(c) \/ DialFails(c) \/ DeviceDrops(c)
      BY <2>5, WatchRequest DEF Clients
    <2>6. CASE SenderEnds \/ StopKnockLoop \/ Stop \/ EndStop
      BY <2>6, WatchOther
    <2> QED BY <1>1, <2>1, <2>2, <2>3, <2>4, <2>5, <2>6 DEF Next
  <1>2. CASE UNCHANGED vars
    BY <1>2 DEF vars, editing, stopping, WInv, Fresh, ExitsTold, Told, LoopStopped,
                NoChangeMissed, KnockedIsWatched, PanicsOnlyStopped, At
  <1> QED BY <1>1, <1>2

THEOREM WatchInvariance == Spec => []WInv
  <1>1. Init => WInv
    BY WatchInitially
  <1>2. TypeOK /\ WInv /\ [Next]_vars => WInv'
    BY WatchInductive
  <1> QED BY <1>1, <1>2, TypeCorrect, PTL DEF Spec

\* A change of the targets is never lost between the editors, the signal and the loop: when
\* all of them are at rest, the current launch knocks for the targets and for nothing else.
THEOREM ChangesReachTheLoop == Spec => []NoChangeMissed
  <1>1. WInv => NoChangeMissed
    BY DEF WInv
  <1> QED BY <1>1, WatchInvariance, PTL

\* What was knocked last for a resource is never abandoned while the agent runs: a routine
\* is there that did not send its exit yet.
THEOREM KnocksStayWatched == Spec => []KnockedIsWatched
  <1>1. WInv => KnockedIsWatched
    BY DEF WInv
  <1> QED BY <1>1, WatchInvariance, PTL

\* Whoever panics on a closed channel does so after the knock loop was told to stop.
THEOREM NoPanicBeforeStop == Spec => []PanicsOnlyStopped
  <1>1. WInv => PanicsOnlyStopped
    BY DEF WInv
  <1> QED BY <1>1, WatchInvariance, PTL

=============================================================================
