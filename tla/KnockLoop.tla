------------------------------ MODULE KnockLoop ------------------------------
(***************************************************************************)
(* The agent's knock loop (endpoints/agent/udpagent.go): for each target   *)
(* of knockTargetMap a routine that knocks, pauses for the open time, and  *)
(* sends an exit at its end; their restart when the targets change; the    *)
(* single knocks and exits of the SDK; StopKnockLoop and Stop.             *)
(*                                                                         *)
(* Whoever sends a request (knock.go) is a client: the routine of a        *)
(* resource in one launch of the loop, or a caller.  A request goes over   *)
(* sendMsgCh to sendMessageRoutine, and from there the way of Transaction, *)
(* which is here the step that answers it.                                 *)
(***************************************************************************)
EXTENDS Naturals, FiniteSets

CONSTANTS
    Resources,
    Editors,    \* goroutines that change the targets: file watcher, SDK
    Callers,    \* goroutines of the SDK that knock or exit once at a time
    Bound       \* bound: changes of the targets and calls of the SDK

Launches == 1..(Bound + 1)
Routines == Launches \X Resources

ASSUME KnockLoopAssumption ==
    /\ Bound \in Nat /\ IsFiniteSet(Editors)
    /\ Callers \cap Routines = {}

VARIABLES
    targets,    \* knockTargetMap
    updated,    \* length of knockTargetMapUpdated
    editor,     \* where AddResource, RemoveResource or updateResources is
    loop,       \* where knockResourceRoutine is
    launch,     \* of which the quit channels are open
    client,     \* the requests and who sends them
    calls,      \* changes of the targets and calls of the SDK so far
    running,
    closed,     \* the channels that are closed
    sender,     \* sendMessageRoutine runs
    stopper,    \* where Stop is
    last,       \* history: what routines sent last for a resource
    crashed     \* the process has panicked

editing == <<targets, updated, editor>>
stopping == <<running, closed, stopper>>
vars == <<editing, loop, launch, client, calls, stopping, sender, last, crashed>>

Channels == {"knockTargetStop", "stop", "sendMsgCh", "knockTargetMapUpdated"}

-----------------------------------------------------------------------------
Nobody == [pc |-> "none"]
Request(what, useCookie) == [pc |-> "check", what |-> what, useCookie |-> useCookie]

Pending == {"check", "send", "queued", "asked", "lost"}

TypeOK ==
    /\ targets \subseteq Resources
    /\ updated \in 0..1
    /\ editor \in [Editors -> {"idle", "test", "send"}]
    /\ loop \in {"off", "launch", "wait", "drain", "done"}
    /\ launch \in Launches
    /\ client \in [Routines \cup Callers ->
                    [pc : {"none", "top", "pause"}]
                    \cup [pc : Pending, what : {"knock", "exit"}, useCookie : BOOLEAN]]
    /\ calls \in 0..Bound
    /\ running \in BOOLEAN
    /\ closed \subseteq Channels
    /\ sender \in BOOLEAN
    /\ stopper \in {"no", "begun", "wait", "closing", "done"}
    /\ last \in [Resources -> {"none", "knock", "exit"}]
    /\ crashed \in BOOLEAN

Init ==
    /\ targets \in SUBSET Resources
    /\ updated = 0
    /\ editor = [e \in Editors |-> "idle"]
    /\ loop = "off"
    /\ launch = 1
    /\ client = [c \in Routines \cup Callers |-> Nobody]
    /\ calls = 0
    /\ running = TRUE
    /\ closed = {}
    /\ sender = TRUE
    /\ stopper = "no"
    /\ last = [r \in Resources |-> "none"]
    /\ crashed = FALSE

Panic == crashed' = TRUE
At(c, pc) == client[c].pc = pc
Goto(c, state) == client' = [client EXCEPT ![c] = state]
Move(c, pc) == client' = [client EXCEPT ![c].pc = pc]

-----------------------------------------------------------------------------
(* AddResource, RemoveResource, updateResources: they change the map under *)
(* its lock, and the signal follows outside of it.                         *)

Edit(e, new) ==
    /\ editor[e] = "idle" /\ calls < Bound
    /\ targets' = new
    /\ calls' = calls + 1
    /\ editor' = [editor EXCEPT ![e] = "test"]
    /\ UNCHANGED <<updated, loop, launch, client, stopping, sender, last, crashed>>

TestUpdated(e) ==
    /\ editor[e] = "test"
    /\ editor' = [editor EXCEPT ![e] = IF updated = 0 THEN "send" ELSE "idle"]
    /\ UNCHANGED <<targets, updated, loop, launch, client, calls, stopping, sender,
                   last, crashed>>

\* Faulty variant: the channel has room for any number.
SendUpdatedRoomy(e) ==
    /\ editor[e] = "send"
    /\ updated' = updated + 1
    /\ editor' = [editor EXCEPT ![e] = "idle"]
    /\ UNCHANGED <<targets, loop, launch, client, calls, stopping, sender, last, crashed>>

\* Another editor may have filled the channel meanwhile; Stop may have closed it.
SendUpdated(e) ==
    /\ editor[e] = "send"
    /\ IF "knockTargetMapUpdated" \in closed
       THEN Panic /\ UNCHANGED updated
       ELSE /\ updated = 0
            /\ updated' = 1
            /\ UNCHANGED crashed
    /\ editor' = [editor EXCEPT ![e] = "idle"]
    /\ UNCHANGED <<targets, loop, launch, client, calls, stopping, sender, last>>

-----------------------------------------------------------------------------
(* knockResourceRoutine.                                                   *)

StartKnockLoop ==
    /\ loop = "off" /\ stopper = "no"
    /\ loop' = "launch"
    /\ UNCHANGED <<editing, launch, client, calls, stopping, sender, last, crashed>>

Launch ==
    /\ loop = "launch"
    /\ loop' = "wait"
    /\ client' = [c \in DOMAIN client |->
                    IF c \in {launch} \X targets THEN [pc |-> "top"] ELSE client[c]]
    /\ UNCHANGED <<editing, launch, calls, stopping, sender, last, crashed>>

\* Faulty variant: the quit channels stay open.
UpdateSeenKeeps ==
    /\ loop = "wait" /\ updated = 1
    /\ updated' = 0
    /\ loop' = "launch"
    /\ UNCHANGED <<targets, editor, launch, client, calls, stopping, sender, last,
                   crashed>>

\* The quit channels of all routines are closed.
UpdateSeen ==
    /\ loop = "wait" /\ updated = 1
    /\ updated' = 0
    /\ launch' = launch + 1
    /\ loop' = "launch"
    /\ UNCHANGED <<targets, editor, client, calls, stopping, sender, last, crashed>>

StopSeen ==
    /\ loop = "wait" /\ "knockTargetStop" \in closed
    /\ loop' = "drain"
    /\ UNCHANGED <<editing, launch, client, calls, stopping, sender, last, crashed>>

\* knockRoutineWg.Wait
LoopEnds ==
    /\ loop = "drain"
    /\ \A c \in Routines : At(c, "none")
    /\ loop' = "done"
    /\ UNCHANGED <<editing, launch, client, calls, stopping, sender, last, crashed>>

-----------------------------------------------------------------------------
(* The routine of one target.                                              *)

Told(c) == "knockTargetStop" \in closed \/ c[1] < launch

\* Faulty variant: the stop signal and the quit channel are looked at in the pause only.
KnockAgainUntold(c) ==
    /\ At(c, "top")
    /\ Goto(c, Request("knock", FALSE))
    /\ UNCHANGED <<editing, loop, launch, calls, stopping, sender, last, crashed>>

KnockAgain(c) ==
    /\ At(c, "top")
    /\ Goto(c, Request(IF Told(c) THEN "exit" ELSE "knock", FALSE))
    /\ UNCHANGED <<editing, loop, launch, calls, stopping, sender, last, crashed>>

PauseOver(c) ==
    /\ At(c, "pause")
    /\ Goto(c, [pc |-> "top"])
    /\ UNCHANGED <<editing, loop, launch, calls, stopping, sender, last, crashed>>

\* Faulty variant: no exit is sent.
PauseStoppedSilently(c) ==
    /\ At(c, "pause") /\ Told(c)
    /\ Goto(c, Nobody)
    /\ UNCHANGED <<editing, loop, launch, calls, stopping, sender, last, crashed>>

PauseStopped(c) ==
    /\ At(c, "pause") /\ Told(c)
    /\ Goto(c, Request("exit", FALSE))
    /\ UNCHANGED <<editing, loop, launch, calls, stopping, sender, last, crashed>>

-----------------------------------------------------------------------------
(* The SDK: Knock counts itself in a.wg before anything else,              *)
(* ExitKnockRequest does not.                                              *)

Call(c, what) ==
    /\ At(c, "none") /\ calls < Bound
    /\ calls' = calls + 1
    /\ Goto(c, Request(what, FALSE))
    /\ UNCHANGED <<editing, loop, launch, stopping, sender, last, crashed>>

-----------------------------------------------------------------------------
(* knockRequest and ExitKnockRequest.                                      *)

\* An exit ends its client, a knock only that of a caller.
Done(c, result) ==
    Goto(c, IF client[c].what = "exit" \/ c \in Callers THEN Nobody
            ELSE [pc |-> IF result = "ack" THEN "pause" ELSE "top"])

\* IsRunning
CheckRunning(c) ==
    /\ At(c, "check")
    /\ IF running THEN Move(c, "send") ELSE Done(c, "error")
    /\ UNCHANGED <<editing, loop, launch, calls, stopping, sender, last, crashed>>

Send(c) ==
    /\ At(c, "send")
    /\ IF "sendMsgCh" \in closed
       THEN Panic /\ UNCHANGED client
       ELSE Move(c, "queued") /\ UNCHANGED crashed
    /\ UNCHANGED <<editing, loop, launch, calls, stopping, sender, last>>

\* Its transaction answers, an error also; a cookie makes a knock send again, once.
Answer(c) ==
    /\ At(c, "asked")
    /\ \/ \E result \in {"ack", "error"} : Done(c, result)
       \/ IF client[c].what = "knock" /\ ~client[c].useCookie
          THEN Goto(c, Request("knock", TRUE))
          ELSE Done(c, "error")
    /\ UNCHANGED <<editing, loop, launch, calls, stopping, sender, last, crashed>>

-----------------------------------------------------------------------------
(* sendMessageRoutine and the device.                                      *)

Take(c) ==
    /\ sender /\ At(c, "queued")
    /\ Move(c, "asked")
    /\ last' = IF c \in Routines THEN [last EXCEPT ![c[2]] = client[c].what] ELSE last
    /\ UNCHANGED <<editing, loop, launch, calls, stopping, sender, crashed>>

\* The server cannot be dialled: nobody will answer.
DialFails(c) ==
    /\ sender /\ At(c, "queued")
    /\ Move(c, "lost")
    /\ UNCHANGED <<editing, loop, launch, calls, stopping, sender, last, crashed>>

SenderEnds ==
    /\ sender /\ "stop" \in closed
    /\ sender' = FALSE
    /\ UNCHANGED <<editing, loop, launch, client, calls, stopping, last, crashed>>

\* A message in a queue of a device that has stopped.
DeviceDrops(c) ==
    /\ At(c, "asked") /\ "stop" \in closed
    /\ Move(c, "lost")
    /\ UNCHANGED <<editing, loop, launch, calls, stopping, sender, last, crashed>>

-----------------------------------------------------------------------------
(* StopKnockLoop and Stop.                                                 *)

\* A channel that is closed twice panics.
StopKnockLoop ==
    /\ stopper # "done"
    /\ IF "knockTargetStop" \in closed
       THEN Panic /\ UNCHANGED closed
       ELSE closed' = closed \cup {"knockTargetStop"} /\ UNCHANGED crashed
    /\ UNCHANGED <<editing, loop, launch, client, calls, running, stopper, sender, last>>

Stop ==
    /\ stopper = "no"
    /\ running' = FALSE
    /\ stopper' = "begun"
    /\ UNCHANGED <<editing, loop, launch, client, calls, closed, sender, last, crashed>>

StopSignals ==
    /\ stopper = "begun"
    /\ IF "knockTargetStop" \in closed
       THEN Panic /\ UNCHANGED closed
       ELSE closed' = closed \cup {"knockTargetStop", "stop"} /\ UNCHANGED crashed
    /\ stopper' = "wait"
    /\ UNCHANGED <<editing, loop, launch, client, calls, running, sender, last>>

\* Faulty variant: Knock does not count itself.
WaitedNone == {}

\* In a.wg: sendMessageRoutine, the knock loop, and each Knock.
Waited ==
    {c \in Callers : ~At(c, "none") /\ client[c].what = "knock"}

\* The routines of connections and recvMessageRoutine are in a.wg as well and left out:
\* they end when signals.stop is closed (CloseReturns of Connection is about a routine's
\* own way out), so Stop waits for them no longer than they need for that.
WaitAndClose ==
    /\ stopper = "wait"
    /\ ~sender /\ loop \in {"off", "done"} /\ Waited = {}
    /\ closed' = closed \cup {"sendMsgCh"}
    /\ stopper' = "closing"
    /\ UNCHANGED <<editing, loop, launch, client, calls, running, sender, last, crashed>>

CloseUpdated ==
    /\ stopper = "closing"
    /\ closed' = closed \cup {"knockTargetMapUpdated"}
    /\ stopper' = "done"
    /\ UNCHANGED <<editing, loop, launch, client, calls, running, sender, last, crashed>>

-----------------------------------------------------------------------------
Routine(c) == KnockAgain(c) \/ PauseOver(c) \/ PauseStopped(c)
Advance(c) == CheckRunning(c) \/ Send(c) \/ Answer(c)
Loop == Launch \/ UpdateSeen \/ StopSeen \/ LoopEnds
Notify(e) == TestUpdated(e) \/ SendUpdated(e)
EndStop == StopSignals \/ WaitAndClose \/ CloseUpdated

Next ==
    /\ ~crashed
    /\ \/ \E e \in Editors : Notify(e) \/ \E new \in SUBSET Resources : Edit(e, new)
       \/ StartKnockLoop \/ Loop
       \/ \E c \in Routines : Routine(c)
       \/ \E c \in Callers, what \in {"knock", "exit"} : Call(c, what)
       \/ \E c \in Routines \cup Callers :
            Advance(c) \/ Take(c) \/ DialFails(c) \/ DeviceDrops(c)
       \/ SenderEnds
       \/ StopKnockLoop \/ Stop \/ EndStop

Spec == Init /\ [][Next]_vars

\* Goroutines that are ready run; sendMsgCh is a queue, so that each message in it
\* is taken; pauses and transactions have timers.
Fairness ==
    /\ \A e \in Editors : WF_vars(~crashed /\ Notify(e))
    /\ WF_vars(~crashed /\ Loop)
    /\ \A c \in Routines : WF_vars(~crashed /\ Routine(c))
    /\ \A c \in Routines \cup Callers :
        /\ WF_vars(~crashed /\ Advance(c))
        /\ WF_vars(~crashed /\ (Take(c) \/ DialFails(c)))
    /\ WF_vars(~crashed /\ SenderEnds)
    /\ WF_vars(~crashed /\ EndStop)

FairSpec == Spec /\ Fairness

-----------------------------------------------------------------------------
(* Properties.                                                             *)

\* No knock, of a routine or of a caller, is on its way to sendMsgCh or waits for
\* its answer when Stop closes the channel.
KnocksEndBeforeClose ==
    "sendMsgCh" \in closed =>
        \A c \in Routines \cup Callers :
            client[c].pc \in {"send", "queued", "asked", "lost"} => client[c].what = "exit"

Works == running /\ ~crashed /\ loop # "off" /\ "knockTargetStop" \notin closed

Settled(r) ==
    /\ r \in targets => ~At(<<launch, r>>, "none")
    /\ \A g \in Launches :
        (r \in targets => g # launch) => client[<<g, r>>].pc \in {"none", "lost"}

\* However the edits and their signals interleave with the loop, in the end the
\* targets have one routine each, and no other runs.
TargetsFollowed == \A r \in Resources : <>[]Works => <>[]Settled(r)

Unwanted(r) == running /\ ~crashed /\ (r \notin targets \/ "knockTargetStop" \in closed)

\* What the loop sends last for a resource that is no target any more, or when
\* StopKnockLoop was called, is an exit, unless the exit was given up by the sender.
UnwantedIsExited ==
    \A r \in Resources :
        <>[]Unwanted(r) => <>[](last[r] # "knock" \/ \E g \in Launches : At(<<g, r>>, "lost"))

Stuck(c) == At(c, "lost") \/ (At(c, "queued") /\ ~sender)

\* Stop comes to its end unless a request was left without an answer.
StopReturns ==
    stopper = "begun" ~> (stopper = "done" \/ crashed \/ \E c \in DOMAIN client : Stuck(c))

\* A target stays open: while its routine pauses, the last it has sent is a knock.  The
\* exit of the routine before it may come later, and then it is not so (KnockLoopKept.cfg).
KeptStaysOpen ==
    \A r \in targets : At(<<launch, r>>, "pause") => last[r] = "knock"

\* What is behind TargetsFollowed: when the loop waits with no change on its way to it,
\* the current launch has a routine for each target and for nothing else.  No run lists
\* this property and the next two; they are proved in KnockLoopProofs.
NoChangeMissed ==
    loop = "wait" /\ updated = 0 /\ (\A e \in Editors : editor[e] = "idle")
        /\ "knockTargetStop" \notin closed
      => \A r \in Resources : r \in targets <=> ~At(<<launch, r>>, "none")

\* What is behind UnwantedIsExited: while the agent runs, a resource that was knocked
\* last has a routine that did not send its exit yet.
KnockedIsWatched ==
    \A r \in Resources : running /\ last[r] = "knock" =>
        \E g \in Launches : ~At(<<g, r>>, "none")
            /\ (At(<<g, r>>, "asked") => client[<<g, r>>].what = "knock")

\* Closing twice, and sending to what was closed, come after the knock loop was stopped.
PanicsOnlyStopped == crashed => "knockTargetStop" \in closed
=============================================================================
