-------------------------- MODULE TransactionProofs --------------------------
(***************************************************************************)
(* Proofs about Transaction, for every set of requests and every capacity  *)
(* of the queues.  The inductive invariant says that the duty to answer a  *)
(* request is in exactly one place.                                        *)
(***************************************************************************)
EXTENDS Transaction, FiniteSetTheorems, TLAPS

IInv == TypeOK /\ OnePlace

ReplySeqs == [Reqs -> Seq({"answer", "cookie", "error"})]

\* Sending on ResponseMsgCh extends the answers of one request by one reply.
LEMMA AnswerEffect ==
    ASSUME answers \in ReplySeqs, NEW r \in Reqs,
           NEW v \in {"answer", "cookie", "error"}, Answer(r, v)
    PROVE  /\ answers' \in ReplySeqs
           /\ \A q \in Reqs \ {r} : answers'[q] = answers[q]
           /\ answers'[r] = Append(answers[r], v)
           /\ answers'[r] # <<>>
           /\ Len(answers'[r]) = Len(answers[r]) + 1
           /\ answers'[r][Len(answers'[r])] = v
  BY DEF Answer, ReplySeqs

\* Enqueueing one request where there is room, and dequeueing one, keep a queue
\* within its capacity.
LEMMA QueueBound ==
    ASSUME NEW Q \in SUBSET Reqs, NEW n \in Nat, Cardinality(Q) <= n, NEW r \in Reqs
    PROVE  /\ Cardinality(Q) < n => Cardinality(Q \cup {r}) <= n
           /\ Cardinality(Q \ {r}) <= n
  <1>1. IsFiniteSet(Q) /\ Cardinality(Q) \in Nat
    BY TransactionAssumption, FS_Subset, FS_CardinalityType
  <1>2. Cardinality(Q \cup {r}) <= Cardinality(Q) + 1
    BY <1>1, FS_AddElement
  <1>3. Cardinality(Q \ {r}) <= Cardinality(Q)
    BY <1>1, FS_RemoveElement
  <1>4. Cardinality(Q \cup {r}) \in Nat /\ Cardinality(Q \ {r}) \in Nat
    BY <1>1, FS_AddElement, FS_RemoveElement, FS_CardinalityType
  <1>5. QED
    BY <1>1, <1>2, <1>3, <1>4

\* Every variable keeps its type: no step of the path leaves the model's sets.
THEOREM TypeCorrect == Spec => []TypeOK
<1>1. Init => TypeOK
  <2> SUFFICES ASSUME Init PROVE TypeOK
    OBVIOUS
  <2>1. answers \in [Reqs -> Seq({"answer", "cookie", "error"})]
    BY DEF Init
  <2>2. replies \in [Reqs -> 0..ReplyBound]
    BY TransactionAssumption DEF Init
  <2>3. Cardinality(msgQ) <= SendQueueSize /\ Cardinality(pktQ) <= RecvQueueSize
    BY TransactionAssumption, FS_EmptySet DEF Init
  <2>4. QED
    BY <2>1, <2>2, <2>3 DEF Init, TypeOK, TrxStates
<1>2. TypeOK /\ [Next]_vars => TypeOK'
  <2> SUFFICES ASSUME TypeOK, [Next]_vars PROVE TypeOK'
    OBVIOUS
  <2> USE TransactionAssumption DEF TypeOK, TrxStates, netVars, envVars
  <2>1. ASSUME NEW r \in Reqs, Ask(r) PROVE TypeOK'
    BY <2>1 DEF Ask
  <2>2. ASSUME NEW r \in Reqs, DispatchFails(r) PROVE TypeOK'
    BY <2>2 DEF DispatchFails
  <2>3. ASSUME NEW r \in Reqs, EncryptError(r) PROVE TypeOK'
    BY <2>3 DEF EncryptError, Answer
  <2>4. ASSUME NEW r \in Reqs, Send(r) PROVE TypeOK'
    <3>1. CASE Dispatch(r)
      BY <3>1, QueueBound DEF Dispatch
    <3>2. CASE TakeMsg(r)
      BY <3>2, QueueBound DEF TakeMsg
    <3>3. CASE AddLocalTransaction(r) \/ ForwardOutbound(r)
      BY <3>3 DEF AddLocalTransaction, ForwardOutbound
    <3>4. QED
      BY <2>4, <3>1, <3>2, <3>3 DEF Send
  <2>5. ASSUME NEW r \in Reqs, Run(r) PROVE TypeOK'
    <3>1. CASE RunStart(r) \/ RunError(r) \/ RunClose(r) \/ RunDelete(r)
      BY <3>1 DEF RunStart, RunError, RunClose, RunDelete
    <3>2. CASE RunPacket(r)
      BY <3>2, QueueBound DEF RunPacket
    <3>3. CASE RunExternal(r)
      BY <3>3 DEF RunExternal, Answer
    <3>4. CASE RunReport(r)
      <4>1. answers' \in ReplySeqs
        <5>1. CASE failed[r]
          BY <3>4, <5>1, AnswerEffect DEF RunReport, ReplySeqs
        <5>2. CASE ~failed[r]
          BY <3>4, <5>2 DEF RunReport, ReplySeqs
        <5>3. QED
          BY <5>1, <5>2
      <4>2. QED
        BY <3>4, <4>1 DEF RunReport, ReplySeqs
    <3>5. QED
      BY <2>5, <3>1, <3>2, <3>3, <3>4 DEF Run
  <2>6. ASSUME NEW r \in Reqs, Receive(r) PROVE TypeOK'
    <3>1. CASE TakePacket(r)
      BY <3>1, QueueBound DEF TakePacket
    <3>2. CASE Feedback(r)
      <4>1. answers' \in ReplySeqs
        BY <3>2, AnswerEffect DEF Feedback, ReplySeqs
      <4>2. QED
        BY <3>2, <4>1 DEF Feedback, ReplySeqs
    <3>3. QED
      BY <2>6, <3>1, <3>2 DEF Receive
  <2>7. ASSUME NEW r \in Reqs, FindForPacket(r) PROVE TypeOK'
    BY <2>7 DEF FindForPacket
  <2>8. ASSUME NEW r \in Reqs, FindForCookie(r) PROVE TypeOK'
    BY <2>8 DEF FindForCookie
  <2>9. ASSUME NEW r \in Reqs, StopAbandons(r) PROVE TypeOK'
    BY <2>9, QueueBound DEF StopAbandons
  <2>10. CASE SendOnClosed \/ CloseConn \/ StopDevice
    BY <2>10 DEF SendOnClosed, CloseConn, StopDevice
  <2>11. CASE UNCHANGED vars
    BY <2>11 DEF vars
  <2>12. QED
    BY <2>1, <2>2, <2>3, <2>4, <2>5, <2>6, <2>7, <2>8, <2>9, <2>10, <2>11 DEF Next
<1>3. QED
  BY <1>1, <1>2, PTL DEF Spec

-----------------------------------------------------------------------------
(* The duty to answer is in one place.                                     *)

\* Initially nothing was asked.
LEMMA InitPlace == Init => OnePlace
  <1> SUFFICES ASSUME Init, NEW r \in Reqs PROVE OneAt(r, "unasked")
    BY DEF OnePlace, Stages
  <1> QED
    BY DEF Init, OneAt, Reporting

\* A step that concerns another request leaves r where it is.
LEMMA OthersStay ==
    ASSUME IInv, [Next]_vars, NEW r \in Reqs, NEW s \in Stages, OneAt(r, s),
           (r \in asked') <=> (r \in asked), (r \in outbox') <=> (r \in outbox),
           (r \in msgQ') <=> (r \in msgQ), enc'[r] = enc[r], trx'[r] = trx[r],
           failed'[r] = failed[r], (r \in pktQ') <=> (r \in pktQ),
           (r \in parsing') <=> (r \in parsing), answers'[r] = answers[r],
           (r \in lost') <=> (r \in lost)
    PROVE  OneAt(r, s)'
  BY DEF OneAt, Reporting

\* Every step moves the duty of at most one request, to exactly one place.
LEMMA NextPlace == IInv /\ [Next]_vars => OnePlace'
  <1> SUFFICES ASSUME IInv, [Next]_vars, NEW r \in Reqs
               PROVE  \E s \in Stages : OneAt(r, s)'
    BY DEF OnePlace
  <1> PICK s \in Stages : OneAt(r, s)
    BY DEF IInv, OnePlace
  <1> USE DEF IInv, TypeOK, Stages
  <1>1. ASSUME NEW q \in Reqs, Ask(q) PROVE \E u \in Stages : OneAt(r, u)'
    <2>1. CASE r # q
      BY <1>1, <2>1, OthersStay DEF Ask
    <2>2. CASE r = q
      <3>1. OneAt(r, "outbox")'
        BY <1>1, <2>2 DEF Ask, OneAt, Reporting
      <3>2. QED
        BY <3>1
    <2>3. QED
      BY <2>1, <2>2
  <1>2. ASSUME NEW q \in Reqs, Dispatch(q) PROVE \E u \in Stages : OneAt(r, u)'
    <2>1. CASE r # q
      BY <1>2, <2>1, OthersStay DEF Dispatch
    <2>2. CASE r = q
      <3>1. CASE r \in msgQ'
        <4>1. OneAt(r, "msgQ")'
          BY <1>2, <2>2, <3>1 DEF Dispatch, OneAt, Reporting
        <4>2. QED
          BY <4>1
      <3>2. CASE r \notin msgQ'
        <4>1. OneAt(r, "lost")'
          BY <1>2, <2>2, <3>2 DEF Dispatch, OneAt, Reporting
        <4>2. QED
          BY <4>1
      <3>3. QED
        BY <3>1, <3>2
    <2>3. QED
      BY <2>1, <2>2
  <1>3. ASSUME NEW q \in Reqs, DispatchFails(q) PROVE \E u \in Stages : OneAt(r, u)'
    <2>1. CASE r # q
      BY <1>3, <2>1, OthersStay DEF DispatchFails
    <2>2. CASE r = q
      <3>1. OneAt(r, "lost")'
        BY <1>3, <2>2 DEF DispatchFails, OneAt, Reporting
      <3>2. QED
        BY <3>1
    <2>3. QED
      BY <2>1, <2>2
  <1>4. ASSUME NEW q \in Reqs, TakeMsg(q) PROVE \E u \in Stages : OneAt(r, u)'
    <2>1. CASE r # q
      BY <1>4, <2>1, OthersStay DEF TakeMsg
    <2>2. CASE r = q
      <3>1. OneAt(r, "enc")'
        BY <1>4, <2>2 DEF TakeMsg, OneAt, Reporting
      <3>2. QED
        BY <3>1
    <2>3. QED
      BY <2>1, <2>2
  <1>5. ASSUME NEW q \in Reqs, EncryptError(q) PROVE \E u \in Stages : OneAt(r, u)'
    <2>1. CASE r # q
      BY <1>5, <2>1, OthersStay DEF EncryptError, Answer
    <2>2. CASE r = q
      <3>1. answers'[r] # <<>> /\ Len(answers'[r]) = Len(answers[r]) + 1
        BY <1>5, <2>2, AnswerEffect DEF EncryptError, ReplySeqs
      <3>2. OneAt(r, "answered")'
        BY <1>5, <2>2, <3>1 DEF EncryptError, OneAt, Reporting
      <3>3. QED
        BY <3>2
    <2>3. QED
      BY <2>1, <2>2
  <1>6. ASSUME NEW q \in Reqs, AddLocalTransaction(q) PROVE \E u \in Stages : OneAt(r, u)'
    <2>1. CASE r # q
      BY <1>6, <2>1, OthersStay DEF AddLocalTransaction
    <2>2. CASE r = q
      <3>1. OneAt(r, "trx")'
        BY <1>6, <2>2 DEF AddLocalTransaction, OneAt, Reporting
      <3>2. QED
        BY <3>1
    <2>3. QED
      BY <2>1, <2>2
  <1>7. ASSUME NEW q \in Reqs, ForwardOutbound(q) PROVE \E u \in Stages : OneAt(r, u)'
    <2>1. CASE r # q
      BY <1>7, <2>1, OthersStay DEF ForwardOutbound
    <2>2. CASE r = q
      <3>1. OneAt(r, s)'
        BY <1>7, <2>2 DEF ForwardOutbound, OneAt, Reporting
      <3>2. QED
        BY <3>1
    <2>3. QED
      BY <2>1, <2>2
  <1>8. ASSUME NEW q \in Reqs, RunStart(q) PROVE \E u \in Stages : OneAt(r, u)'
    <2>1. CASE r # q
      BY <1>8, <2>1, OthersStay DEF RunStart
    <2>2. CASE r = q
      <3>1. OneAt(r, s)'
        BY <1>8, <2>2 DEF RunStart, OneAt, Reporting
      <3>2. QED
        BY <3>1
    <2>3. QED
      BY <2>1, <2>2
  <1>9. ASSUME NEW q \in Reqs, RunPacket(q) PROVE \E u \in Stages : OneAt(r, u)'
    <2>1. CASE r # q
      BY <1>9, <2>1, OthersStay DEF RunPacket
    <2>2. CASE r = q
      <3>1. CASE r \in pktQ'
        <4>1. OneAt(r, "pktQ")'
          BY <1>9, <2>2, <3>1 DEF RunPacket, OneAt, Reporting
        <4>2. QED
          BY <4>1
      <3>2. CASE r \notin pktQ'
        <4>1. OneAt(r, "lost")'
          BY <1>9, <2>2, <3>2 DEF RunPacket, OneAt, Reporting
        <4>2. QED
          BY <4>1
      <3>3. QED
        BY <3>1, <3>2
    <2>3. QED
      BY <2>1, <2>2
  <1>10. ASSUME NEW q \in Reqs, RunExternal(q) PROVE \E u \in Stages : OneAt(r, u)'
    <2>1. CASE r # q
      BY <1>10, <2>1, OthersStay DEF RunExternal, Answer
    <2>2. CASE r = q
      <3>1. answers'[r] # <<>> /\ Len(answers'[r]) = Len(answers[r]) + 1
        BY <1>10, <2>2, AnswerEffect DEF RunExternal, ReplySeqs
      <3>2. OneAt(r, "answered")'
        BY <1>10, <2>2, <3>1 DEF RunExternal, OneAt, Reporting
      <3>3. QED
        BY <3>2
    <2>3. QED
      BY <2>1, <2>2
  <1>11. ASSUME NEW q \in Reqs, RunError(q) PROVE \E u \in Stages : OneAt(r, u)'
    <2>1. CASE r # q
      BY <1>11, <2>1, OthersStay DEF RunError
    <2>2. CASE r = q
      <3>1. OneAt(r, s)'
        BY <1>11, <2>2 DEF RunError, OneAt, Reporting
      <3>2. QED
        BY <3>1
    <2>3. QED
      BY <2>1, <2>2
  <1>12. ASSUME NEW q \in Reqs, RunClose(q) PROVE \E u \in Stages : OneAt(r, u)'
    <2>1. CASE r # q
      BY <1>12, <2>1, OthersStay DEF RunClose
    <2>2. CASE r = q
      <3>1. OneAt(r, s)'
        BY <1>12, <2>2 DEF RunClose, OneAt, Reporting
      <3>2. QED
        BY <3>1
    <2>3. QED
      BY <2>1, <2>2
  <1>13. ASSUME NEW q \in Reqs, RunDelete(q) PROVE \E u \in Stages : OneAt(r, u)'
    <2>1. CASE r # q
      BY <1>13, <2>1, OthersStay DEF RunDelete
    <2>2. CASE r = q
      <3>1. OneAt(r, s)'
        BY <1>13, <2>2 DEF RunDelete, OneAt, Reporting
      <3>2. QED
        BY <3>1
    <2>3. QED
      BY <2>1, <2>2
  <1>14. ASSUME NEW q \in Reqs, RunReport(q) PROVE \E u \in Stages : OneAt(r, u)'
    <2>1. CASE r # q
      BY <1>14, <2>1, OthersStay DEF RunReport, Answer
    <2>2. CASE r = q
      <3>1. CASE failed[r]
        <4>1. answers'[r] # <<>> /\ Len(answers'[r]) = Len(answers[r]) + 1
          BY <1>14, <2>2, <3>1, AnswerEffect DEF RunReport, ReplySeqs
        <4>2. OneAt(r, "answered")'
          BY <1>14, <2>2, <3>1, <4>1 DEF RunReport, OneAt, Reporting
        <4>3. QED
          BY <4>2
      <3>2. CASE ~failed[r]
        <4>1. OneAt(r, s)'
          BY <1>14, <2>2, <3>2 DEF RunReport, OneAt, Reporting
        <4>2. QED
          BY <4>1
      <3>3. QED
        BY <3>1, <3>2
    <2>3. QED
      BY <2>1, <2>2
  <1>15. ASSUME NEW q \in Reqs, TakePacket(q) PROVE \E u \in Stages : OneAt(r, u)'
    <2>1. CASE r # q
      BY <1>15, <2>1, OthersStay DEF TakePacket
    <2>2. CASE r = q
      <3>1. OneAt(r, "parsing")'
        BY <1>15, <2>2 DEF TakePacket, OneAt, Reporting
      <3>2. QED
        BY <3>1
    <2>3. QED
      BY <2>1, <2>2
  <1>16. ASSUME NEW q \in Reqs, Feedback(q) PROVE \E u \in Stages : OneAt(r, u)'
    <2>1. CASE r # q
      BY <1>16, <2>1, OthersStay DEF Feedback, Answer
    <2>2. CASE r = q
      <3>1. answers'[r] # <<>> /\ Len(answers'[r]) = Len(answers[r]) + 1
        BY <1>16, <2>2, AnswerEffect DEF Feedback, ReplySeqs
      <3>2. OneAt(r, "answered")'
        BY <1>16, <2>2, <3>1 DEF Feedback, OneAt, Reporting
      <3>3. QED
        BY <3>2
    <2>3. QED
      BY <2>1, <2>2
  <1>17. ASSUME NEW q \in Reqs, FindForPacket(q) PROVE \E u \in Stages : OneAt(r, u)'
    <2>1. CASE r # q
      BY <1>17, <2>1, OthersStay DEF FindForPacket
    <2>2. CASE r = q
      <3>1. OneAt(r, s)'
        BY <1>17, <2>2 DEF FindForPacket, OneAt, Reporting
      <3>2. QED
        BY <3>1
    <2>3. QED
      BY <2>1, <2>2
  <1>18. ASSUME NEW q \in Reqs, FindForCookie(q) PROVE \E u \in Stages : OneAt(r, u)'
    <2>1. CASE r # q
      BY <1>18, <2>1, OthersStay DEF FindForCookie
    <2>2. CASE r = q
      <3>1. OneAt(r, s)'
        BY <1>18, <2>2 DEF FindForCookie, OneAt, Reporting
      <3>2. QED
        BY <3>1
    <2>3. QED
      BY <2>1, <2>2
  <1>19. ASSUME NEW q \in Reqs, StopAbandons(q) PROVE \E u \in Stages : OneAt(r, u)'
    <2>1. CASE r # q
      BY <1>19, <2>1, OthersStay DEF StopAbandons
    <2>2. CASE r = q
      <3>1. OneAt(r, "lost")'
        BY <1>19, <2>2 DEF StopAbandons, OneAt, Reporting
      <3>2. QED
        BY <3>1
    <2>3. QED
      BY <2>1, <2>2
  <1>20. CASE SendOnClosed \/ CloseConn \/ StopDevice
    BY <1>20, OthersStay DEF SendOnClosed, CloseConn, StopDevice
  <1>21. CASE UNCHANGED vars
    BY <1>21, OthersStay DEF vars
  <1>22. QED
    BY <1>1, <1>2, <1>3, <1>4, <1>5, <1>6, <1>7, <1>8, <1>9, <1>10, <1>11, <1>12, <1>13, <1>14, <1>15, <1>16, <1>17, <1>18, <1>19, <1>20, <1>21 DEF Next, Send, Run, Receive

\* The inductive invariant, and with it the duty to answer in one place.
THEOREM OnePlaceAlways == Spec => []OnePlace
<1>1. Init => OnePlace
  BY InitPlace
<1>2. TypeOK /\ OnePlace /\ [Next]_vars => OnePlace'
  BY NextPlace DEF IInv
<1>3. QED
  BY <1>1, <1>2, TypeCorrect, PTL DEF Spec

\* No caller is answered twice, whatever the order in which a response, a
\* duplicate of it, a cookie, a timeout and the closing of the connection come.
THEOREM AnsweredAtMostOnce == Spec => []AtMostOneAnswer
<1>1. OnePlace => AtMostOneAnswer
  BY DEF OnePlace, OneAt, AtMostOneAnswer
<1>2. QED
  BY <1>1, OnePlaceAlways, PTL

-----------------------------------------------------------------------------
(* Refinement of Request.                                                  *)

\* What a stage looks like to the caller.
LEMMA StageStatus ==
    ASSUME NEW r \in Reqs, NEW s \in Stages, OneAt(r, s)
    PROVE  /\ s = "unasked" => StatusOf(r) = "idle"
           /\ s = "lost" => StatusOf(r) = "lost"
           /\ s = "answered" => StatusOf(r) = answers[r][Len(answers[r])]
           /\ s \notin {"unasked", "lost", "answered"} => StatusOf(r) = "waiting"
  BY DEF OneAt, StatusOf, Stages

Abs == [r \in Reqs |-> StatusOf(r)]

\* A change of one request's status that Request allows is a step of Request.
LEMMA AbstractStep ==
    ASSUME NEW q \in Reqs,
           \A r \in Reqs \ {q} : StatusOf(r)' = StatusOf(r),
           \/ StatusOf(q)' = StatusOf(q)
           \/ StatusOf(q) = "idle" /\ StatusOf(q)' = "waiting"
           \/ /\ StatusOf(q) = "waiting"
              /\ StatusOf(q)' \in {"answer", "cookie", "error", "lost"}
    PROVE  R!Next \/ UNCHANGED Abs
  <1>1. Abs' = [Abs EXCEPT ![q] = StatusOf(q)']
    BY DEF Abs
  <1>2. CASE StatusOf(q)' = StatusOf(q)
    BY <1>1, <1>2 DEF Abs
  <1>3. CASE StatusOf(q) = "idle" /\ StatusOf(q)' = "waiting"
    <2>1. R!Ask(q)
      BY <1>1, <1>3 DEF R!Ask, Abs
    <2>2. QED
      BY <2>1 DEF R!Next
  <1>4. CASE StatusOf(q) = "waiting" /\ StatusOf(q)' = "lost"
    <2>1. R!Abandon(q)
      BY <1>1, <1>4 DEF R!Abandon, Abs
    <2>2. QED
      BY <2>1 DEF R!Next
  <1>5. CASE StatusOf(q) = "waiting" /\ StatusOf(q)' \in {"answer", "cookie", "error"}
    <2>1. R!Reply(q)
      BY <1>1, <1>5 DEF R!Reply, R!Replies, Abs
    <2>2. QED
      BY <2>1 DEF R!Next
  <1>6. QED
    BY <1>2, <1>3, <1>4, <1>5

\* Appending a reply to an unanswered request that is waiting is such a change.
LEMMA ReplyStep ==
    ASSUME IInv, NEW q \in Reqs, NEW v \in {"answer", "cookie", "error"},
           NEW s \in {"enc", "trx", "parsing"}, OneAt(q, s), Answer(q, v),
           UNCHANGED <<asked, lost>>
    PROVE  R!Next \/ UNCHANGED Abs
  <1>1. StatusOf(q) = "waiting"
    BY StageStatus DEF Stages
  <1>2. StatusOf(q)' = v
    BY AnswerEffect DEF StatusOf, OneAt, IInv, TypeOK, ReplySeqs
  <1>3. \A r \in Reqs \ {q} : StatusOf(r)' = StatusOf(r)
    BY AnswerEffect DEF StatusOf, IInv, TypeOK, ReplySeqs
  <1>4. QED
    BY <1>1, <1>2, <1>3, AbstractStep

\* Abandoning a request that is queued is such a change too.
LEMMA LoseStep ==
    ASSUME IInv, NEW q \in Reqs, NEW s \in {"outbox", "msgQ", "pktQ", "trx"},
           OneAt(q, s), lost' = lost \cup {q}, UNCHANGED <<asked, answers>>
    PROVE  R!Next \/ UNCHANGED Abs
  <1>1. StatusOf(q) = "waiting"
    BY StageStatus DEF Stages
  <1>2. StatusOf(q)' = "lost"
    BY DEF StatusOf, OneAt
  <1>3. \A r \in Reqs \ {q} : StatusOf(r)' = StatusOf(r)
    BY DEF StatusOf
  <1>4. QED
    BY <1>1, <1>2, <1>3, AbstractStep

\* Every step of the path is a step of Request or leaves the caller's view
\* alone.
LEMMA RefinementStep == IInv /\ [Next]_vars => [R!Next]_Abs
  <1> SUFFICES ASSUME IInv, [Next]_vars PROVE R!Next \/ UNCHANGED Abs
    OBVIOUS
  <1>1. ASSUME UNCHANGED <<asked, answers, lost>> PROVE UNCHANGED Abs
    BY <1>1 DEF Abs, StatusOf
  <1>2. ASSUME NEW q \in Reqs, Ask(q) PROVE R!Next \/ UNCHANGED Abs
    <2>1. PICK s \in Stages : OneAt(q, s)
      BY DEF IInv, OnePlace
    <2>2. StatusOf(q) = "idle" /\ StatusOf(q)' = "waiting"
      BY <1>2, <2>1 DEF Ask, StatusOf, OneAt, Stages
    <2>3. \A r \in Reqs \ {q} : StatusOf(r)' = StatusOf(r)
      BY <1>2 DEF Ask, StatusOf
    <2>4. QED
      BY <2>2, <2>3, AbstractStep
  <1>3. ASSUME NEW q \in Reqs, Dispatch(q) PROVE R!Next \/ UNCHANGED Abs
    <2>1. OneAt(q, "outbox")
      BY <1>3 DEF Dispatch, IInv, OnePlace, OneAt, Stages
    <2>2. QED
      BY <1>1, <1>3, <2>1, LoseStep DEF Dispatch
  <1>4. ASSUME NEW q \in Reqs, DispatchFails(q) PROVE R!Next \/ UNCHANGED Abs
    <2>1. OneAt(q, "outbox")
      BY <1>4 DEF DispatchFails, IInv, OnePlace, OneAt, Stages
    <2>2. QED
      BY <1>4, <2>1, LoseStep DEF DispatchFails
  <1>5. ASSUME NEW q \in Reqs, EncryptError(q) PROVE R!Next \/ UNCHANGED Abs
    <2>1. OneAt(q, "enc")
      BY <1>5 DEF EncryptError, IInv, OnePlace, OneAt, Stages
    <2>2. QED
      BY <1>5, <2>1, ReplyStep DEF EncryptError
  <1>6. ASSUME NEW q \in Reqs, RunPacket(q) PROVE R!Next \/ UNCHANGED Abs
    <2>1. OneAt(q, "trx")
      BY <1>6 DEF RunPacket, IInv, OnePlace, OneAt, Stages
    <2>2. QED
      BY <1>1, <1>6, <2>1, LoseStep DEF RunPacket
  <1>7. ASSUME NEW q \in Reqs, RunExternal(q) PROVE R!Next \/ UNCHANGED Abs
    <2>1. OneAt(q, "trx")
      BY <1>7 DEF RunExternal, IInv, OnePlace, OneAt, Stages
    <2>2. QED
      BY <1>7, <2>1, ReplyStep DEF RunExternal
  <1>8. ASSUME NEW q \in Reqs, RunReport(q) PROVE R!Next \/ UNCHANGED Abs
    <2>1. CASE failed[q]
      <3>1. OneAt(q, "trx")
        BY <1>8, <2>1 DEF RunReport, IInv, OnePlace, OneAt, Stages, Reporting
      <3>2. QED
        BY <1>8, <2>1, <3>1, ReplyStep DEF RunReport
    <2>2. CASE ~failed[q]
      BY <1>1, <1>8, <2>2 DEF RunReport
    <2>3. QED
      BY <2>1, <2>2
  <1>9. ASSUME NEW q \in Reqs, Feedback(q) PROVE R!Next \/ UNCHANGED Abs
    <2>1. OneAt(q, "parsing")
      BY <1>9 DEF Feedback, IInv, OnePlace, OneAt, Stages
    <2>2. QED
      BY <1>9, <2>1, ReplyStep DEF Feedback
  <1>10. ASSUME NEW q \in Reqs, StopAbandons(q) PROVE R!Next \/ UNCHANGED Abs
    <2>1. \E s \in {"outbox", "msgQ", "pktQ"} : OneAt(q, s)
      BY <1>10 DEF StopAbandons, IInv, OnePlace, OneAt, Stages
    <2>2. QED
      BY <1>10, <2>1, LoseStep DEF StopAbandons
  <1>11. ASSUME NEW q \in Reqs,
                \/ TakeMsg(q) \/ AddLocalTransaction(q) \/ ForwardOutbound(q)
                \/ RunStart(q) \/ RunError(q) \/ RunClose(q) \/ RunDelete(q)
                \/ TakePacket(q) \/ FindForPacket(q) \/ FindForCookie(q)
         PROVE  R!Next \/ UNCHANGED Abs
    BY <1>1, <1>11 DEF TakeMsg, AddLocalTransaction, ForwardOutbound, RunStart,
       RunError, RunClose, RunDelete, TakePacket, FindForPacket, FindForCookie
  <1>12. CASE SendOnClosed \/ CloseConn \/ StopDevice \/ UNCHANGED vars
    BY <1>1, <1>12 DEF SendOnClosed, CloseConn, StopDevice, vars
  <1>13. QED
    BY <1>2, <1>3, <1>4, <1>5, <1>6, <1>7, <1>8, <1>9, <1>10, <1>11, <1>12
    DEF Next, Send, Run, Receive

\* The path from a caller to its answer implements Request: a caller gets at
\* most one message and gets none after its request was abandoned.
THEOREM PathImplementsRequest == Spec => ImplementsRequest
<1>1. Init => R!Init
  BY DEF Init, R!Init, StatusOf
<1>2. TypeOK /\ OnePlace /\ [Next]_vars => [R!Next]_Abs
  BY RefinementStep DEF IInv
<1>3. QED
  BY <1>1, <1>2, TypeCorrect, OnePlaceAlways, PTL DEF Spec, ImplementsRequest, R!Spec, Abs
=============================================================================
