---------------------- MODULE CoordinationAgentProofs ----------------------
(***************************************************************************)
(* Proofs about CoordinationAgent: what a call of WaitAtBarrier that       *)
(* returns OK means, and that agents and service agree on the instance of  *)
(* a barrier, for every number of tasks and every interleaving of lost     *)
(* RPCs, crashes, restarts, timeouts and cancellations.                    *)
(*                                                                         *)
(* The service's part of a step is one of the service's own steps, so that *)
(* IInv and the form of those steps (Settle(d) with Handled(d)) are taken  *)
(* from CoordinationServiceProofs.  What is added is an invariant that     *)
(* relates the calls the service holds to what the agents have asked for.  *)
(* A second one relates what the service has told the agents to what has   *)
(* been registered, for the protocol that the service relies on.           *)
(***************************************************************************)
EXTENDS CoordinationAgent, CoordinationServiceProofs

RpcPhases == {"none", "sent", "served", "answered"}
RpcStatuses == {"none", "ok", "cancelled", "failed", "exists", "lost"}

\* The types of AgentTypeOK, with the records spelled out.
AgentTypes ==
    /\ AgentTypeOK
    /\ rpc \in [Task -> [phase : RpcPhases, st : RpcStatuses, cnt : Nat]]
    /\ cancel \in [Task -> [id : Barrier, cnt : Nat] \cup {NoCancel}]
    /\ \A t \in Task, b \in Barrier : barrierCounter[t][b] >= -1

\* Instance n of barrier b is over.
Over(b, n) == n < counter[b] \/ (n = counter[b] /\ passed[b])

\* The RPC of a user's thread: one that is served is held by the service, a
\* barrier call has been recorded in the history, and the instance that the
\* service has answered for is over.
CallInv(t) ==
    /\ rpc[t].phase # "answered" => rpc[t].st = "none"
    /\ rpc[t].phase = "served" => t \in calls[BarrierOf(t)]
    /\ user[t] \in Barrier =>
         /\ requested[t][user[t]] > barrierCounter[t][user[t]]
         /\ rpc[t].phase = "answered" /\ rpc[t].st # "lost" => Over(user[t], rpc[t].cnt)

\* A barrier that the users call, always with all tasks: the tasks that wait
\* have asked for the current instance, or for a later one before they crashed,
\* and if the instance has passed with OK all tasks have.
JobBarrier(b) ==
    /\ members[b] \in {{}, Task} /\ (b \in ongoing => members[b] = Task)
    /\ \A u \in calls[b] : requested[u][b] >= counter[b]
    /\ result[b] = "ok" => \A u \in Task : requested[u][b] >= counter[b]

AInv == /\ IInv /\ AgentTypes
        /\ \A t \in Task : CallInv(t)
        /\ \A b \in Barrier : JobBarrier(b)
        /\ NeverAhead /\ ReleaseMeansAllCalled

-----------------------------------------------------------------------------
(* What Settle does to a barrier and to its callers *)

LEMMA Names == /\ Barrier \subseteq BarrierId /\ Register \in BarrierId /\ Shutdown \in BarrierId
               /\ ~Recoverable
  BY JobAssumption DEF BarrierId

LEMMA CallsAt ==
    ASSUME NEW t
    PROVE  /\ user[t] = "Connect" => BarrierOf(t) = Register
           /\ user[t] = "Shutdown" => BarrierOf(t) = Shutdown
           /\ user[t] \in Barrier => BarrierOf(t) = user[t]
  BY NamesAssumption, Names DEF BarrierOf

\* A barrier after Settle: whoever does not wait any more has seen it pass, and
\* instances are never taken back.
LEMMA SettleBarrier ==
    ASSUME IInv, NEW d, Handled(d), Settle(d), NEW b \in BarrierId
    PROVE  /\ calls'[b] \subseteq d.wait[b]
           /\ \A t \in d.wait[b] : t \notin calls'[b] => passed'[b]
           /\ b \in d.pass => calls'[b] = {} /\ passed'[b] /\ result'[b] = d.res
           /\ passed[b] /\ b \notin d.start => passed'[b]
           /\ result'[b] = "ok" => \/ b \in d.pass /\ d.res = "ok"
                                   \/ b \notin d.start /\ result[b] = "ok"
           /\ b \in ongoing' => b \in ongoing \cup d.start
           /\ b \in ongoing => b \notin d.start /\ calls[b] \subseteq d.wait[b]
           /\ b \notin d.start => counter'[b] = counter[b]
           /\ b \in d.start => counter'[b] = IF passed[b] THEN counter[b] + 1 ELSE counter[b]
           /\ counter[b] \in Nat /\ counter'[b] \in Nat
  <1> DEFINE err == Errors(d)
             fin == Passed(d, err)
             left == [x \in BarrierId |-> Left(x, d, err)]
  <1>1. /\ SettleBarriers(d, fin, left) /\ EffectType(d) /\ d.pass \subseteq fin
        /\ fin \subseteq BarrierId
    BY SettleParameters DEF Settle, Consequences, Handled, Proper, IInv
  <1>2. left[b] = {}
    BY Names DEF Left
  <1> HIDE DEF err, fin, left
  <1>3. /\ calls'[b] = IF b \in fin THEN {} ELSE d.wait[b]
        /\ passed'[b] = (b \in fin \/ (passed[b] /\ b \notin d.start))
    BY <1>1, <1>2 DEF SettleBarriers
  <1>4. /\ b \in d.pass => result'[b] = d.res
        /\ result'[b] = "ok" => \/ b \in d.pass /\ d.res = "ok"
                                \/ b \notin d.start /\ result[b] = "ok"
    BY <1>1 DEF SettleBarriers, Outcome
  <1>5. b \in ongoing' => b \in ongoing \cup d.start
    BY <1>1 DEF SettleBarriers, Ongoing
  <1>6. /\ b \in ongoing => b \notin d.start /\ calls[b] \subseteq d.wait[b]
        /\ b \notin d.start => counter'[b] = counter[b]
        /\ b \in d.start => counter'[b] = IF passed[b] THEN counter[b] + 1 ELSE counter[b]
        /\ counter[b] \in Nat /\ counter'[b] \in Nat
    BY DEF Handled, Proper, Careful, IInv, TypeOK
  <1> QED BY <1>1, <1>3, <1>4, <1>5, <1>6

\* An instance that is over stays over.
LEMMA SettleOver ==
    ASSUME IInv, NEW d, Handled(d), Settle(d), NEW b \in BarrierId, NEW n \in Int, Over(b, n)
    PROVE  Over(b, n)'
  BY SettleBarrier DEF Over

\* The handler of the requests of `of` has record d: a request for a client
\* barrier has the effects of a call, and the other client barriers are at most
\* failed.
LeavesAlone(b, d) ==
    /\ b \notin d.start /\ d.wait[b] = calls[b] /\ members'[b] = members[b]
    /\ b \in d.pass => d.res # "ok"
CallsBarrier(t, d) == CallEffect(user[t], barrierCounter[t][user[t]] + 1, t, {}, d)
Serves(d, of) ==
    /\ Handled(d) /\ Settle(d)
    /\ \A t \in of : /\ t \in Task /\ rpc[t].phase = "sent"
                     /\ user[t] \in Barrier => CallsBarrier(t, d)
    /\ \A b \in Barrier : (\A t \in of : user[t] # b) => LeavesAlone(b, d)

\* The client barriers after a step of the service.
LEMMA ServesJob ==
    ASSUME AInv, NEW d, NEW of, Serves(d, of), UNCHANGED requested, NEW b \in Barrier
    PROVE  JobBarrier(b)'
  <1>1. /\ IInv /\ Handled(d) /\ Settle(d) /\ b \in BarrierId /\ JobBarrier(b)
        /\ requested \in [Task -> [Barrier -> Int]]
    BY Names DEF AInv, Serves, AgentTypes, AgentTypeOK
  <1>2. calls[b] # {} => b \in ongoing
    BY <1>1 DEF IInv, Bookkeeping
  <1>3. CASE \A t \in of : user[t] # b
    <2>1. LeavesAlone(b, d)
      BY <1>3 DEF Serves
    <2> QED BY <1>1, <2>1, SettleBarrier DEF LeavesAlone, JobBarrier
  <1>4. ASSUME NEW t \in of, user[t] = b PROVE JobBarrier(b)'
    <2> DEFINE c == barrierCounter[t][b] + 1
    <2>1. t \in Task /\ CallEffect(b, c, t, {}, d)
      BY <1>4 DEF Serves, CallsBarrier
    <2>2. requested[t][b] >= c
      BY <1>4, <2>1 DEF AInv, CallInv, AgentTypes, AgentTypeOK
    <2>3. members'[b] \in {{}, Task} /\ (b \in ongoing' => members'[b] = Task)
      BY <1>1, <2>1, SettleBarrier DEF CallEffect, JobBarrier
    <2> HIDE DEF c
    <2>4. ASSUME NEW u \in d.wait[b], b \in d.pass => d.res = "ok"
          PROVE  u \in Task /\ requested[u][b] >= counter'[b]
      <3>1. u \in calls[b] \/ u = t
        BY <2>1, <2>4 DEF CallEffect
      <3>2. CASE u \in calls[b]
        BY <1>1, <1>2, <3>2, SettleBarrier DEF JobBarrier, IInv, TypeOK
      <3>3. CASE u = t
        BY <2>1, <2>2, <2>4, <3>3, Names DEF CallEffect
      <3> QED BY <3>1, <3>2, <3>3
    <2>5. \A u \in calls'[b] : requested[u][b] >= counter'[b]
      BY <1>1, <2>4, SettleBarrier
    <2>6. ASSUME result'[b] = "ok" PROVE \A u \in Task : requested[u][b] >= counter'[b]
      <3>1. CASE b \in d.pass /\ d.res = "ok"
        <4>1. d.wait[b] = members'[b]
          BY <1>1, <3>1 DEF Handled, Careful
        <4>2. t \in d.wait[b]
          BY <2>1, <3>1 DEF CallEffect
        <4> QED BY <2>3, <2>4, <3>1, <4>1, <4>2
      <3>2. CASE b \notin d.start /\ result[b] = "ok"
        BY <1>1, <3>2, SettleBarrier DEF JobBarrier
      <3> QED BY <1>1, <2>6, <3>1, <3>2, SettleBarrier
    <2> QED BY <2>3, <2>5, <2>6 DEF JobBarrier
  <1> QED BY <1>3, <1>4

\* At most one answer to a call is definite; the other, if any, goes to an older
\* call that this one replaces.
LEMMA OneDefinite ==
    ASSUME IInv, NEW d, Handled(d), Settle(d), NEW r \in replies', NEW q \in replies',
           r.to = q.to, r.of = q.of, r.of \in BarrierId, Definite(r), Definite(q)
    PROVE  r = q
  <1> DEFINE err == Errors(d)
             fin == Passed(d, err)
             left == [x \in BarrierId |-> Left(x, d, err)]
             called(b) == Called(d, b, d.wait[b] \ left[b], Outcome(b, d))
  <1>1. SettleReplies(d, fin, left) /\ fin \subseteq BarrierId /\ fin \subseteq ongoing \cup d.pass
    BY SettleParameters
       DEF Settle, Consequences, Handled, Proper, IInv, Passed, BarriersOf
  <1>2. CancelledCalls(d, left) = {}
    BY Names DEF CancelledCalls, Called, Left
  <1> HIDE DEF err, fin, left
  <1>3. ASSUME NEW a \in replies', a.of = r.of
        PROVE  a \in d.answers \/ (r.of \in fin /\ a \in called(r.of))
    <2>1. a \notin PollAnswers(d, fin)
      BY <1>3, NamesAssumption DEF PollAnswers, Reply
    <2>2. ASSUME NEW b \in fin, a \in called(b) PROVE b = r.of
      BY <1>3, <2>2, AnswerFields DEF Called
    <2> QED BY <1>1, <1>2, <1>3, <2>1, <2>2 DEF SettleReplies, RepliesSent
  <1>4. ASSUME NEW a \in d.answers, a.of = r.of, Definite(a), r.of \in fin
        PROVE  called(r.of) = {}
    <2>1. r.of \notin ongoing /\ r.of \in d.pass /\ d.wait[r.of] = {}
      BY <1>1, <1>4 DEF Handled, Careful
    <2> QED BY <2>1 DEF Called
  <1>5. CASE r \in d.answers /\ q \in d.answers
    BY <1>5 DEF Handled, Careful
  <1>6. CASE r \in called(r.of) /\ q \in called(r.of)
    BY <1>6, AnswerFields DEF Called
  <1> QED BY <1>3, <1>4, <1>5, <1>6

\* What the caller is told.
LEMMA Answered ==
    ASSUME IInv, NEW d, Handled(d), Settle(d), NEW t \in Task, BarrierOf(t) \in BarrierId
    PROVE  /\ AnswerTo(t) \in RpcStatuses \ {"lost"}
           /\ AnswerTo(t) = "ok" /\ Answers(t) # {} =>
                \E r \in replies' : r.to = t /\ r.of = BarrierOf(t) /\ r.st = "ok"
  <1>1. replies' \subseteq ReplySet
    BY SettleType DEF Handled, IInv, TypeOK, ReplySet
  <1>2. Answers(t) \subseteq RpcStatuses \ {"lost"}
    BY <1>1 DEF Answers, ReplySet, RpcStatuses
  <1>3. CASE Answers(t) = {}
    BY <1>3 DEF AnswerTo, RpcStatuses
  <1>4. CASE Answers(t) # {}
    <2>1. ASSUME NEW x \in Answers(t), NEW y \in Answers(t),
                 x \notin {"cancelled", "exists"}, y \notin {"cancelled", "exists"}
          PROVE  x = y
      <3>1. PICK r \in replies' : r.to = t /\ r.of = BarrierOf(t) /\ r.st = x
        BY DEF Answers
      <3>2. PICK q \in replies' : q.to = t /\ q.of = BarrierOf(t) /\ q.st = y
        BY DEF Answers
      <3> QED BY <2>1, <3>1, <3>2, OneDefinite DEF Definite
    <2>2. \E st \in Answers(t) : Answers(t) \ {st} \subseteq {"cancelled", "exists"} \ {st}
      <3>1. CASE \E x \in Answers(t) : x \notin {"cancelled", "exists"}
        BY <2>1, <3>1
      <3>2. CASE Answers(t) \subseteq {"cancelled", "exists"}
        BY <1>4, <3>2
      <3> QED BY <3>1, <3>2
    <2>3. AnswerTo(t) \in Answers(t)
      BY <1>4, <2>2 DEF AnswerTo
    <2> QED BY <1>2, <2>3 DEF Answers
  <1> QED BY <1>3, <1>4

\* A client's call that the service does not hold any more: its instance is over,
\* and if the call returns OK all tasks have asked for the instance.
LEMMA Released ==
    ASSUME AInv, NEW d, NEW of, Serves(d, of), NEW t \in Task, user[t] \in Barrier,
           t \in of \/ rpc[t].phase = "served", t \notin calls'[user[t]], UNCHANGED requested
    PROVE  /\ passed'[user[t]]
           /\ AnswerTo(t) = "ok" => \A u \in Task : requested[u][user[t]] >= counter'[user[t]]
  <1>b. PICK b \in Barrier : b = user[t]
    OBVIOUS
  <1>1. /\ IInv /\ Handled(d) /\ Settle(d) /\ b \in BarrierId /\ BarrierOf(t) = b
        /\ calls[b] # {} => b \in ongoing
    BY <1>b, Names, CallsAt DEF AInv, Serves, IInv, Bookkeeping
  <1>2. t \in of => CallEffect(b, barrierCounter[t][b] + 1, t, {}, d)
    BY <1>b DEF Serves, CallsBarrier
  <1>3. t \notin of => t \in d.wait[b]
    BY <1>b, <1>1, SettleBarrier DEF AInv, CallInv
  <1>4. passed'[b]
    BY <1>b, <1>1, <1>2, <1>3, SettleBarrier DEF CallEffect
  <1>5. Answers(t) # {}
    <2>1. \E r \in replies' : r.to = t /\ r.of = b
      <3>1. CASE t \in d.wait[b]
        BY <1>b, <1>1, <3>1, SettleAnswers
      <3>2. CASE t \notin d.wait[b]
        <4>1. PICK r \in d.answers : r.to = t /\ r.of = b
          BY <1>2, <1>3, <3>2 DEF CallEffect
        <4>2. r \in replies'
          BY <1>1 DEF Settle, Consequences, SettleReplies, RepliesSent
        <4> QED BY <4>1, <4>2
      <3> QED BY <3>1, <3>2
    <2> QED BY <1>1, <2>1 DEF Answers
  <1>6. ASSUME AnswerTo(t) = "ok" PROVE \A u \in Task : requested[u][b] >= counter'[b]
    <2>1. PICK r \in replies' : r.to = t /\ r.of = b /\ r.st = "ok"
      BY <1>1, <1>5, <1>6, Answered
    <2>2. \/ passed[b] /\ result[b] = "ok" /\ counter'[b] = counter[b]
          \/ b \in d.pass /\ d.res = "ok"
      BY <1>1, <2>1, SettleReleases
    <2>3. JobBarrier(b) /\ JobBarrier(b)'
      BY ServesJob DEF AInv
    <2> QED BY <1>1, <2>2, <2>3, SettleBarrier DEF JobBarrier
  <1> QED BY <1>b, <1>4, <1>6

-----------------------------------------------------------------------------
(* The steps in which the service handles something *)

\* What these steps leave to the threads of the agents.
AgentFrame ==
    /\ UNCHANGED <<agent, process, user, barrierCounter, shuttingDown, requested, incidents>>
    /\ heartbeat' \in [Task -> {"off", "rest", "failed"}]
    /\ cancel' \in [Task -> [id : Barrier, cnt : Nat] \cup {NoCancel}]

LEMMA PollTyped ==
    ASSUME AInv, NEW of, PollAfter(of)
    PROVE  poll' \in [Task -> {"off", "sent", "served", "error"}]
  BY DEF PollAfter, AInv, AgentTypes, AgentTypeOK

\* The types of the agents' variables that a step of the service may change.
LEMMA FrameTyped ==
    ASSUME AInv, AgentFrame, poll' \in [Task -> {"off", "sent", "served", "error"}],
           rpc' \in [Task -> [phase : RpcPhases, st : RpcStatuses, cnt : Nat]],
           \A t \in Task : rpc'[t].phase = "none" <=> rpc[t].phase = "none"
    PROVE  AgentTypes'
  <1>1. AgentTypes /\ AgentTypeOK
    BY DEF AInv, AgentTypes
  <1>2. \A t \in Task : /\ rpc'[t].phase \in RpcPhases /\ rpc'[t].st \in RpcStatuses
                        /\ rpc'[t].cnt \in Nat
    OBVIOUS
  <1>3. \A t \in Task : cancel'[t].id \in Barrier \cup {"none"} /\ cancel'[t].cnt \in Nat
    BY DEF AgentFrame, NoCancel
  <1>4. \A t \in Task : rpc'[t].phase # "none" <=> user'[t] \in Barrier \cup {"Connect", "Shutdown"}
    BY <1>1 DEF AgentTypeOK, AgentFrame
  <1>5. AgentTypeOK'
    BY <1>1, <1>2, <1>3, <1>4 DEF AgentTypeOK, AgentFrame, RpcPhases, RpcStatuses
  <1> QED BY <1>1, <1>5 DEF AgentTypes, AgentFrame

\* The RPC of task t after a step of the service.
LEMMA ServesRpc ==
    ASSUME AInv, NEW d, NEW of, Serves(d, of), RpcAfter(of), NEW t \in Task,
           UNCHANGED <<user, barrierCounter, requested>>
    PROVE  /\ rpc'[t] \in [phase : RpcPhases, st : RpcStatuses, cnt : Nat]
           /\ rpc'[t].phase = "none" <=> rpc[t].phase = "none"
           /\ CallInv(t)'
           /\ user[t] \in Barrier /\ rpc'[t].st = "ok" =>
                \A u \in Task : requested[u][user[t]] >= rpc'[t].cnt
  <1>1. /\ IInv /\ Handled(d) /\ Settle(d) /\ CallInv(t) /\ TypeOK'
        /\ rpc[t] \in [phase : RpcPhases, st : RpcStatuses, cnt : Nat]
        /\ t \in of => rpc[t].phase = "sent"
    BY SettleType DEF AInv, Serves, Handled, AgentTypes, IInv
  <1>2. PICK a, n, b : a = user[t] /\ n = rpc[t] /\ b = BarrierOf(t)
    OBVIOUS
  <1>3. user'[t] = a /\ BarrierOf(t)' = b
    BY <1>2 DEF BarrierOf
  <1>4. a \in Barrier => a = b /\ b \in BarrierId
    BY <1>2, CallsAt, Names
  <1>5. n.phase # "none" => b \in BarrierId
    <2>1. n.phase # "none" => a \in Barrier \cup {"Connect", "Shutdown"}
      BY <1>2 DEF AInv, AgentTypes, AgentTypeOK
    <2> QED BY <1>2, <2>1, CallsAt, Names
  <1>6. a \in Barrier => requested'[t][a] > barrierCounter'[t][a]
    BY <1>1, <1>2 DEF CallInv
  <1>7. CASE t \notin of /\ n.phase # "served"
    <2>1. rpc'[t] = n
      BY <1>2, <1>7 DEF RpcAfter
    <2>2. ASSUME a \in Barrier, n.phase = "answered", n.st # "lost"
          PROVE  Over(a, n.cnt)'
      <3>1. Over(a, n.cnt)
        BY <1>1, <1>2, <2>2 DEF CallInv
      <3> QED BY <1>1, <1>2, <1>4, <2>2, <3>1, SettleOver
    <2>3. CallInv(t)'
      BY <1>1, <1>2, <1>3, <1>6, <1>7, <2>1, <2>2 DEF CallInv
    <2> QED BY <1>1, <1>2, <2>1, <2>3 DEF AInv, ReleaseMeansAllCalled
  <1>8. CASE ~(t \notin of /\ n.phase # "served") /\ t \in calls'[b]
    <2>1. rpc'[t] = [n EXCEPT !.phase = "served"] /\ n.phase \in {"sent", "served"}
      BY <1>1, <1>2, <1>8 DEF RpcAfter
    <2>2. rpc'[t].phase = "served" /\ rpc'[t].st = "none" /\ rpc'[t].cnt = n.cnt
      BY <1>1, <1>2, <2>1 DEF CallInv
    <2>3. CallInv(t)'
      BY <1>3, <1>6, <1>8, <2>2 DEF CallInv
    <2> QED BY <1>1, <1>2, <2>1, <2>2, <2>3 DEF RpcPhases
  <1>9. CASE ~(t \notin of /\ n.phase # "served") /\ t \notin calls'[b]
    <2>1. /\ rpc'[t] = [phase |-> "answered", st |-> AnswerTo(t), cnt |-> counter'[b]]
          /\ n.phase \in {"sent", "served"} /\ b \in BarrierId
      BY <1>1, <1>2, <1>5, <1>9 DEF RpcAfter
    <2>2. AnswerTo(t) \in RpcStatuses /\ counter'[b] \in Nat
      BY <1>1, <1>2, <2>1, Answered DEF TypeOK
    <2>3. ASSUME a \in Barrier
          PROVE  passed'[b] /\ (AnswerTo(t) = "ok" => \A u \in Task : requested[u][b] >= counter'[b])
      BY <1>2, <1>4, <1>9, <2>3, Released
    <2>4. CallInv(t)'
      BY <1>3, <1>4, <1>6, <2>1, <2>2, <2>3 DEF CallInv, Over
    <2> QED BY <1>2, <1>4, <2>1, <2>2, <2>3, <2>4 DEF RpcPhases
  <1> QED BY <1>7, <1>8, <1>9

LEMMA ServesKeeps ==
    ASSUME AInv, NEW d, NEW of, NEW pof, Serves(d, of), RpcAfter(of), PollAfter(pof), AgentFrame
    PROVE  AInv'
  <1>1. IInv'
    BY SettleKeeps DEF Serves, AInv
  <1>2. \A b \in Barrier : JobBarrier(b)'
    BY ServesJob DEF AgentFrame
  <1>3. UNCHANGED <<user, barrierCounter, requested>>
    BY DEF AgentFrame
  <1>4. AgentTypes'
    <2>1. DOMAIN rpc' = Task /\ rpc' = [t \in Task |-> rpc'[t]]
      BY DEF RpcAfter
    <2>2. rpc' \in [Task -> [phase : RpcPhases, st : RpcStatuses, cnt : Nat]]
      BY <1>3, <2>1, ServesRpc
    <2> QED BY <1>3, <2>2, ServesRpc, FrameTyped, PollTyped
  <1>5. \A t \in Task : CallInv(t)'
    BY <1>3, ServesRpc
  <1>6. NeverAhead'
    <2> SUFFICES ASSUME NEW t \in Task, NEW b \in Barrier PROVE Over(b, barrierCounter[t][b])'
      BY DEF NeverAhead, Over
    <2>1. PICK n : n = barrierCounter[t][b]
      OBVIOUS
    <2>2. n \in Int /\ Over(b, n) /\ b \in BarrierId
      BY <2>1, Names DEF AInv, NeverAhead, Over, AgentTypes, AgentTypeOK
    <2>3. Over(b, n)'
      BY <2>2, SettleOver DEF Serves, AInv
    <2> QED BY <1>3, <2>1, <2>3
  <1>7. ReleaseMeansAllCalled'
    BY <1>3, ServesRpc DEF ReleaseMeansAllCalled
  <1> QED BY <1>1, <1>2, <1>4, <1>5, <1>6, <1>7 DEF AInv

LEMMA SimpleServes ==
    ASSUME NEW d, Handled(d), Settle(d), Simple(d), NEW of,
           \A t \in of : t \in Task /\ rpc[t].phase = "sent" /\ user[t] \notin Barrier
    PROVE  Serves(d, of)
  BY DEF Serves, LeavesAlone, Simple

LEMMA HandleRpcKeeps ==
    ASSUME AInv, NEW t \in Task, HandleRpc(t)
    PROVE  AInv'
  <1>1. /\ rpc[t].phase = "sent" /\ RpcAfter({t}) /\ PollAfter({}) /\ AgentFrame
        /\ IInv
    BY DEF HandleRpc, AgentFrame, AInv, AgentTypes, AgentTypeOK
  <1>2. ASSUME NEW x \in {Register, Shutdown}, NEW args, NEW d, Handled(d), Settle(d),
               Simple(d) \/ CallEffect(x, 0, t, args, d), user[t] \in {"Connect", "Shutdown"}
        PROVE  Serves(d, {t})
    <2>1. user[t] \notin Barrier
      BY <1>2, NamesAssumption, Names
    <2>2. CASE Simple(d)
      BY <1>1, <1>2, <2>1, <2>2, SimpleServes
    <2>3. CASE CallEffect(x, 0, t, args, d)
      BY <1>1, <1>2, <2>1, <2>3, Names, BarrierAssumption DEF Serves, LeavesAlone, CallEffect
    <2> QED BY <1>2, <2>2, <2>3
  <1>3. CASE user[t] = "Connect" /\ RegisterTaskAsync(t, process[t])
    <2>1. process[t] \in 1 .. MaxIncarnation
      BY DEF AInv, AgentTypes, AgentTypeOK
    <2>2. PICK d : /\ Handled(d) /\ Settle(d)
                   /\ Simple(d) \/ CallEffect(Register, 0, t, {}, d)
      BY <1>1, <1>3, <2>1, RegisterHandled
    <2> QED BY <1>1, <1>2, <1>3, <2>2, ServesKeeps
  <1>4. CASE user[t] = "Shutdown" /\ ShutdownTaskAsync(t)
    <2>1. PICK d : /\ Handled(d) /\ Settle(d)
                   /\ Simple(d) \/ CallEffect(Shutdown, 0, t, Task, d)
      BY <1>1, <1>4, ShutdownHandled
    <2> QED BY <1>1, <1>2, <1>4, <2>1, ServesKeeps
  <1>5. CASE user[t] \in Barrier /\ BarrierAsync(user[t], barrierCounter[t][user[t]] + 1, t, {})
    <2>1. PICK b, c : b \in Barrier /\ b = user[t] /\ c = barrierCounter[t][b] + 1
      BY <1>5
    <2>2. c \in Nat /\ b \in BarrierId
      BY <2>1, Names DEF AInv, AgentTypes, AgentTypeOK
    <2>3. ~stopped /\ UNCHANGED <<stopped, incarnation, polling>>
          /\ BarrierAsyncLocked(b, c, t, {}, 0)
      BY <1>5, <2>1 DEF BarrierAsync
    <2>4. Calling(b, c, t, {}, 0)
      BY <1>1, <2>1, <2>2, <2>3, BarrierAssumption DEF Calling, IInv, TypeOK
    <2>5. PICK d : Handled(d) /\ Settle(d) /\ CallEffect(b, c, t, {}, d)
      BY <1>1, <2>3, <2>4, BarrierStep
    <2>6. Serves(d, {t})
      BY <1>1, <2>1, <2>5, Names DEF Serves, CallsBarrier, LeavesAlone, CallEffect
    <2> QED BY <1>1, <2>6, ServesKeeps
  <1> QED BY <1>3, <1>4, <1>5 DEF HandleRpc

LEMMA HandleCancelKeeps ==
    ASSUME AInv, NEW t \in Task, HandleCancel(t)
    PROVE  AInv'
  <1>1. RpcAfter({}) /\ PollAfter({}) /\ AgentFrame /\ cancel[t].id \in Barrier /\ IInv
    BY DEF HandleCancel, AgentFrame, AInv, AgentTypes, AgentTypeOK
  <1>2. PICK d : Handled(d) /\ Settle(d) /\ Simple(d)
    BY <1>1, CancelHandled DEF HandleCancel
  <1>3. Serves(d, {})
    BY <1>2, SimpleServes
  <1> QED BY <1>1, <1>3, ServesKeeps

LEMMA ServiceRunsKeeps ==
    ASSUME AInv, ServiceRuns
    PROVE  AInv'
  <1>1. RpcAfter({}) /\ PollAfter({}) /\ AgentFrame /\ IInv
    BY DEF ServiceRuns, AgentFrame, AInv, AgentTypes, AgentTypeOK
  <1>2. PICK d : Handled(d) /\ Settle(d) /\ Simple(d)
    BY <1>1, StalenessHandled DEF ServiceRuns
  <1>3. Serves(d, {})
    BY <1>2, SimpleServes
  <1> QED BY <1>1, <1>3, ServesKeeps

-----------------------------------------------------------------------------
(* The steps that leave the service's barriers alone *)

Calm == UNCHANGED <<counter, passed, result, members, calls, ongoing>>

\* At most task t's part of the agents' state changes.
Local(t) ==
    /\ \A u \in Task \ {t} : /\ user'[u] = user[u] /\ rpc'[u] = rpc[u]
                             /\ barrierCounter'[u] = barrierCounter[u]
    /\ requested' \in [Task -> [Barrier -> Int]]
    /\ \A u \in Task, b \in Barrier : requested'[u][b] >= requested[u][b]
    /\ \A b \in Barrier : \/ barrierCounter'[t][b] = barrierCounter[t][b]
                          \/ barrierCounter'[t][b] = -1
                          \/ /\ user[t] = b /\ rpc[t].phase = "answered" /\ rpc[t].st # "lost"
                             /\ barrierCounter'[t][b] = rpc[t].cnt
    /\ user'[t] \in Barrier /\ rpc'[t].st = "ok" => user'[t] = user[t] /\ rpc'[t] = rpc[t]
    /\ CallInv(t)'

LEMMA LocalKeeps ==
    ASSUME AInv, IInv', AgentTypes', Calm, NEW t \in Task, Local(t)
    PROVE  AInv'
  <1>1. /\ requested \in [Task -> [Barrier -> Int]] /\ counter \in [BarrierId -> Nat]
        /\ barrierCounter \in [Task -> [Barrier -> Int]]
        /\ \A u \in Task : rpc[u].cnt \in Nat
    BY DEF AInv, AgentTypes, AgentTypeOK, IInv, TypeOK
  <1>2. ASSUME NEW b \in Barrier PROVE JobBarrier(b)'
    <2>1. JobBarrier(b) /\ b \in BarrierId /\ calls[b] \subseteq Task
      BY Names DEF AInv, IInv, TypeOK
    <2> QED BY <1>1, <2>1 DEF JobBarrier, Calm, Local
  <1>3. ASSUME NEW u \in Task PROVE CallInv(u)'
    <2>1. CASE u = t
      BY <2>1 DEF Local
    <2>2. CASE u # t
      <3>1. /\ CallInv(u) /\ user'[u] = user[u] /\ rpc'[u] = rpc[u]
            /\ barrierCounter'[u] = barrierCounter[u]
        BY <2>2 DEF AInv, Local
      <3>2. BarrierOf(u)' = BarrierOf(u)
        BY <3>1 DEF BarrierOf
      <3>3. user[u] \in Barrier => requested'[u][user[u]] > barrierCounter[u][user[u]]
        BY <1>1, <3>1 DEF CallInv, Local
      <3> QED BY <3>1, <3>2, <3>3 DEF CallInv, Calm, Over
    <2> QED BY <2>1, <2>2
  <1>4. NeverAhead'
    <2> SUFFICES ASSUME NEW u \in Task, NEW b \in Barrier PROVE Over(b, barrierCounter[u][b])'
      BY DEF NeverAhead, Over
    <2>1. Over(b, barrierCounter[u][b])
      BY DEF AInv, NeverAhead, Over
    <2>2. CASE barrierCounter'[u][b] = barrierCounter[u][b]
      BY <2>1, <2>2 DEF Over, Calm
    <2>3. CASE barrierCounter'[u][b] = -1
      BY <1>1, <2>3, Names DEF Over, Calm
    <2>4. CASE /\ u = t /\ user[t] = b /\ rpc[t].phase = "answered" /\ rpc[t].st # "lost"
               /\ barrierCounter'[t][b] = rpc[t].cnt
      <3>1. Over(b, rpc[t].cnt)
        BY <2>4 DEF AInv, CallInv
      <3> QED BY <2>4, <3>1 DEF Over, Calm
    <2> QED BY <2>2, <2>3, <2>4 DEF Local
  <1>5. ReleaseMeansAllCalled'
    <2> SUFFICES ASSUME NEW u \in Task, user'[u] \in Barrier, rpc'[u].st = "ok", NEW w \in Task
                 PROVE  requested'[w][user'[u]] >= rpc'[u].cnt
      BY DEF ReleaseMeansAllCalled
    <2>1. user'[u] = user[u] /\ rpc'[u] = rpc[u]
      BY DEF Local
    <2>2. requested[w][user[u]] >= rpc[u].cnt
      BY <2>1 DEF AInv, ReleaseMeansAllCalled
    <2> QED BY <1>1, <2>1, <2>2 DEF Local
  <1> QED BY <1>2, <1>3, <1>4, <1>5 DEF AInv

LEMMA IdleKeeps ==
    ASSUME IInv, ServiceIdle
    PROVE  IInv' /\ Calm
  <1>1. TypeOK'
    BY DEF ServiceIdle, Silent, IInv, TypeOK, taskVars, barrierVars, pollVars, watchVars
  <1>2. polls' # {} => polling' /\ (RegisterWithBarrier => result[Register] = "ok")
    BY DEF ServiceIdle, pollVars, IInv, Registering
  <1>3. IInv'
    BY <1>1, <1>2, FrameKeeps DEF ServiceIdle, taskVars, barrierVars
  <1> QED BY <1>3 DEF ServiceIdle, Calm, barrierVars

\* A step that changes no RPC of a user's thread.
LEMMA SameCalls ==
    ASSUME AInv, IInv', AgentTypes', Calm, UNCHANGED <<user, rpc, barrierCounter, requested>>
    PROVE  AInv'
  <1>1. PICK t : t \in Task
    BY TaskAssumption
  <1>2. CallInv(t) /\ BarrierOf(t)' = BarrierOf(t)
    BY <1>1 DEF AInv, BarrierOf
  <1>3. CallInv(t)'
    BY <1>2 DEF CallInv, Calm, Over
  <1>4. requested \in [Task -> [Barrier -> Int]]
    BY DEF AInv, AgentTypes, AgentTypeOK
  <1>5. Local(t)
    BY <1>3, <1>4 DEF Local
  <1> QED BY <1>1, <1>5, LocalKeeps

\* RPCs that are held stay where they are when nothing happens to the barriers.
LEMMA CalmRpc ==
    ASSUME AInv, Calm, RpcAfter({}), UNCHANGED user
    PROVE  rpc' = rpc
  <1>1. rpc \in [Task -> [phase : RpcPhases, st : RpcStatuses, cnt : Nat]]
    BY DEF AInv, AgentTypes
  <1>2. ASSUME NEW t \in Task PROVE rpc'[t] = rpc[t]
    <2>1. CASE rpc[t].phase # "served"
      BY <2>1 DEF RpcAfter
    <2>2. CASE rpc[t].phase = "served"
      <3>1. t \in calls'[BarrierOf(t)]
        BY <2>2 DEF AInv, CallInv, Calm
      <3>2. rpc'[t] = [rpc[t] EXCEPT !.phase = "served"]
        BY <2>2, <3>1 DEF RpcAfter
      <3>3. rpc[t] \in [phase : RpcPhases, st : RpcStatuses, cnt : Nat]
        BY <1>1
      <3> QED BY <2>2, <3>2, <3>3
    <2> QED BY <2>1, <2>2
  <1>3. rpc' = [t \in Task |-> rpc'[t]]
    BY DEF RpcAfter
  <1> QED BY <1>1, <1>2, <1>3

\* Steps of the service that concern neither barriers nor tasks.
LEMMA CalmServiceKeeps ==
    ASSUME AInv, Otherwise, Calm, RpcAfter({}), NEW of, PollAfter(of), AgentFrame
    PROVE  AInv'
  <1>1. IInv' /\ user' = user
    BY OtherwiseKeeps DEF AInv, AgentFrame
  <1>2. rpc' = rpc
    BY <1>1, CalmRpc
  <1>3. AgentTypes'
    BY <1>2, PollTyped, FrameTyped DEF AInv, AgentTypes
  <1> QED BY <1>1, <1>2, <1>3, SameCalls DEF AgentFrame

LEMMA HandleHeartbeatKeeps ==
    ASSUME AInv, NEW t \in Task, HandleHeartbeat(t)
    PROVE  AInv'
  <1>1. /\ RpcAfter({}) /\ PollAfter({}) /\ AgentFrame /\ RecordHeartbeat(t, process[t])
        /\ process[t] \in 1 .. MaxIncarnation /\ IInv
    BY DEF HandleHeartbeat, AgentFrame, AInv, AgentTypes, AgentTypeOK
  <1>2. CASE incarnation[t] = process[t]
    <2>1. Otherwise
      BY <1>1, <1>2 DEF Otherwise
    <2>2. Calm
      BY <1>1, <1>2 DEF RecordHeartbeat, Calm
    <2> QED BY <1>1, <2>1, <2>2, CalmServiceKeeps
  <1>3. CASE incarnation[t] # process[t]
    <2>1. PICK d : Handled(d) /\ Settle(d) /\ Simple(d)
      BY <1>1, <1>3, Names, ErrorHandled DEF RecordHeartbeat
    <2>2. Serves(d, {})
      BY <2>1, SimpleServes
    <2> QED BY <1>1, <2>2, ServesKeeps
  <1> QED BY <1>2, <1>3

LEMMA HandlePollKeeps ==
    ASSUME AInv, NEW t \in Task, HandlePoll(t)
    PROVE  AInv'
  <1>1. /\ RpcAfter({}) /\ PollAfter({t}) /\ AgentFrame /\ PollForErrorAsync(t)
    BY DEF HandlePoll, AgentFrame, AInv, AgentTypes, AgentTypeOK
  <1>2. Otherwise /\ Calm
    BY <1>1 DEF Otherwise, PollForErrorAsync, Calm, barrierVars
  <1> QED BY <1>1, <1>2, CalmServiceKeeps

LEMMA TimePassesKeeps ==
    ASSUME AInv, TimePasses
    PROVE  AInv'
  <1>1. IInv' /\ Calm
    BY OtherwiseKeeps DEF TimePasses, Otherwise, AInv, Clock, Calm
  <1>2. AgentTypes'
    BY DEF TimePasses, agentVars, AInv, AgentTypes, AgentTypeOK
  <1> QED BY <1>1, <1>2, SameCalls DEF TimePasses, agentVars

-----------------------------------------------------------------------------
(* The threads of the agents *)

\* The records of the agents have the types of the code's variables.
LEMMA TypesSplit ==
    ASSUME rpc' \in [Task -> [phase : RpcPhases, st : RpcStatuses, cnt : Nat]],
           cancel' \in [Task -> [id : Barrier, cnt : Nat] \cup {NoCancel}],
           agent' \in [Task -> TaskStates], process' \in [Task -> 1 .. MaxIncarnation],
           user' \in [Task -> Barrier \cup {"start", "Connect", "idle", "Shutdown",
                                            "joining", "over", "dead"}],
           \A t \in Task : rpc'[t].phase # "none"
                             <=> user'[t] \in Barrier \cup {"Connect", "Shutdown"},
           barrierCounter' \in [Task -> [Barrier -> Int]],
           \A t \in Task, b \in Barrier : barrierCounter'[t][b] >= -1,
           shuttingDown' \in [Task -> BOOLEAN],
           heartbeat' \in [Task -> {"off", "rest", "failed"}],
           poll' \in [Task -> {"off", "sent", "served", "error"}],
           requested' \in [Task -> [Barrier -> Int]],
           incidents' \in 0 .. MaxIncidents
    PROVE  AgentTypes'
  <1>1. \A t \in Task : /\ rpc'[t].phase \in RpcPhases /\ rpc'[t].st \in RpcStatuses
                        /\ rpc'[t].cnt \in Nat
    OBVIOUS
  <1>2. \A t \in Task : cancel'[t].id \in Barrier \cup {"none"} /\ cancel'[t].cnt \in Nat
    BY DEF NoCancel
  <1>3. AgentTypeOK'
    BY <1>1, <1>2 DEF AgentTypeOK, RpcPhases, RpcStatuses
  <1> QED BY <1>3 DEF AgentTypes

LEMMA TypesKnown ==
    ASSUME AInv
    PROVE  /\ rpc \in [Task -> [phase : RpcPhases, st : RpcStatuses, cnt : Nat]]
           /\ cancel \in [Task -> [id : Barrier, cnt : Nat] \cup {NoCancel}]
           /\ agent \in [Task -> TaskStates] /\ process \in [Task -> 1 .. MaxIncarnation]
           /\ user \in [Task -> Barrier \cup {"start", "Connect", "idle", "Shutdown",
                                              "joining", "over", "dead"}]
           /\ \A t \in Task : rpc[t].phase # "none"
                                <=> user[t] \in Barrier \cup {"Connect", "Shutdown"}
           /\ barrierCounter \in [Task -> [Barrier -> Int]]
           /\ \A t \in Task, b \in Barrier : barrierCounter[t][b] >= -1
           /\ shuttingDown \in [Task -> BOOLEAN]
           /\ heartbeat \in [Task -> {"off", "rest", "failed"}]
           /\ poll \in [Task -> {"off", "sent", "served", "error"}]
           /\ requested \in [Task -> [Barrier -> Int]]
           /\ incidents \in 0 .. MaxIncidents
  BY DEF AInv, AgentTypes, AgentTypeOK

\* The heartbeat thread, the callback of the error poll and the thread that
\* cancels a barrier do not touch the user's call.
LEMMA OtherThreadsKeep ==
    ASSUME AInv, ServiceIdle, NEW t \in Task,
           \/ RejectHeartbeat(t) \/ RefuseCancel(t) \/ CancelOngoing(t) \/ HeartbeatStops(t)
           \/ HeartbeatFails(t) \/ PollReturns(t)
    PROVE  AInv'
  <1>1. UNCHANGED <<user, rpc, barrierCounter, requested>>
    BY DEF RejectHeartbeat, RefuseCancel, CancelOngoing, HeartbeatStops, HeartbeatFails, PollReturns
  <1>2. UNCHANGED process
    BY DEF RejectHeartbeat, RefuseCancel, CancelOngoing, HeartbeatStops, HeartbeatFails, PollReturns
  <1>3. UNCHANGED shuttingDown
    BY DEF RejectHeartbeat, RefuseCancel, CancelOngoing, HeartbeatStops, HeartbeatFails, PollReturns
  <1>4. agent' \in [Task -> TaskStates]
    BY TypesKnown DEF RejectHeartbeat, RefuseCancel, CancelOngoing, HeartbeatStops,
                      HeartbeatFails, PollReturns, PollError, SetError, TaskStates
  <1>5. heartbeat' \in [Task -> {"off", "rest", "failed"}]
    BY TypesKnown DEF RejectHeartbeat, RefuseCancel, CancelOngoing, HeartbeatStops,
                      HeartbeatFails, PollReturns
  <1>6. poll' \in [Task -> {"off", "sent", "served", "error"}]
    BY TypesKnown DEF RejectHeartbeat, RefuseCancel, CancelOngoing, HeartbeatStops,
                      HeartbeatFails, PollReturns
  <1>7. cancel' \in [Task -> [id : Barrier, cnt : Nat] \cup {NoCancel}]
    <2>1. CASE CancelOngoing(t)
      <3>1. PICK b \in Barrier, c \in Nat : b = user[t] /\ c = barrierCounter[t][user[t]] + 1
        BY <2>1, TypesKnown DEF CancelOngoing
      <3>2. cancel' = [cancel EXCEPT ![t] = [id |-> b, cnt |-> c]]
        BY <2>1, <3>1 DEF CancelOngoing
      <3> QED BY <3>2, TypesKnown
    <2>2. CASE RefuseCancel(t)
      BY <2>2, TypesKnown DEF RefuseCancel
    <2>3. CASE UNCHANGED cancel
      BY <2>3, TypesKnown
    <2> QED BY <2>1, <2>2, <2>3
            DEF RejectHeartbeat, HeartbeatStops, HeartbeatFails, PollReturns
  <1>8. incidents' \in 0 .. MaxIncidents
    BY TypesKnown, JobAssumption
       DEF RejectHeartbeat, RefuseCancel, CancelOngoing, HeartbeatStops,
           HeartbeatFails, PollReturns, Incident
  <1>9. AgentTypes'
    BY <1>1, <1>2, <1>3, <1>4, <1>5, <1>6, <1>7, <1>8, TypesKnown, TypesSplit
  <1> QED BY <1>1, <1>9, IdleKeeps, SameCalls DEF AInv

\* An RPC that the service does not know of, or none.
FreshRpc == [phase : {"none", "sent"}, st : {"none"}, cnt : Nat]

LEMMA Fresh == /\ NoRpc \in FreshRpc /\ NoRpc.phase = "none"
               /\ SentRpc \in FreshRpc /\ SentRpc.phase = "sent"
  BY DEF FreshRpc, NoRpc, SentRpc

\* The user's thread starts a call or goes on without one.
LEMMA NewRpc ==
    ASSUME AInv, Calm, NEW t \in Task, NEW s, NEW r,
           user' = [user EXCEPT ![t] = s], rpc' = [rpc EXCEPT ![t] = r],
           r \in FreshRpc, s \notin Barrier,
           UNCHANGED requested,
           \A u \in Task \ {t} : barrierCounter'[u] = barrierCounter[u],
           \A b \in Barrier : \/ barrierCounter'[t][b] = barrierCounter[t][b]
                              \/ barrierCounter'[t][b] = -1
                              \/ /\ user[t] = b /\ rpc[t].phase = "answered" /\ rpc[t].st # "lost"
                                 /\ barrierCounter'[t][b] = rpc[t].cnt
    PROVE  Local(t)
  <1>1. /\ user'[t] = s /\ rpc'[t] = r
        /\ \A u \in Task \ {t} : user'[u] = user[u] /\ rpc'[u] = rpc[u]
    BY TypesKnown
  <1>2. r.phase \in {"none", "sent"} /\ r.st = "none"
    BY DEF FreshRpc
  <1>3. CallInv(t)'
    BY <1>1, <1>2 DEF CallInv
  <1> QED BY <1>1, <1>2, <1>3, TypesKnown DEF Local

Stages == {"start", "Connect", "idle", "Shutdown", "joining", "over", "dead"}

\* The types after such a step.
LEMMA NewRpcTypes ==
    ASSUME AInv, NEW t \in Task, NEW s \in Stages, NEW r \in FreshRpc,
           user' = [user EXCEPT ![t] = s], rpc' = [rpc EXCEPT ![t] = r],
           r.phase = "sent" <=> s \in {"Connect", "Shutdown"}
    PROVE  /\ rpc' \in [Task -> [phase : RpcPhases, st : RpcStatuses, cnt : Nat]]
           /\ user' \in [Task -> Barrier \cup {"start", "Connect", "idle", "Shutdown",
                                               "joining", "over", "dead"}]
           /\ \A u \in Task : rpc'[u].phase # "none"
                                <=> user'[u] \in Barrier \cup {"Connect", "Shutdown"}
           /\ s \notin Barrier
  <1>1. s \notin Barrier
    BY NamesAssumption, Names DEF Stages
  <1>2. /\ r \in [phase : RpcPhases, st : RpcStatuses, cnt : Nat]
        /\ r.phase # "none" <=> r.phase = "sent"
    BY DEF FreshRpc, RpcPhases, RpcStatuses
  <1>3. /\ rpc' \in [Task -> [phase : RpcPhases, st : RpcStatuses, cnt : Nat]]
        /\ rpc'[t] = r /\ \A u \in Task \ {t} : rpc'[u] = rpc[u]
    BY <1>2, TypesKnown
  <1>4. /\ user' \in [Task -> Barrier \cup {"start", "Connect", "idle", "Shutdown",
                                            "joining", "over", "dead"}]
        /\ user'[t] = s /\ \A u \in Task \ {t} : user'[u] = user[u]
    BY TypesKnown DEF Stages
  <1>5. ASSUME NEW u \in Task
        PROVE  rpc'[u].phase # "none" <=> user'[u] \in Barrier \cup {"Connect", "Shutdown"}
    BY <1>1, <1>2, <1>3, <1>4, TypesKnown
  <1> QED BY <1>1, <1>3, <1>4, <1>5

\* Task t's thread moves on to stage s; r is what becomes of its RPC.
Moves(t, s, r) ==
    /\ s \in Stages /\ r \in FreshRpc /\ (r.phase = "sent" <=> s \in {"Connect", "Shutdown"})
    /\ user' = [user EXCEPT ![t] = s] /\ rpc' = [rpc EXCEPT ![t] = r]
    /\ UNCHANGED requested
    /\ agent' \in [Task -> TaskStates] /\ process' \in [Task -> 1 .. MaxIncarnation]
    /\ shuttingDown' \in [Task -> BOOLEAN]
    /\ heartbeat' \in [Task -> {"off", "rest", "failed"}]
    /\ poll' \in [Task -> {"off", "sent", "served", "error"}]
    /\ cancel' \in [Task -> [id : Barrier, cnt : Nat] \cup {NoCancel}]
    /\ incidents' \in 0 .. MaxIncidents

LEMMA MovesKeep ==
    ASSUME AInv, ServiceIdle, NEW t \in Task, NEW s, NEW r, Moves(t, s, r),
           barrierCounter' \in [Task -> [Barrier -> Int]],
           \A u \in Task \ {t} : barrierCounter'[u] = barrierCounter[u],
           \A b \in Barrier : \/ barrierCounter'[t][b] = barrierCounter[t][b]
                              \/ barrierCounter'[t][b] = -1
                              \/ /\ user[t] = b /\ rpc[t].phase = "answered" /\ rpc[t].st # "lost"
                                 /\ barrierCounter'[t][b] = rpc[t].cnt
    PROVE  AInv'
  <1>1. IInv' /\ Calm
    BY IdleKeeps DEF AInv
  <1>2. /\ rpc' \in [Task -> [phase : RpcPhases, st : RpcStatuses, cnt : Nat]]
        /\ user' \in [Task -> Barrier \cup {"start", "Connect", "idle", "Shutdown",
                                            "joining", "over", "dead"}]
        /\ \A u \in Task : rpc'[u].phase # "none"
                             <=> user'[u] \in Barrier \cup {"Connect", "Shutdown"}
        /\ s \notin Barrier
    BY NewRpcTypes DEF Moves
  <1>3. ASSUME NEW u \in Task, NEW b \in Barrier PROVE barrierCounter'[u][b] >= -1
    <2>1. barrierCounter[u][b] \in Int /\ barrierCounter[u][b] >= -1 /\ rpc[u].cnt \in Nat
      BY TypesKnown
    <2>2. CASE u # t
      BY <2>1, <2>2
    <2>3. CASE u = t
      BY <2>1, <2>3
    <2> QED BY <2>2, <2>3
  <1>4. requested' \in [Task -> [Barrier -> Int]]
    BY TypesKnown DEF Moves
  <1>5. AgentTypes'
    BY <1>2, <1>3, <1>4, TypesSplit DEF Moves
  <1>6. Local(t)
    BY <1>1, <1>2, NewRpc DEF Moves
  <1> QED BY <1>1, <1>5, <1>6, LocalKeeps

LEMMA SameCounter ==
    ASSUME AInv, UNCHANGED barrierCounter, NEW t \in Task
    PROVE  /\ barrierCounter' \in [Task -> [Barrier -> Int]]
           /\ \A u \in Task \ {t} : barrierCounter'[u] = barrierCounter[u]
           /\ \A b \in Barrier : barrierCounter'[t][b] = barrierCounter[t][b]
  BY TypesKnown

LEMMA ConnectKeeps ==
    ASSUME AInv, NEW t \in Task,
           Connect(t) \/ ConnectReturns(t) \/ RetryConnect(t) \/ ConnectFails(t)
    PROVE  AInv'
  <1>1. /\ ServiceIdle
        /\ UNCHANGED barrierCounter
    BY DEF Connect, ConnectReturns, RetryConnect, ConnectFails
  <1>2. CASE Connect(t)
    <2>1. Moves(t, "Connect", SentRpc)
      BY <1>2, TypesKnown, Fresh DEF Connect, Moves, Stages
    <2> QED BY <1>1, <2>1, SameCounter, MovesKeep
  <1>3. CASE ConnectReturns(t)
    <2>1. Moves(t, "idle", NoRpc)
      BY <1>3, TypesKnown, Fresh DEF ConnectReturns, Moves, Stages, TaskStates
    <2> QED BY <1>1, <2>1, SameCounter, MovesKeep
  <1>4. CASE RetryConnect(t)
    <2>1. user' = [user EXCEPT ![t] = "Connect"] /\ incidents' \in 0 .. MaxIncidents
      BY <1>4, TypesKnown, JobAssumption DEF RetryConnect, Incident
    <2>2. Moves(t, "Connect", SentRpc)
      BY <1>4, <2>1, TypesKnown, Fresh DEF RetryConnect, Moves, Stages
    <2> QED BY <1>1, <2>2, SameCounter, MovesKeep
  <1>5. CASE ConnectFails(t)
    <2>1. Moves(t, "idle", NoRpc)
      BY <1>5, TypesKnown, Fresh DEF ConnectFails, SetError, Moves, Stages, TaskStates
    <2> QED BY <1>1, <2>1, SameCounter, MovesKeep
  <1> QED BY <1>2, <1>3, <1>4, <1>5

LEMMA BarrierReturnsKeeps ==
    ASSUME AInv, NEW t \in Task, BarrierReturns(t)
    PROVE  AInv'
  <1>1. PICK b, c : b \in Barrier /\ b = user[t] /\ c = CounterAfter(t)
    BY DEF BarrierReturns
  <1>2. ServiceIdle /\ rpc[t].phase = "answered" /\ Moves(t, "idle", NoRpc)
    BY TypesKnown, Fresh DEF BarrierReturns, Moves, Stages
  <1>3. barrierCounter' = [barrierCounter EXCEPT ![t][b] = c]
    BY <1>1 DEF BarrierReturns
  <1>4. c \in Int /\ (c = barrierCounter[t][b] \/ (rpc[t].st # "lost" /\ c = rpc[t].cnt))
    BY <1>1, TypesKnown DEF CounterAfter
  <1>5. /\ barrierCounter' \in [Task -> [Barrier -> Int]]
        /\ \A u \in Task \ {t} : barrierCounter'[u] = barrierCounter[u]
        /\ \A x \in Barrier : barrierCounter'[t][x] = IF x = b THEN c ELSE barrierCounter[t][x]
    BY <1>3, <1>4, TypesKnown
  <1> QED BY <1>1, <1>2, <1>4, <1>5, MovesKeep

LEMMA ShutdownKeeps ==
    ASSUME AInv, NEW t \in Task,
           AgentShutdown(t) \/ ShutdownReturns(t) \/ HeartbeatJoined(t) \/ Restart(t)
    PROVE  AInv'
  <1>1. /\ ServiceIdle
        /\ UNCHANGED barrierCounter
    BY DEF AgentShutdown, ShutdownReturns, HeartbeatJoined, Restart
  <1>2. CASE AgentShutdown(t) /\ agent[t] = "CONNECTED"
    <2>1. Moves(t, "Shutdown", SentRpc)
      BY <1>2, TypesKnown, Fresh DEF AgentShutdown, StartShutdown, Moves, Stages
    <2> QED BY <1>1, <2>1, SameCounter, MovesKeep
  <1>3. CASE AgentShutdown(t) /\ agent[t] # "CONNECTED"
    <2>1. Moves(t, "joining", NoRpc)
      BY <1>3, TypesKnown, Fresh DEF AgentShutdown, StartShutdown, Moves, Stages
    <2> QED BY <1>1, <2>1, SameCounter, MovesKeep
  <1>4. CASE ShutdownReturns(t)
    <2>1. Moves(t, "joining", NoRpc)
      BY <1>4, TypesKnown, Fresh
         DEF ShutdownReturns, SetError, StopHeartbeat, Moves, Stages, TaskStates
    <2> QED BY <1>1, <2>1, SameCounter, MovesKeep
  <1>5. ASSUME user[t] \in {"joining", "dead"}, UNCHANGED rpc
        PROVE  \E r \in FreshRpc : r.phase = "none" /\ rpc' = [rpc EXCEPT ![t] = r]
    <2>1. rpc[t].phase = "none" /\ CallInv(t)
      BY <1>5, NamesAssumption, Names, TypesKnown DEF AInv
    <2>2. PICK r : r = rpc[t] /\ r \in [phase : RpcPhases, st : RpcStatuses, cnt : Nat]
      BY TypesKnown
    <2>3. r \in FreshRpc /\ r.phase = "none"
      BY <2>1, <2>2 DEF CallInv, FreshRpc
    <2>4. rpc' = [rpc EXCEPT ![t] = r]
      BY <1>5, <2>2, TypesKnown
    <2> QED BY <2>3, <2>4
  <1>6. CASE HeartbeatJoined(t)
    <2>1. PICK r \in FreshRpc : r.phase = "none" /\ rpc' = [rpc EXCEPT ![t] = r]
      BY <1>5, <1>6 DEF HeartbeatJoined
    <2>2. Moves(t, "over", r)
      BY <1>6, <2>1, TypesKnown DEF HeartbeatJoined, Moves, Stages, TaskStates
    <2> QED BY <1>1, <2>2, SameCounter, MovesKeep
  <1>7. CASE Restart(t)
    <2>1. process' \in [Task -> 1 .. MaxIncarnation]
      BY <1>7, TypesKnown, InputAssumption DEF Restart
    <2>2. PICK r \in FreshRpc : r.phase = "none" /\ rpc' = [rpc EXCEPT ![t] = r]
      BY <1>5, <1>7 DEF Restart
    <2>3. Moves(t, "start", r)
      BY <1>7, <2>1, <2>2, TypesKnown DEF Restart, Moves, Stages
    <2> QED BY <1>1, <2>3, SameCounter, MovesKeep
  <1> QED BY <1>2, <1>3, <1>4, <1>6, <1>7

LEMMA CrashKeeps ==
    ASSUME AInv, NEW t \in Task, Crash(t)
    PROVE  AInv'
  <1>1. incidents' \in 0 .. MaxIncidents
    BY TypesKnown, JobAssumption DEF Crash, Incident
  <1>2. ServiceIdle /\ Moves(t, "dead", NoRpc)
    BY <1>1, TypesKnown, Fresh DEF Crash, Moves, Stages, TaskStates
  <1>3. /\ barrierCounter' \in [Task -> [Barrier -> Int]]
        /\ \A u \in Task \ {t} : barrierCounter'[u] = barrierCounter[u]
        /\ \A b \in Barrier : barrierCounter'[t][b] = -1
    BY TypesKnown DEF Crash
  <1> QED BY <1>2, <1>3, MovesKeep

\* A new call of WaitAtBarrier is recorded before anything else happens to it.
LEMMA WaitAtBarrierKeeps ==
    ASSUME AInv, NEW t \in Task, NEW b \in Barrier, WaitAtBarrier(t, b)
    PROVE  AInv'
  <1>1. ServiceIdle /\ IInv' /\ Calm
    BY IdleKeeps DEF WaitAtBarrier, AInv
  <1>2. PICK n \in Int :
          n = IF requested[t][b] > barrierCounter[t][b] THEN requested[t][b]
                                                        ELSE barrierCounter[t][b] + 1
    BY TypesKnown
  <1>3. n > barrierCounter[t][b] /\ n >= requested[t][b]
    BY <1>2, TypesKnown
  <1>4. requested' = [requested EXCEPT ![t][b] = n]
    BY <1>2, TypesKnown DEF WaitAtBarrier
  <1>5. /\ requested' \in [Task -> [Barrier -> Int]] /\ requested'[t][b] = n
        /\ \A u \in Task, x \in Barrier : requested'[u][x] >= requested[u][x]
    BY <1>3, <1>4, TypesKnown
  <1>6. /\ user' \in [Task -> Barrier \cup {"start", "Connect", "idle", "Shutdown",
                                            "joining", "over", "dead"}]
        /\ user'[t] = b /\ \A u \in Task \ {t} : user'[u] = user[u]
    BY TypesKnown DEF WaitAtBarrier
  <1>7. /\ rpc' \in [Task -> [phase : RpcPhases, st : RpcStatuses, cnt : Nat]]
        /\ rpc'[t] = SentRpc /\ \A u \in Task \ {t} : rpc'[u] = rpc[u]
    BY TypesKnown DEF WaitAtBarrier, SentRpc, RpcPhases, RpcStatuses
  <1>8. SentRpc.phase = "sent" /\ SentRpc.st = "none"
    BY DEF SentRpc
  <1>9. UNCHANGED <<agent, process, barrierCounter, shuttingDown, heartbeat, poll,
                    cancel, incidents>>
    BY DEF WaitAtBarrier
  <1>10. AgentTypes'
    <2>1. \A u \in Task : rpc'[u].phase # "none"
                            <=> user'[u] \in Barrier \cup {"Connect", "Shutdown"}
      BY <1>6, <1>7, <1>8, TypesKnown
    <2> QED BY <1>5, <1>6, <1>7, <1>9, <2>1, TypesKnown, TypesSplit
  <1>11. CallInv(t)'
    BY <1>3, <1>5, <1>6, <1>7, <1>8, <1>9 DEF CallInv
  <1>12. Local(t)
    BY <1>5, <1>6, <1>7, <1>8, <1>9, <1>11 DEF Local
  <1> QED BY <1>1, <1>10, <1>12, LocalKeeps

\* An RPC that fails for the client leaves the call of the user's thread
\* answered without an instance.
LEMMA RpcFailsKeeps ==
    ASSUME AInv, NEW t \in Task, RpcFails(t)
    PROVE  AInv'
  <1>1. /\ ServiceIdle /\ IInv' /\ Calm
        /\ UNCHANGED <<agent, process, user, barrierCounter, shuttingDown, cancel, requested>>
        /\ incidents' \in 0 .. MaxIncidents
    BY IdleKeeps, TypesKnown, JobAssumption DEF RpcFails, AInv, Incident
  <1>2. CASE UNCHANGED rpc
    <2>1. /\ heartbeat' \in [Task -> {"off", "rest", "failed"}]
          /\ poll' \in [Task -> {"off", "sent", "served", "error"}]
      BY TypesKnown DEF RpcFails
    <2>2. AgentTypes'
      BY <1>1, <1>2, <2>1, TypesKnown, TypesSplit
    <2> QED BY <1>1, <1>2, <2>2, SameCalls
  <1>3. CASE /\ rpc[t].phase \in {"sent", "served", "answered"}
             /\ rpc' = [rpc EXCEPT ![t] = [phase |-> "answered", st |-> "lost", cnt |-> 0]]
             /\ UNCHANGED <<heartbeat, poll>>
    <2>1. PICK r : r = [phase |-> "answered", st |-> "lost", cnt |-> 0]
      OBVIOUS
    <2>2. /\ rpc' = [rpc EXCEPT ![t] = r] /\ r.phase = "answered" /\ r.st = "lost"
          /\ r \in [phase : RpcPhases, st : RpcStatuses, cnt : Nat]
      BY <1>3, <2>1 DEF RpcPhases, RpcStatuses
    <2>3. /\ rpc' \in [Task -> [phase : RpcPhases, st : RpcStatuses, cnt : Nat]]
          /\ rpc'[t] = r /\ \A u \in Task \ {t} : rpc'[u] = rpc[u]
      BY <2>2, TypesKnown
    <2>4. AgentTypes'
      <3>1. \A u \in Task : rpc'[u].phase # "none"
                              <=> user'[u] \in Barrier \cup {"Connect", "Shutdown"}
        BY <1>1, <1>3, <2>2, <2>3, TypesKnown
      <3> QED BY <1>1, <1>3, <2>3, <3>1, TypesKnown, TypesSplit
    <2>5. CallInv(t)'
      <3>1. CallInv(t)
        BY DEF AInv
      <3> QED BY <1>1, <2>2, <2>3, <3>1 DEF CallInv
    <2>6. Local(t)
      BY <1>1, <2>2, <2>3, <2>5, TypesKnown DEF Local
    <2> QED BY <1>1, <2>4, <2>6, LocalKeeps
  <1> QED BY <1>2, <1>3 DEF RpcFails

-----------------------------------------------------------------------------
(* The invariant and what it implies *)

LEMMA InitAInv == AgentInit => AInv
  <1> SUFFICES ASSUME AgentInit PROVE AInv
    OBVIOUS
  <1>1. IInv
    BY InitIInv DEF AgentInit
  <1>2. AgentTypes
    BY JobAssumption, InputAssumption, NamesAssumption, Names
       DEF AgentInit, AgentTypes, AgentTypeOK, NoRpc, NoCancel, RpcPhases, RpcStatuses, TaskStates
  <1>3. \A t \in Task : CallInv(t)
    BY NamesAssumption, Names DEF AgentInit, CallInv, NoRpc
  <1>4. /\ counter = [b \in BarrierId |-> 0] /\ members = [b \in BarrierId |-> {}]
        /\ calls = [b \in BarrierId |-> {}] /\ result = [b \in BarrierId |-> "none"]
        /\ ongoing = {}
    BY DEF AgentInit, Init
  <1>5. \A b \in Barrier : JobBarrier(b)
    BY <1>4, Names DEF JobBarrier
  <1>6. NeverAhead
    BY <1>4, Names DEF AgentInit, NeverAhead
  <1>7. ReleaseMeansAllCalled
    BY NamesAssumption, Names DEF AgentInit, ReleaseMeansAllCalled
  <1> QED BY <1>1, <1>2, <1>3, <1>5, <1>6, <1>7 DEF AInv

LEMMA NextAInv == AInv /\ [AgentNext]_allVars => AInv'
  <1> SUFFICES ASSUME AInv, [AgentNext]_allVars PROVE AInv'
    OBVIOUS
  <1>1. CASE ServiceRuns \/ TimePasses
    BY <1>1, ServiceRunsKeeps, TimePassesKeeps
  <1>2. ASSUME NEW t \in Task, Handle(t) PROVE AInv'
    BY <1>2, HandleRpcKeeps, HandleHeartbeatKeeps, HandlePollKeeps, HandleCancelKeeps,
       OtherThreadsKeep DEF Handle, RejectHeartbeat, RefuseCancel
  <1>3. ASSUME NEW t \in Task, UserCalls(t) PROVE AInv'
    BY <1>3, ConnectKeeps, ShutdownKeeps, OtherThreadsKeep, WaitAtBarrierKeeps
       DEF UserCalls, CancelOngoing
  <1>4. ASSUME NEW t \in Task, UserReturns(t) PROVE AInv'
    BY <1>4, ConnectKeeps, BarrierReturnsKeeps, ShutdownKeeps DEF UserReturns
  <1>5. ASSUME NEW t \in Task, HeartbeatStops(t) \/ HeartbeatFails(t) \/ PollReturns(t)
        PROVE  AInv'
    BY <1>5, OtherThreadsKeep DEF HeartbeatStops, HeartbeatFails, PollReturns
  <1>6. ASSUME NEW t \in Task, RpcFails(t) \/ Crash(t) \/ Restart(t) PROVE AInv'
    BY <1>6, RpcFailsKeeps, CrashKeeps, ShutdownKeeps
  <1>7. CASE UNCHANGED allVars
    <2>1. UNCHANGED vars /\ UNCHANGED agentVars
      BY <1>7 DEF allVars
    <2>2. IInv'
      BY <2>1, NextIInv DEF AInv
    <2>3. Calm
      BY <2>1 DEF vars, barrierVars, Calm
    <2>4. AgentTypes'
      BY <2>1 DEF agentVars, AInv, AgentTypes, AgentTypeOK
    <2> QED BY <2>1, <2>2, <2>3, <2>4, SameCalls DEF agentVars
  <1> QED BY <1>1, <1>2, <1>3, <1>4, <1>5, <1>6, <1>7 DEF AgentNext

LEMMA AgentInvariance == AgentSpec => []AInv
  <1> QED BY InitAInv, NextAInv, PTL DEF AgentSpec

\* Every reachable state of agents and service has the types of the code's
\* variables; in particular a thread waits for an RPC exactly while it is in a
\* blocking call.
THEOREM AgentTypeCorrect == AgentSpec => []AgentTypeOK
  <1>1. AInv => AgentTypeOK
    BY DEF AInv, AgentTypes
  <1> QED BY <1>1, AgentInvariance, PTL

\* barrier_counter_: whatever RPCs are lost, repeated or cancelled and whichever
\* processes restart, no agent counts an instance of a barrier as completed that
\* the service has not finished, so that its next call is never for an instance
\* beyond the next one.
THEOREM AgentNeverAhead == AgentSpec => []NeverAhead
  <1>1. AInv => NeverAhead
    BY DEF AInv
  <1> QED BY <1>1, AgentInvariance, PTL

\* WaitAtBarrier and BarrierAsyncLocked together: a call that returns OK has
\* synchronized with every task, for any number of tasks, through crashes,
\* restarts, lost answers, timeouts and cancellations.
THEOREM BarrierSynchronizes == AgentSpec => []ReleaseMeansAllCalled
  <1>1. AInv => ReleaseMeansAllCalled
    BY DEF AInv
  <1> QED BY <1>1, AgentInvariance, PTL

\* What the service guarantees by itself it also guarantees to its agents: in
\* the composition the barriers' books agree, no barrier waits for a failed
\* task, and a waiting registration is the latest one of its task.
THEOREM ServiceInComposition ==
    AgentSpec => [](Bookkeeping /\ NoBarrierWaitsForFailedTask /\ WaitingRegistrationIsCurrent)
  <1>1. AInv => Bookkeeping /\ NoBarrierWaitsForFailedTask /\ WaitingRegistrationIsCurrent
    BY DEF AInv, IInv
  <1> QED BY <1>1, AgentInvariance, PTL
-----------------------------------------------------------------------------
(* What the service promises in a step, it promises to its agents.         *)

\* In a step of the composition the service handles a request, its thread or
\* clock acts, or it does nothing.
LEMMA AgentStep ==
    ASSUME AInv, AgentNext
    PROVE  ServiceIdle \/ ServiceStep
  <1>1. IInv /\ \A t \in Task : process[t] \in 1 .. MaxIncarnation
    BY DEF AInv, AgentTypes, AgentTypeOK
  <1>2. ASSUME NEW t \in Task, HandleRpc(t) PROVE ServiceStep
    <2>1. CASE RegisterTaskAsync(t, process[t])
      BY <1>1, <2>1, RegisterHandled DEF ServiceStep
    <2>2. CASE ShutdownTaskAsync(t)
      BY <1>1, <2>2, ShutdownHandled DEF ServiceStep
    <2>3. CASE user[t] \in Barrier /\ BarrierAsync(user[t], barrierCounter[t][user[t]] + 1, t, {})
      <3>1. PICK b, c : b \in Barrier /\ b = user[t] /\ c = barrierCounter[t][b] + 1
        BY <2>3
      <3>2. c \in Nat /\ b \in BarrierId
        BY <3>1, Names DEF AInv, AgentTypes, AgentTypeOK
      <3>3. ~stopped /\ UNCHANGED <<stopped, incarnation, polling>>
            /\ BarrierAsyncLocked(b, c, t, {}, 0)
        BY <2>3, <3>1 DEF BarrierAsync
      <3>4. Calling(b, c, t, {}, 0)
        BY <1>1, <3>1, <3>2, <3>3, BarrierAssumption DEF Calling, IInv, TypeOK
      <3> QED BY <1>1, <3>3, <3>4, BarrierStep DEF ServiceStep
    <2> QED BY <1>2, <2>1, <2>2, <2>3 DEF HandleRpc
  <1>3. ASSUME NEW t \in Task, HandleHeartbeat(t) PROVE ServiceStep
    <2>1. RecordHeartbeat(t, process[t])
      BY <1>3 DEF HandleHeartbeat
    <2>2. CASE incarnation[t] = process[t]
      BY <1>1, <2>1, <2>2 DEF ServiceStep, Otherwise
    <2>3. CASE incarnation[t] # process[t]
      BY <1>1, <2>1, <2>3, Names, ErrorHandled DEF RecordHeartbeat, ServiceStep
    <2> QED BY <2>2, <2>3
  <1>4. ASSUME NEW t \in Task, HandlePoll(t) PROVE ServiceStep
    BY <1>4 DEF HandlePoll, ServiceStep, Otherwise
  <1>5. ASSUME NEW t \in Task, HandleCancel(t) PROVE ServiceStep
    <2>1. cancel[t].id \in Barrier
      BY <1>5 DEF HandleCancel, AInv, AgentTypes, AgentTypeOK
    <2> QED BY <1>1, <1>5, <2>1, CancelHandled DEF HandleCancel, ServiceStep
  <1>6. CASE ServiceRuns
    BY <1>1, <1>6, StalenessHandled DEF ServiceRuns, ServiceStep
  <1>7. CASE TimePasses
    BY <1>7 DEF TimePasses, ServiceStep, Otherwise
  <1>8. ASSUME NEW t \in Task, Handle(t) PROVE ServiceIdle \/ ServiceStep
    BY <1>2, <1>3, <1>4, <1>5, <1>8 DEF Handle, RejectHeartbeat, RefuseCancel
  <1>9. ASSUME NEW t \in Task, UserCalls(t) \/ UserReturns(t) PROVE ServiceIdle
    BY <1>9 DEF UserCalls, UserReturns, Connect, AgentShutdown, CancelOngoing, WaitAtBarrier,
                ConnectReturns, RetryConnect, ConnectFails, BarrierReturns, ShutdownReturns,
                HeartbeatJoined
  <1>10. ASSUME NEW t \in Task,
                \/ HeartbeatStops(t) \/ HeartbeatFails(t) \/ PollReturns(t)
                \/ RpcFails(t) \/ Crash(t) \/ Restart(t)
         PROVE  ServiceIdle
    BY <1>10 DEF HeartbeatStops, HeartbeatFails, PollReturns, RpcFails, Crash, Restart
  <1> QED BY <1>6, <1>7, <1>8, <1>9, <1>10 DEF AgentNext

\* done_callbacks of the service's barriers and polls, with the agents as
\* callers: whatever RPCs fail and whoever crashes, the service answers every
\* barrier call and error poll that it stops holding or that a newer incarnation
\* of its task replaces.
THEOREM AgentCallsAnswered == AgentSpec => NoCallIsDropped
  <1>1. AInv /\ [AgentNext]_allVars =>
          [/\ \A b \in BarrierId, t \in Task :
                t \in calls[b] /\ (t \notin calls'[b] \/ callInc'[b][t] # callInc[b][t])
                  => \E r \in replies' : r.to = t /\ r.of = b
           /\ \A t \in polls : t \notin polls' => \E r \in replies' : r.to = t /\ r.of = "poll"]_vars
    <2>1. ServiceIdle => UNCHANGED <<calls, callInc, polls>>
      BY DEF ServiceIdle, barrierVars, pollVars
    <2>2. UNCHANGED allVars => UNCHANGED vars
      BY DEF allVars
    <2> QED BY <2>1, <2>2, AgentStep, StepAnswers DEF AInv, StepDropsNone
  <1> QED BY <1>1, AgentInvariance, PTL DEF AgentSpec, NoCallIsDropped

\* PassBarrier with the agents as callers: a barrier that passes with OK tells
\* all participants in the same step; an OK to a repeated RPC is the result of
\* the instance that is over.
THEOREM AgentBarrierReleasesAll == AgentSpec => ReleasedTogether
  <1>1. AInv /\ [AgentNext]_allVars =>
          [\A r \in replies' : r.of \in BarrierId /\ r.st = "ok" =>
             \/ \A m \in members'[r.of] : Reply(m, r.of, "ok") \in replies'
             \/ passed[r.of] /\ result[r.of] = "ok" /\ counter'[r.of] = counter[r.of]]_vars
    <2>1. ServiceIdle => replies' = {}
      BY DEF ServiceIdle, Silent
    <2>2. UNCHANGED allVars => UNCHANGED vars
      BY DEF allVars
    <2> QED BY <2>1, <2>2, AgentStep, StepReleases DEF AInv
  <1> QED BY <1>1, AgentInvariance, PTL DEF AgentSpec, ReleasedTogether

\* PropagateError and SetAllTasksError with the agents as callers: the step in
\* which the service puts a task in error answers every error poll it holds, or
\* puts all tasks in error if no agent has ever polled.
THEOREM AgentErrorsReachAll == AgentSpec => ErrorReachesAll
  <1>1. AInv /\ [AgentNext]_allVars =>
          [~Recoverable /\ (\E t \in Task : state[t] # "ERROR" /\ state'[t] = "ERROR")
             => polls' = {} /\ (~polling => \A t \in Task : state'[t] = "ERROR")]_vars
    <2>1. ServiceIdle => UNCHANGED state
      BY DEF ServiceIdle, taskVars
    <2>2. UNCHANGED allVars => UNCHANGED vars
      BY DEF allVars
    <2> QED BY <2>1, <2>2, AgentStep, StepReaches DEF AInv
  <1> QED BY <1>1, AgentInvariance, PTL DEF AgentSpec, ErrorReachesAll
-----------------------------------------------------------------------------
(* The agents keep to the protocol that the service relies on.  The handlers *)
(* of Shutdown and PollForError do not check that the task has ever been     *)
(* registered: HasConnected is a guard of these actions, and the agents see  *)
(* to it.                                                                    *)

\* A task that waits at the register barrier has an incarnation, and all tasks
\* have one when the barrier has passed with OK; only then is a task connected.
Connected ==
    /\ \A t \in Task : /\ state[t] = "CONNECTED" => HasConnected(t)
                       /\ t \in calls[Register] => incarnation[t] # 0
    /\ result[Register] = "ok" => \A t \in Task : incarnation[t] # 0

\* The agent of t has been told that its registration succeeded.
Confirmed(t) ==
    \/ agent[t] = "CONNECTED" \/ user[t] = "Shutdown" \/ poll[t] # "off"
    \/ user[t] = "Connect" /\ rpc[t].st = "ok"

KInv == AInv /\ Connected /\ \A t \in Task : Confirmed(t) => HasConnected(t)

\* An agent that asks for a shutdown or polls for errors has been registered,
\* and the register barrier has passed with OK.
AgentsKeepProtocol ==
    \A t \in Task : (user[t] = "Shutdown" /\ rpc[t].phase = "sent") \/ poll[t] = "sent"
                      => HasConnected(t)

\* The register barrier that has passed with OK is not passed again.
LEMMA ResultStays ==
    ASSUME IInv, NEW d, Handled(d), Settle(d), result[Register] = "ok"
    PROVE  result'[Register] = "ok"
  <1> DEFINE err == Errors(d)
             fin == Passed(d, err)
             left == [x \in BarrierId |-> Left(x, d, err)]
  <1>1. SettleBarriers(d, fin, left) /\ Register \in BarrierId
    BY Names DEF Settle, Consequences
  <1>2. Register \in fin => Register \in ongoing \/ Register \in d.pass
    BY DEF Passed, BarriersOf
  <1>3. passed[Register] /\ Register \notin ongoing
    BY <1>1 DEF IInv, Registering, Bookkeeping
  <1>4. Register \notin d.pass /\ Register \notin d.start
    BY <1>3 DEF Handled, Careful
  <1> HIDE DEF err, fin, left
  <1> QED BY <1>1, <1>2, <1>3, <1>4 DEF SettleBarriers

\* What a handler's record says of registrations: who is stored at the register
\* barrier or connected was there before or is one of T, and tasks are connected
\* when the barrier passes with OK or has done so.
Stores(d, T) == \A u \in d.wait[Register] : u \in calls[Register] \/ u \in T
Connects(d, T) ==
    /\ \A u \in d.conn : u \in calls[Register] \/ u \in T
    /\ d.conn # {} => result[Register] = "ok" \/ (Register \in d.pass /\ d.res = "ok")

\* A step of the service that takes no incarnation away and connects only tasks
\* with one.
KeepsIncarnations == \A t \in Task : incarnation[t] # 0 => incarnation'[t] # 0
Progresses ==
    /\ KeepsIncarnations
    /\ \E T : /\ \A u \in T : incarnation'[u] # 0
              /\ \E e : Handled(e) /\ Settle(e) /\ Stores(e, T)
              /\ \E d : Settle(d) /\ Connects(d, T)

LEMMA HasConnectedStays ==
    ASSUME IInv, Progresses, NEW t \in Task, HasConnected(t)
    PROVE  HasConnected(t)'
  BY ResultStays, JobAssumption DEF HasConnected, Progresses, KeepsIncarnations

\* The register barrier after Settle: who waits in it has been stored, and when
\* it passes with OK it is because all tasks have been.
LEMMA SettleRegister ==
    ASSUME IInv, NEW d, Handled(d), Settle(d)
    PROVE  /\ calls'[Register] \subseteq d.wait[Register]
           /\ result'[Register] = "ok" /\ result[Register] # "ok" => Task \subseteq d.wait[Register]
  <1> DEFINE err == Errors(d)
             fin == Passed(d, err)
             left == [x \in BarrierId |-> Left(x, d, err)]
  <1>1. SettleBarriers(d, fin, left) /\ Register \in BarrierId
    BY Names DEF Settle, Consequences
  <1> HIDE DEF err, fin, left
  <1>2. calls'[Register] \subseteq d.wait[Register]
    BY <1>1 DEF SettleBarriers
  <1>3. ASSUME result'[Register] = "ok", result[Register] # "ok"
        PROVE  Register \in d.pass /\ d.res = "ok"
    BY <1>1, <1>3 DEF SettleBarriers, Outcome
  <1>4. Register \in d.pass /\ d.res = "ok" => d.wait[Register] = Task
    BY DEF Handled, Careful
  <1> QED BY <1>2, <1>3, <1>4

LEMMA ProgressConnects ==
    ASSUME IInv, Connected, Progresses
    PROVE  Connected'
  <1>1. PICK T : /\ \A u \in T : incarnation'[u] # 0
                 /\ \E e : Handled(e) /\ Settle(e) /\ Stores(e, T)
                 /\ \E d : Settle(d) /\ Connects(d, T)
    BY DEF Progresses
  <1>2. PICK e : Handled(e) /\ Settle(e) /\ Stores(e, T)
    BY <1>1
  <1>3. PICK d : Settle(d) /\ Connects(d, T)
    BY <1>1
  <1> DEFINE err == Errors(d)
             fin == Passed(d, err)
             left == [x \in BarrierId |-> Left(x, d, err)]
  <1>4. /\ SettleBarriers(d, fin, left) /\ SettleTasks(d, err)
        /\ d.pass \subseteq fin /\ Register \in BarrierId
    BY <1>3, Names DEF Settle, Consequences, Passed
  <1> HIDE DEF err, fin, left
  <1>5. ASSUME NEW u \in Task, u \in calls[Register] \/ u \in T PROVE incarnation'[u] # 0
    BY <1>1, <1>5 DEF Connected, Progresses, KeepsIncarnations
  <1>6. ASSUME NEW u \in Task, u \in e.wait[Register] PROVE incarnation'[u] # 0
    BY <1>2, <1>5, <1>6 DEF Stores
  <1>7. ASSUME NEW u \in Task, state'[u] = "CONNECTED" PROVE HasConnected(u)'
    <2>1. state[u] = "CONNECTED" \/ u \in d.conn
      BY <1>4, <1>7 DEF SettleTasks
    <2>2. CASE state[u] = "CONNECTED"
      BY <2>2, HasConnectedStays DEF Connected
    <2>3. CASE u \in d.conn
      <3>1. incarnation'[u] # 0
        BY <1>3, <1>5, <2>3 DEF Connects
      <3>2. ASSUME Register \in d.pass, d.res = "ok" PROVE result'[Register] = "ok"
        BY <1>4, <3>2 DEF SettleBarriers, Outcome
      <3>3. ASSUME result[Register] = "ok" PROVE result'[Register] = "ok"
        BY <1>2, <3>3, ResultStays
      <3> QED BY <1>3, <2>3, <3>1, <3>2, <3>3 DEF HasConnected, Connects
    <2> QED BY <2>1, <2>2, <2>3
  <1>8. ASSUME result'[Register] = "ok", NEW u \in Task PROVE incarnation'[u] # 0
    <2>1. CASE result[Register] = "ok"
      BY <2>1 DEF Connected, Progresses, KeepsIncarnations
    <2>2. CASE result[Register] # "ok"
      BY <1>2, <1>6, <1>8, <2>2, SettleRegister
    <2> QED BY <2>1, <2>2
  <1>9. \A u \in Task : u \in calls'[Register] => incarnation'[u] # 0
    BY <1>2, <1>6, SettleRegister
  <1> QED BY <1>7, <1>8, <1>9 DEF Connected

\* Only a call of the register barrier connects a task.
LEMMA BarrierConnects ==
    ASSUME TypeOK, NEW b \in BarrierId, NEW c, NEW t \in Task, NEW args, NEW upd,
           BarrierAsyncLocked(b, c, t, args, upd)
    PROVE  \E d : Settle(d) /\ Connects(d, {t} \cap {u \in Task : b = Register})
  <1> DEFINE T == {t} \cap {u \in Task : b = Register}
  <1>1. calls \in [BarrierId -> SUBSET Task] /\ Register \in BarrierId
    BY Names DEF TypeOK
  <1>2. \A u \in Wait(b, c, t)[Register] : u \in calls[Register] \/ u \in T
    BY <1>1 DEF Wait
  <1>4. CASE BarrierCannotStart(b, c, t, args, upd)
    <2> DEFINE d == [Quiet EXCEPT !.start = {b}, !.pass = {b}, !.updates = upd,
                            !.wait = [calls EXCEPT ![b] = {}],
                            !.at = [reached EXCEPT ![b] = {}],
                            !.answers = {Reply(t, b, "failed")}]
    <2>1. Settle(d)
      BY <1>4 DEF BarrierCannotStart
    <2>2. d.conn = {}
      BY DEF Quiet
    <2> HIDE DEF d
    <2> QED BY <2>1, <2>2 DEF Connects
  <1>5. CASE BarrierCallFails(b, c, t, args, upd)
    <2> DEFINE d == [Quiet EXCEPT !.start = Start(b, c), !.pass = {b}, !.updates = upd,
                            !.wait = Wait(b, c, t), !.inc = Inc(b, t),
                            !.at = [reached EXCEPT ![b] = At(b, c)],
                            !.answers = Cancelled(b, c, t)]
    <2>1. Settle(d)
      BY <1>5 DEF BarrierCallFails
    <2>2. d.conn = {}
      BY DEF Quiet
    <2> HIDE DEF d
    <2> QED BY <2>1, <2>2 DEF Connects
  <1>6. CASE RepeatBarrierResult(b, c, t, args, upd)
    <2> DEFINE disc == {t} \cap {u \in Task : b = Shutdown /\ state[u] # "DISCONNECTED"}
               conn == {t} \cap {u \in Task : b = Register /\ result[b] = "ok"}
               d == [Quiet EXCEPT !.conn = conn, !.disc = disc,
                       !.updates = upd + Cardinality(conn) + Cardinality(disc),
                       !.answers = Cancelled(b, c, t) \cup
                          {Answer(b, t, IF b = Shutdown /\ disc = {} THEN "failed" ELSE result[b],
                                  incarnation'[t], incarnation'[t])}]
    <2>1. Settle(d)
      BY <1>6 DEF RepeatBarrierResult
    <2>2. d.conn = conn
      BY DEF Quiet
    <2>3. conn # {} => b = Register /\ result[b] = "ok"
      OBVIOUS
    <2>4. \A u \in conn : u \in T
      OBVIOUS
    <2> HIDE DEF d, conn, T
    <2>5. Connects(d, T)
      BY <2>2, <2>3, <2>4 DEF Connects
    <2> QED BY <2>1, <2>5 DEF T
  <1>7. CASE ReachBarrier(b, c, t, args, upd)
    <2> DEFINE last == LastToReach(b, c, t, args)
               conn == {u \in Wait(b, c, t)[b] :
                          last /\ b = Register /\ Inc(b, t)[b][u] = incarnation'[u]}
               disc == {u \in Task : /\ last /\ b = Shutdown
                                     /\ ~Recoverable /\ state[u] # "DISCONNECTED"}
               d == [Quiet EXCEPT !.start = Start(b, c),
                       !.wait = Wait(b, c, t), !.inc = Inc(b, t),
                       !.at = [reached EXCEPT ![b] = At(b, c) \cup {t}],
                       !.pass = IF last THEN {b} ELSE {},
                       !.res = "ok",
                       !.conn = conn, !.disc = disc,
                       !.updates = upd + Cardinality(conn) + Cardinality(disc),
                       !.answers = Cancelled(b, c, t)]
    <2>1. Settle(d)
      BY <1>7 DEF ReachBarrier
    <2>2. /\ d.conn = conn /\ d.res = "ok"
          /\ d.pass = IF last THEN {b} ELSE {}
      BY DEF Quiet
    <2>3. \A u \in conn : u \in Wait(b, c, t)[Register] /\ last /\ b = Register
      OBVIOUS
    <2> HIDE DEF d, conn, T, last
    <2>4. Connects(d, T)
      BY <1>2, <2>2, <2>3 DEF Connects
    <2> QED BY <2>1, <2>4 DEF T
  <1> QED BY <1>4, <1>5, <1>6, <1>7 DEF BarrierAsyncLocked

\* What a call stores at the register barrier.
LEMMA CallStores ==
    ASSUME NEW d, NEW b \in BarrierId, NEW c, NEW t \in Task, NEW args,
           Simple(d) \/ CallEffect(b, c, t, args, d)
    PROVE  Stores(d, {t} \cap {u \in Task : b = Register})
  BY Names DEF Stores, Simple, CallEffect

\* A handler that neither connects a task nor stores a call.
LEMMA FailureProgresses ==
    ASSUME NEW e, Handled(e), Settle(e), Simple(e), UNCHANGED incarnation,
           NEW d, Settle(d), d.conn = {}
    PROVE  Progresses
  <1>1. Connects(d, {}) /\ Stores(e, {})
    BY DEF Connects, Stores, Simple
  <1> QED BY <1>1 DEF Progresses, KeepsIncarnations

\* A call of a client's barrier or of the shutdown barrier.
LEMMA BarrierProgresses ==
    ASSUME IInv, NEW b \in BarrierId \ {Register}, NEW c, NEW t \in Task, NEW args, NEW upd,
           BarrierAsyncLocked(b, c, t, args, upd), UNCHANGED incarnation,
           NEW e, Handled(e), Settle(e), Simple(e) \/ CallEffect(b, c, t, args, e)
    PROVE  Progresses
  <1>1. PICK d : Settle(d) /\ Connects(d, {t} \cap {u \in Task : b = Register})
    BY BarrierConnects DEF IInv
  <1>2. Stores(e, {t} \cap {u \in Task : b = Register})
    BY CallStores
  <1>3. {t} \cap {u \in Task : b = Register} = {}
    OBVIOUS
  <1> QED BY <1>1, <1>2, <1>3 DEF Progresses, KeepsIncarnations

\* RegisterTaskAsync; an OK is told only to a task that it has given an
\* incarnation.
LEMMA RegisterProgresses ==
    ASSUME IInv, Connected, NEW t \in Task, NEW i \in 1 .. MaxIncarnation, RegisterTaskAsync(t, i)
    PROVE  /\ Progresses
           /\ \A r \in replies' : r.of = Register /\ r.st = "ok" => incarnation'[t] # 0
  <1>1. PICK e : /\ Handled(e) /\ Settle(e)
                 /\ Simple(e) \/ CallEffect(Register, 0, t, {}, e)
    BY RegisterHandled
  <1>2. ASSUME incarnation' = [incarnation EXCEPT ![t] = i]
        PROVE  KeepsIncarnations /\ incarnation'[t] # 0 /\ Stores(e, {t})
    <2>1. Stores(e, {t} \cap {u \in Task : Register = Register})
      BY <1>1, CallStores, Names
    <2>2. Stores(e, {t})
      BY <2>1 DEF Stores
    <2> QED BY <1>2, <2>2, InputAssumption DEF KeepsIncarnations, IInv, TypeOK
  <1>3. CASE RegisterAtBarrier(t, i)
    <2>1. PICK d : Settle(d) /\ Connects(d, {t} \cap {u \in Task : Register = Register})
      BY <1>3, BarrierConnects, Names DEF RegisterAtBarrier, IInv
    <2>2. Connects(d, {t})
      BY <2>1 DEF Connects
    <2> QED BY <1>1, <1>2, <1>3, <2>1, <2>2 DEF RegisterAtBarrier, Progresses
  <1>4. CASE RegisterDirectly(t, i)
    <2> DEFINE d == [Quiet EXCEPT !.conn = {t}, !.leave = {t}, !.updates = 2]
    <2>1. /\ incarnation' = [incarnation EXCEPT ![t] = i] /\ Settle(d)
          /\ state[t] = "CONNECTED"
      BY <1>4, JobAssumption DEF RegisterDirectly, ConnectTask
    <2>2. d.conn = {t}
      BY DEF Quiet
    <2> HIDE DEF d
    <2>3. Connects(d, {t})
      BY <2>1, <2>2, JobAssumption DEF Connects, Connected, HasConnected
    <2> QED BY <1>1, <1>2, <2>1, <2>3 DEF Progresses
  <1>5. CASE RegisterRejected(t, i)
    <2> DEFINE d == [Quiet EXCEPT !.errs = {t}, !.propagate = TRUE]
    <2>1. UNCHANGED incarnation /\ Settle(d)
      BY <1>5 DEF RegisterRejected
    <2>2. d.conn = {} /\ d.res = "failed" /\ d.answers = {}
      BY DEF Quiet
    <2>3. Progresses
      <3>1. ~stopped /\ UNCHANGED <<stopped, polling, incarnation, counter, members>>
        BY <1>5 DEF RegisterRejected, RegisterTaskAsync
      <3>2. PICK f : Handled(f) /\ Settle(f) /\ Simple(f)
        BY <2>1, <3>1, ErrorHandled, Zenon
      <3> HIDE DEF d
      <3> QED BY <2>1, <2>2, <3>2, FailureProgresses
    <2> HIDE DEF d
    <2>4. ASSUME NEW r \in replies', r.of = Register, r.st = "ok" PROVE FALSE
      <3> DEFINE fin == Passed(d, Errors(d))
                 left == [x \in BarrierId |-> Left(x, d, Errors(d))]
      <3>1. SettleReplies(d, fin, left)
        BY <2>1 DEF Settle, Consequences
      <3>2. \A b : Outcome(b, d) = "failed"
        BY <2>2 DEF Outcome
      <3> HIDE DEF fin, left
      <3>3. r \notin CancelledCalls(d, left) /\ r \notin PollAnswers(d, fin)
        BY <2>4, AnswerFields DEF CancelledCalls, Called, PollAnswers, Reply
      <3>4. ASSUME NEW b \in fin PROVE r \notin Called(d, b, d.wait[b] \ left[b], Outcome(b, d))
        BY <2>4, <3>2, AnswerFields DEF Called
      <3> QED BY <2>2, <2>4, <3>1, <3>3, <3>4 DEF SettleReplies, RepliesSent
    <2> QED BY <2>3, <2>4
  <1> QED BY <1>3, <1>4, <1>5 DEF RegisterTaskAsync

\* Connect is answered with OK only when the task has been registered.
LEMMA OkConfirms ==
    ASSUME IInv, Connected, Progresses, NEW t \in Task, user[t] = "Connect", AnswerTo(t) = "ok",
           \A r \in replies' : r.of = Register /\ r.st = "ok" => incarnation'[t] # 0
    PROVE  HasConnected(t)'
  <1>1. BarrierOf(t) = Register /\ Register \in BarrierId
    BY CallsAt, Names
  <1>2. CASE Answers(t) = {}
    BY <1>2, ProgressConnects DEF AnswerTo, Connected
  <1>3. CASE Answers(t) # {}
    <2>1. PICK d : Handled(d) /\ Settle(d)
      BY DEF Progresses
    <2>2. PICK r \in replies' : r.to = t /\ r.of = Register /\ r.st = "ok"
      BY <1>1, <1>3, <2>1, Answered
    <2>3. result[Register] = "ok" \/ (Register \in d.pass /\ d.res = "ok")
      BY <1>1, <2>1, <2>2, SettleReleases
    <2>4. ASSUME Register \in d.pass, d.res = "ok" PROVE result'[Register] = "ok"
      <3> DEFINE fin == Passed(d, Errors(d))
                 left == [x \in BarrierId |-> Left(x, d, Errors(d))]
      <3>1. SettleBarriers(d, fin, left) /\ Register \in fin
        BY <2>1, <2>4 DEF Settle, Consequences, Passed
      <3> HIDE DEF fin, left
      <3> QED BY <1>1, <2>4, <3>1 DEF SettleBarriers, Outcome
    <2>5. result'[Register] = "ok"
      BY <2>1, <2>3, <2>4, ResultStays
    <2> QED BY <2>2, <2>5 DEF HasConnected
  <1> QED BY <1>2, <1>3

\* A poll that is not off has been sent before.
LEMMA PollSent ==
    ASSUME NEW of, PollAfter(of), \A t \in of : poll[t] = "sent", NEW t \in Task, poll[t] = "off"
    PROVE  poll'[t] = "off"
  BY DEF PollAfter

\* The agents after a step of the service that handles the requests of `of`.
LEMMA ProgressConfirms ==
    ASSUME KInv, AInv', Progresses, NEW of, RpcAfter(of), PollAfter({}), UNCHANGED <<agent, user>>,
           \A t \in of : rpc[t].phase = "sent" /\
             (user[t] = "Connect" => \A r \in replies' : r.of = Register /\ r.st = "ok"
                                                           => incarnation'[t] # 0)
    PROVE  KInv'
  <1>1. IInv /\ AInv /\ Connected
    BY DEF KInv, AInv
  <1>2. ASSUME NEW t \in Task, Confirmed(t)' PROVE HasConnected(t)'
    <2>1. CASE Confirmed(t)
      BY <1>1, <2>1, HasConnectedStays DEF KInv
    <2>2. CASE ~Confirmed(t)
      <3>1. /\ user[t] = "Connect" /\ rpc'[t].st = "ok" /\ rpc[t].st # "ok"
            /\ BarrierOf(t) = Register
        BY <1>2, <2>2, PollSent, CallsAt DEF Confirmed
      <3>2. t \in of \/ rpc[t].phase = "served"
        BY <3>1 DEF RpcAfter
      <3>3. rpc'[t].phase = "answered"
        BY <3>1 DEF AInv, CallInv
      <3>4. AnswerTo(t) = "ok"
        <4>1. rpc[t] \in [phase : RpcPhases, st : RpcStatuses, cnt : Nat]
          BY <1>1 DEF AInv, AgentTypes
        <4>2. t \notin calls'[Register]
          BY <3>1, <3>2, <3>3, <4>1 DEF RpcAfter
        <4> QED BY <3>1, <3>2, <4>2 DEF RpcAfter
      <3>5. rpc[t].phase = "served" => incarnation[t] # 0
        BY <1>1, <3>1 DEF AInv, CallInv, Connected
      <3>6. \A r \in replies' : r.of = Register /\ r.st = "ok" => incarnation'[t] # 0
        BY <3>1, <3>2, <3>5 DEF Progresses, KeepsIncarnations
      <3> QED BY <1>1, <3>1, <3>4, <3>6, OkConfirms
    <2> QED BY <2>1, <2>2
  <1> QED BY <1>1, <1>2, ProgressConnects DEF KInv

LEMMA HandleConfirms ==
    ASSUME KInv, AInv', NEW t \in Task, HandleRpc(t)
    PROVE  KInv'
  <1>1. /\ IInv /\ AInv /\ Connected /\ rpc[t].phase = "sent"
        /\ RpcAfter({t}) /\ PollAfter({}) /\ UNCHANGED <<agent, user>>
    BY DEF KInv, AInv, HandleRpc
  <1>2. CASE user[t] = "Connect" /\ RegisterTaskAsync(t, process[t])
    <2>1. process[t] \in 1 .. MaxIncarnation
      BY <1>1 DEF AInv, AgentTypes, AgentTypeOK
    <2>2. /\ Progresses
          /\ \A r \in replies' : r.of = Register /\ r.st = "ok" => incarnation'[t] # 0
      BY <1>1, <1>2, <2>1, RegisterProgresses
    <2> QED BY <1>1, <2>2, ProgressConfirms
  <1>3. CASE user[t] = "Shutdown" /\ ShutdownTaskAsync(t)
    <2>1. UNCHANGED incarnation /\ BarrierAsyncLocked(Shutdown, 0, t, Task, 0)
      BY <1>3, JobAssumption DEF ShutdownTaskAsync
    <2>2. PICK e : /\ Handled(e) /\ Settle(e)
                   /\ Simple(e) \/ CallEffect(Shutdown, 0, t, Task, e)
      BY <1>1, <1>3, ShutdownHandled
    <2>3. Progresses
      BY <1>1, <2>1, <2>2, BarrierProgresses, BarrierAssumption, Names
    <2> QED BY <1>1, <1>3, <2>3, ProgressConfirms
  <1>4. CASE user[t] \in Barrier /\ BarrierAsync(user[t], barrierCounter[t][user[t]] + 1, t, {})
    <2>1. PICK b, c : b \in Barrier /\ b = user[t] /\ c = barrierCounter[t][b] + 1
      BY <1>4
    <2>2. c \in Nat /\ b \in BarrierId \ {Register} /\ user[t] # "Connect"
      BY <1>1, <2>1, Names, BarrierAssumption, NamesAssumption DEF AInv, AgentTypes, AgentTypeOK
    <2>3. ~stopped /\ UNCHANGED <<stopped, incarnation, polling>>
          /\ BarrierAsyncLocked(b, c, t, {}, 0)
      BY <1>4, <2>1 DEF BarrierAsync
    <2>4. Calling(b, c, t, {}, 0)
      BY <1>1, <2>1, <2>2, <2>3, BarrierAssumption DEF Calling, IInv, TypeOK
    <2>5. PICK e : Handled(e) /\ Settle(e) /\ CallEffect(b, c, t, {}, e)
      BY <1>1, <2>3, <2>4, BarrierStep
    <2>6. Progresses
      BY <1>1, <2>2, <2>3, <2>5, BarrierProgresses
    <2> QED BY <1>1, <2>2, <2>6, ProgressConfirms
  <1> QED BY <1>2, <1>3, <1>4 DEF HandleRpc

\* A task that fails, a cancelled barrier and the staleness thread.
LEMMA FailuresConfirm ==
    ASSUME KInv, AInv', RpcAfter({}), PollAfter({}), UNCHANGED <<agent, user>>,
           \/ ServiceRuns
           \/ \E t \in Task : HandleCancel(t)
           \/ \E t \in Task : HandleHeartbeat(t) /\ incarnation[t] # process[t]
    PROVE  KInv'
  <1>1. IInv /\ AInv
    BY DEF KInv, AInv
  <1>2. CASE ServiceRuns
    <2> DEFINE f(late) == [Quiet EXCEPT !.errs = StaleTasks, !.kind = "unavailable",
                                  !.propagate = (StaleTasks # {}),
                                  !.pass = ExpiredBarriers, !.late = late]
    <2>0. PICK late : UNCHANGED incarnation /\ Settle(f(late))
      BY <1>2, Zenon DEF ServiceRuns, CheckStaleness
    <2> DEFINE d == f(late)
    <2>1. UNCHANGED incarnation /\ Settle(d)
      BY <2>0
    <2>2. d.conn = {}
      BY DEF Quiet
    <2> HIDE DEF d
    <2>3. PICK e : Handled(e) /\ Settle(e) /\ Simple(e)
      BY <1>1, <1>2, StalenessHandled DEF ServiceRuns
    <2> QED BY <2>1, <2>2, <2>3, FailureProgresses, ProgressConfirms
  <1>3. ASSUME NEW t \in Task, HandleCancel(t) PROVE KInv'
    <2>1. PICK b : b = cancel[t].id /\ b \in Barrier
      BY <1>1, <1>3 DEF HandleCancel, AInv, AgentTypes, AgentTypeOK
    <2>2. CancelBarrier(b, CancelCounter(t))
      BY <1>3, <2>1 DEF HandleCancel
    <2> DEFINE d == [Quiet EXCEPT !.pass = {b}, !.res = "cancelled"]
    <2>3. UNCHANGED incarnation /\ Settle(d)
      BY <2>2 DEF CancelBarrier
    <2>4. d.conn = {}
      BY DEF Quiet
    <2> HIDE DEF d
    <2>5. PICK e : Handled(e) /\ Settle(e) /\ Simple(e)
      BY <1>1, <2>1, <2>2, CancelHandled
    <2> QED BY <2>3, <2>4, <2>5, FailureProgresses, ProgressConfirms
  <1>4. ASSUME NEW t \in Task, HandleHeartbeat(t), incarnation[t] # process[t] PROVE KInv'
    <2> DEFINE d == [Quiet EXCEPT !.errs = {t}, !.propagate = TRUE]
    <2>1. RecordHeartbeat(t, process[t])
      BY <1>4 DEF HandleHeartbeat
    <2>2. ~stopped /\ UNCHANGED <<stopped, polling, incarnation, counter, members>>
      BY <2>1 DEF RecordHeartbeat
    <2>3. Settle(d)
      BY <1>4, <2>1, Names, Zenon DEF RecordHeartbeat
    <2>4. PICK e : Handled(e) /\ Settle(e) /\ Simple(e)
      BY <1>1, <2>2, <2>3, ErrorHandled, Zenon
    <2>5. d.conn = {}
      BY DEF Quiet
    <2> HIDE DEF d
    <2> QED BY <2>2, <2>3, <2>4, <2>5, FailureProgresses, ProgressConfirms
  <1> QED BY <1>2, <1>3, <1>4

\* Steps in which the service leaves tasks and barriers as they are.
LEMMA CalmConfirms ==
    ASSUME KInv, AInv', UNCHANGED <<state, incarnation, result, calls>>,
           \A t \in Task : Confirmed(t)' => Confirmed(t)
    PROVE  KInv'
  BY DEF KInv, Connected, HasConnected

LEMMA CalmHandlersConfirm ==
    ASSUME KInv, AInv', NEW of, RpcAfter({}), PollAfter(of), \A t \in of : poll[t] = "sent",
           UNCHANGED <<agent, user, state, incarnation, result, calls>>
    PROVE  KInv'
  <1>1. ASSUME NEW t \in Task, Confirmed(t)' PROVE Confirmed(t)
    <2>1. CallInv(t) /\ rpc[t] \in [phase : RpcPhases, st : RpcStatuses, cnt : Nat]
      BY DEF KInv, AInv, AgentTypes
    <2>2. rpc'[t].st = rpc[t].st
      BY <2>1 DEF RpcAfter, CallInv
    <2> QED BY <1>1, <2>2, PollSent DEF Confirmed
  <1> QED BY <1>1, CalmConfirms

\* What an agent does by itself: no step makes it count as registered before
\* Connect has been answered with OK.
LEMMA UserConfirms ==
    ASSUME KInv, NEW t \in Task, UserCalls(t) \/ UserReturns(t), NEW u \in Task, Confirmed(u)'
    PROVE  Confirmed(u)
  <1>1. /\ agent \in [Task -> TaskStates] /\ user = [x \in Task |-> user[x]]
        /\ poll = [x \in Task |-> poll[x]] /\ rpc = [x \in Task |-> rpc[x]]
    BY DEF KInv, AInv, AgentTypes, AgentTypeOK
  <1>2. \A b \in Barrier : b # "Shutdown" /\ b # "Connect"
    BY NamesAssumption, Names
  <1>3. SentRpc.st = "none" /\ NoRpc.st = "none"
    BY DEF SentRpc, NoRpc
  <1>4. CASE Connect(t)
    BY <1>1, <1>3, <1>4 DEF Connect, Confirmed
  <1>5. CASE AgentShutdown(t)
    BY <1>1, <1>3, <1>5 DEF AgentShutdown, StartShutdown, Confirmed
  <1>6. CASE CancelOngoing(t)
    BY <1>6 DEF CancelOngoing, Confirmed
  <1>7. ASSUME NEW b \in Barrier, WaitAtBarrier(t, b) PROVE Confirmed(u)
    BY <1>1, <1>2, <1>7 DEF WaitAtBarrier, Confirmed
  <1>8. CASE ConnectReturns(t)
    BY <1>1, <1>8 DEF ConnectReturns, ConnectOk, Confirmed
  <1>9. CASE RetryConnect(t)
    BY <1>1, <1>3, <1>9 DEF RetryConnect, Confirmed
  <1>10. CASE ConnectFails(t)
    BY <1>1, <1>10 DEF ConnectFails, SetError, Confirmed
  <1>11. CASE BarrierReturns(t)
    BY <1>1, <1>11 DEF BarrierReturns, Confirmed
  <1>12. CASE ShutdownReturns(t)
    BY <1>1, <1>12 DEF ShutdownReturns, SetError, Confirmed
  <1>13. CASE HeartbeatJoined(t)
    BY <1>1, <1>13 DEF HeartbeatJoined, Confirmed
  <1> QED BY <1>4, <1>5, <1>6, <1>7, <1>8, <1>9, <1>10, <1>11, <1>12, <1>13
          DEF UserCalls, UserReturns

LEMMA OthersConfirm ==
    ASSUME KInv, NEW t \in Task, NEW u \in Task, Confirmed(u)',
           \/ HeartbeatStops(t) \/ HeartbeatFails(t) \/ PollReturns(t)
           \/ RpcFails(t) \/ Crash(t) \/ Restart(t)
    PROVE  Confirmed(u)
  <1>1. /\ agent \in [Task -> TaskStates] /\ user = [x \in Task |-> user[x]]
        /\ poll = [x \in Task |-> poll[x]] /\ rpc = [x \in Task |-> rpc[x]]
    BY DEF KInv, AInv, AgentTypes, AgentTypeOK
  <1>2. CASE HeartbeatStops(t)
    BY <1>2 DEF HeartbeatStops, Confirmed
  <1>3. CASE HeartbeatFails(t)
    BY <1>1, <1>3 DEF HeartbeatFails, SetError, Confirmed
  <1>4. CASE PollReturns(t)
    BY <1>1, <1>4 DEF PollReturns, PollError, SetError, Confirmed
  <1>5. CASE RpcFails(t)
    BY <1>1, <1>5 DEF RpcFails, Confirmed
  <1>6. CASE Crash(t)
    BY <1>1, <1>6 DEF Crash, Confirmed
  <1>7. CASE Restart(t)
    BY <1>1, <1>7 DEF Restart, Confirmed
  <1> QED BY <1>2, <1>3, <1>4, <1>5, <1>6, <1>7

LEMMA InitKInv == AgentInit => KInv
  <1> SUFFICES ASSUME AgentInit PROVE KInv
    OBVIOUS
  <1>1. AInv
    BY InitAInv
  <1>2. Connected
    BY Names DEF AgentInit, Init, Connected
  <1>3. \A t \in Task : ~Confirmed(t)
    BY DEF AgentInit, Confirmed
  <1> QED BY <1>1, <1>2, <1>3 DEF KInv

LEMMA NextKInv == KInv /\ [AgentNext]_allVars => KInv'
  <1> SUFFICES ASSUME KInv, [AgentNext]_allVars PROVE KInv'
    OBVIOUS
  <1>1. AInv'
    BY NextAInv DEF KInv
  <1>2. ServiceIdle => UNCHANGED <<state, incarnation, result, calls>>
    BY DEF ServiceIdle, taskVars, barrierVars
  <1>3. CASE UNCHANGED allVars
    <2>1. UNCHANGED <<state, incarnation, result, calls, agent, user, poll, rpc>>
      BY <1>3 DEF allVars, vars, agentVars, taskVars, barrierVars
    <2> QED BY <1>1, <2>1, CalmConfirms DEF Confirmed
  <1>4. CASE ServiceRuns
    BY <1>1, <1>4, FailuresConfirm DEF ServiceRuns
  <1>5. CASE TimePasses
    <2>1. UNCHANGED <<state, incarnation, result, calls, agent, user, poll, rpc>>
      BY <1>5 DEF TimePasses, Clock, HeartbeatLapses, GraceEnds, DeadlinePasses, agentVars, taskVars
    <2> QED BY <1>1, <2>1, CalmConfirms DEF Confirmed
  <1>6. ASSUME NEW t \in Task, HandleHeartbeat(t) PROVE KInv'
    <2>1. RpcAfter({}) /\ PollAfter({}) /\ UNCHANGED <<agent, user>> /\ RecordHeartbeat(t, process[t])
      BY <1>6 DEF HandleHeartbeat
    <2>2. CASE incarnation[t] # process[t]
      BY <1>1, <1>6, <2>1, <2>2, FailuresConfirm
    <2>3. CASE incarnation[t] = process[t]
      <3>1. UNCHANGED <<state, incarnation, result, calls>>
        BY <2>1, <2>3 DEF RecordHeartbeat
      <3> QED BY <1>1, <2>1, <3>1, CalmHandlersConfirm
    <2> QED BY <2>2, <2>3
  <1>7. ASSUME NEW t \in Task, HandlePoll(t) PROVE KInv'
    <2>1. /\ RpcAfter({}) /\ PollAfter({t}) /\ UNCHANGED <<agent, user>> /\ poll[t] = "sent"
          /\ UNCHANGED <<state, incarnation, result, calls>>
      BY <1>7 DEF HandlePoll, PollForErrorAsync, taskVars, barrierVars
    <2> QED BY <1>1, <2>1, CalmHandlersConfirm
  <1>8. ASSUME NEW t \in Task, Handle(t) PROVE KInv'
    <2>1. CASE HandleRpc(t)
      BY <1>1, <2>1, HandleConfirms
    <2>2. CASE HandleCancel(t)
      BY <1>1, <2>2, FailuresConfirm DEF HandleCancel
    <2>3. CASE RejectHeartbeat(t)
      BY <1>1, <1>2, <2>3, CalmConfirms DEF RejectHeartbeat, Confirmed
    <2>4. CASE RefuseCancel(t)
      BY <1>1, <1>2, <2>4, CalmConfirms DEF RefuseCancel, Confirmed
    <2> QED BY <1>6, <1>7, <1>8, <2>1, <2>2, <2>3, <2>4 DEF Handle
  <1>9. ASSUME NEW t \in Task, UserCalls(t) \/ UserReturns(t) PROVE KInv'
    <2>1. ServiceIdle
      BY <1>9 DEF UserCalls, UserReturns, Connect, AgentShutdown, CancelOngoing, WaitAtBarrier,
                  ConnectReturns, RetryConnect, ConnectFails, BarrierReturns, ShutdownReturns,
                  HeartbeatJoined
    <2> QED BY <1>1, <1>2, <1>9, <2>1, UserConfirms, CalmConfirms
  <1>10. ASSUME NEW t \in Task,
                \/ HeartbeatStops(t) \/ HeartbeatFails(t) \/ PollReturns(t)
                \/ RpcFails(t) \/ Crash(t) \/ Restart(t)
         PROVE  KInv'
    <2>1. ServiceIdle
      BY <1>10 DEF HeartbeatStops, HeartbeatFails, PollReturns, RpcFails, Crash, Restart
    <2> QED BY <1>1, <1>2, <1>10, <2>1, OthersConfirm, CalmConfirms
  <1> QED BY <1>3, <1>4, <1>5, <1>8, <1>9, <1>10 DEF AgentNext

\* CoordinationServiceAgent::Connect, Shutdown and PollForError with the
\* service's handlers: whatever RPCs are lost or repeated and whichever processes
\* restart, a shutdown request or an error poll comes only from a task that has
\* been registered, after the register barrier has passed with OK.  This is what
\* the handlers of the two requests assume of their callers.
THEOREM ProtocolIsKept == AgentSpec => []AgentsKeepProtocol
  <1>1. KInv => AgentsKeepProtocol
    BY DEF KInv, AgentsKeepProtocol, Confirmed
  <1> QED BY <1>1, InitKInv, NextKInv, PTL DEF AgentSpec

\* Connect and ConnectAfterBarrierPasses: as long as some task has not registered,
\* no agent and no task is CONNECTED, whatever registrations are lost, repeated or
\* made by a restarted process.
THEOREM NobodyConnectsAlone ==
    AgentSpec => [](\A t, u \in Task : agent[t] = "CONNECTED" \/ state[t] = "CONNECTED"
                                         => incarnation[u] # 0)
  <1>1. KInv => \A t, u \in Task : agent[t] = "CONNECTED" \/ state[t] = "CONNECTED"
                                     => incarnation[u] # 0
    BY JobAssumption DEF KInv, Connected, Confirmed, HasConnected
  <1> QED BY <1>1, InitKInv, NextKInv, PTL DEF AgentSpec
=============================================================================
