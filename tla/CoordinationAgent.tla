------------------------- MODULE CoordinationAgent -------------------------
(***************************************************************************)
(* The agents of the tasks                                                 *)
(* (xla/pjrt/distributed/coordination/coordination_service_agent.cc) and   *)
(* their RPCs, composed with the service.  A request is sent, handled by   *)
(* the service in one of the steps of CoordinationService, perhaps kept    *)
(* waiting there (served), and answered; the agent then goes on.  At any   *)
(* point the RPC may fail for the client, whether the service has handled  *)
(* the request or not.  A process may crash and be started again with a    *)
(* new incarnation.                                                        *)
(*                                                                         *)
(* Each agent has three threads of control: the user's thread, which makes *)
(* one blocking call at a time, the heartbeat thread, and the callback of  *)
(* the error poll; a second user thread may cancel the barrier that the    *)
(* first one waits at.                                                     *)
(***************************************************************************)
EXTENDS CoordinationService

CONSTANTS
    PollAtStartup,      \* Config::poll_for_error_from_service_at_startup
    MaxIncidents        \* bound on crashes, failed RPCs, repeated
                        \* registrations and cancellations

\* The job as GetDistributedRuntimeService configures it by default.
ASSUME JobAssumption ==
    /\ RegisterWithBarrier /\ ShutdownWithBarrier /\ ~Recoverable
    /\ PollAtStartup \in BOOLEAN /\ MaxIncidents \in Nat /\ MaxIncarnation >= 1

\* The stages of a user's thread and the error poll are not barrier ids.
ASSUME NamesAssumption ==
    /\ BarrierId \cap {"start", "Connect", "idle", "Shutdown", "joining", "over", "dead"} = {}
    /\ "poll" \notin BarrierId

VARIABLES
    agent,          \* state_
    process,        \* incarnation_id_
    user,           \* the call that the user's thread is in, or a stage of its life
    rpc,            \* the RPC that this call waits for
    barrierCounter, \* barrier_counter_, -1 where it has no entry
    shuttingDown,   \* shutting_down_
    heartbeat,      \* the heartbeat thread
    poll,           \* the PollForError RPC
    cancel,         \* a CancelBarrier RPC: the id and, for the properties, the
                    \* instance that its caller means
    requested,      \* history: the latest instance that a task has called
    incidents       \* how many of the bounded events have happened

agentVars == <<agent, process, user, rpc, barrierCounter, shuttingDown, heartbeat,
               poll, cancel, requested, incidents>>
allVars == <<vars, agentVars>>

NoRpc == [phase |-> "none", st |-> "none", cnt |-> 0]
SentRpc == [phase |-> "sent", st |-> "none", cnt |-> 0]
NoCancel == [id |-> "none", cnt |-> 0]

AgentTypeOK ==
    /\ agent \in [Task -> TaskStates]
    /\ process \in [Task -> 1 .. MaxIncarnation]
    /\ user \in [Task -> Barrier \cup {"start", "Connect", "idle", "Shutdown",
                                       "joining", "over", "dead"}]
    /\ \A t \in Task :
         /\ rpc[t].phase \in {"none", "sent", "served", "answered"}
         /\ rpc[t].st \in {"none", "ok", "cancelled", "failed", "exists", "lost"}
         /\ rpc[t].cnt \in Nat
         /\ rpc[t].phase # "none" <=> user[t] \in Barrier \cup {"Connect", "Shutdown"}
    /\ barrierCounter \in [Task -> [Barrier -> Int]]
    /\ shuttingDown \in [Task -> BOOLEAN]
    /\ heartbeat \in [Task -> {"off", "rest", "failed"}]
    /\ poll \in [Task -> {"off", "sent", "served", "error"}]
    /\ \A t \in Task : cancel[t].id \in Barrier \cup {"none"} /\ cancel[t].cnt \in Nat
    /\ requested \in [Task -> [Barrier -> Int]]
    /\ incidents \in 0 .. MaxIncidents

AgentInit ==
    /\ Init
    /\ agent = [t \in Task |-> "DISCONNECTED"]
    /\ process = [t \in Task |-> 1]
    /\ user = [t \in Task |-> "start"]
    /\ rpc = [t \in Task |-> NoRpc]
    /\ barrierCounter = [t \in Task |-> [b \in Barrier |-> -1]]
    /\ shuttingDown = [t \in Task |-> FALSE]
    /\ heartbeat = [t \in Task |-> "off"]
    /\ poll = [t \in Task |-> "off"]
    /\ cancel = [t \in Task |-> NoCancel]
    /\ requested = [t \in Task |-> [b \in Barrier |-> -1]]
    /\ incidents = 0

\* The service does nothing in this step.
ServiceIdle ==
    /\ Silent
    /\ UNCHANGED <<stopped, taskVars, barrierVars, pollVars, aliveCalls, watchVars>>

-----------------------------------------------------------------------------
(* What a step of the service means for the RPCs that wait for it *)

BarrierOf(t) == CASE user[t] = "Connect" -> Register
                  [] user[t] = "Shutdown" -> Shutdown
                  [] OTHER -> user[t]

\* The answer to the RPC of t.  An older call of the same task that the new one
\* displaces is answered too, but nobody listens to it any more.  A
\* registration that is not waiting at the register barrier is answered with
\* its outcome.
Answers(t) == {r.st : r \in {q \in replies' : q.to = t /\ q.of = BarrierOf(t)}}
AnswerTo(t) ==
    IF Answers(t) = {} THEN IF state'[t] = "CONNECTED" THEN "ok" ELSE "failed"
    ELSE CHOOSE st \in Answers(t) :
           Answers(t) \ {st} \subseteq {"cancelled", "exists"} \ {st}

\* `of` are the tasks whose request the step handles.
RpcAfter(of) ==
    rpc' = [t \in Task |->
        IF t \notin of /\ rpc[t].phase # "served" THEN rpc[t]
        ELSE IF t \in calls'[BarrierOf(t)] THEN [rpc[t] EXCEPT !.phase = "served"]
        ELSE [phase |-> "answered", st |-> AnswerTo(t), cnt |-> counter'[BarrierOf(t)]]]
PollAfter(of) ==
    poll' = [t \in Task |->
        IF t \notin of /\ poll[t] # "served" THEN poll[t]
        ELSE IF Reply(t, "poll", "failed") \in replies' THEN "error"
        ELSE IF t \in polls' THEN "served"
        ELSE "off"]       \* Cancelled: the callback ignores it

HandleRpc(t) ==
    /\ rpc[t].phase = "sent"
    /\ \/ user[t] = "Connect" /\ RegisterTaskAsync(t, process[t])
       \/ user[t] \in Barrier /\ BarrierAsync(user[t], barrierCounter[t][user[t]] + 1, t, {})
       \/ user[t] = "Shutdown" /\ ShutdownTaskAsync(t)
    /\ RpcAfter({t}) /\ PollAfter({})
    /\ UNCHANGED <<agent, process, user, barrierCounter, shuttingDown, heartbeat,
                   cancel, requested, incidents>>

\* A heartbeat, sent and handled.  RecordHeartbeat returns an error for another
\* incarnation, for a task in error, or for one that has been disconnected for
\* longer than the grace period.
HandleHeartbeat(t) ==
    /\ heartbeat[t] = "rest" /\ ~shuttingDown[t]
    /\ RecordHeartbeat(t, process[t])
    /\ heartbeat' = [heartbeat EXCEPT ![t] = IF incarnation[t] = process[t] THEN "rest"
                                                                            ELSE "failed"]
    /\ RpcAfter({}) /\ PollAfter({})
    /\ UNCHANGED <<agent, process, user, barrierCounter, shuttingDown, cancel,
                   requested, incidents>>
RejectHeartbeat(t) ==
    /\ heartbeat[t] = "rest" /\ ~shuttingDown[t]
    /\ status[t] # "ok" \/ BeyondGrace(t)
    /\ heartbeat' = [heartbeat EXCEPT ![t] = "failed"]
    /\ ServiceIdle
    /\ UNCHANGED <<agent, process, user, rpc, barrierCounter, shuttingDown, poll,
                   cancel, requested, incidents>>

HandlePoll(t) ==
    /\ poll[t] = "sent"
    /\ PollForErrorAsync(t)
    /\ RpcAfter({}) /\ PollAfter({t})
    /\ UNCHANGED <<agent, process, user, barrierCounter, shuttingDown, heartbeat,
                   cancel, requested, incidents>>

\* CancelBarrierAsync does not set the counter of the request: it is 0.
CancelCounter(t) == 0
HandleCancel(t) ==
    /\ cancel[t] # NoCancel
    /\ CancelBarrier(cancel[t].id, CancelCounter(t))
    /\ cancel' = [cancel EXCEPT ![t] = NoCancel]
    /\ RpcAfter({}) /\ PollAfter({})
    /\ UNCHANGED <<agent, process, user, barrierCounter, shuttingDown, heartbeat,
                   requested, incidents>>
RefuseCancel(t) ==
    /\ cancel[t] # NoCancel
    /\ counter[cancel[t].id] # CancelCounter(t) \/ passed[cancel[t].id]
    /\ cancel' = [cancel EXCEPT ![t] = NoCancel]
    /\ ServiceIdle
    /\ UNCHANGED <<agent, process, user, rpc, barrierCounter, shuttingDown,
                   heartbeat, poll, requested, incidents>>

\* The service's own thread and clock
ServiceRuns ==
    /\ CheckStaleness
    /\ RpcAfter({}) /\ PollAfter({})
    /\ UNCHANGED <<agent, process, user, barrierCounter, shuttingDown, heartbeat,
                   cancel, requested, incidents>>
TimePasses == Clock /\ UNCHANGED agentVars

-----------------------------------------------------------------------------
(* The user's thread *)

Incident == incidents < MaxIncidents /\ incidents' = incidents + 1

\* SetError: the first error sticks; error_fn_ is called.
SetErrorMutant(t) == agent' = [agent EXCEPT ![t] = IF @ = "ERROR" THEN "ERROR" ELSE @]
SetError(t) == agent' = [agent EXCEPT ![t] = "ERROR"]

Connect(t) ==
    /\ user[t] = "start"
    /\ user' = [user EXCEPT ![t] = "Connect"]
    /\ rpc' = [rpc EXCEPT ![t] = SentRpc]
    /\ ServiceIdle
    /\ UNCHANGED <<agent, process, barrierCounter, shuttingDown, heartbeat, poll,
                   cancel, requested, incidents>>

ConnectOkMutant(t) == rpc[t].st # "failed"
ConnectOk(t) == rpc[t].st = "ok"
ConnectReturns(t) ==
    /\ user[t] = "Connect" /\ rpc[t].phase = "answered" /\ ConnectOk(t)
    /\ agent' = [agent EXCEPT ![t] = "CONNECTED"]
    /\ heartbeat' = [heartbeat EXCEPT ![t] = "rest"]
    /\ poll' = [poll EXCEPT ![t] = IF PollAtStartup THEN "sent" ELSE @]
    /\ user' = [user EXCEPT ![t] = "idle"]
    /\ rpc' = [rpc EXCEPT ![t] = NoRpc]
    /\ ServiceIdle
    /\ UNCHANGED <<process, barrierCounter, shuttingDown, cancel, requested, incidents>>

\* An RPC error, or one of the service's errors that are retried (Aborted,
\* Internal).
RetryConnect(t) ==
    /\ user[t] = "Connect" /\ rpc[t].phase = "answered" 
    /\ \/ rpc[t].st = "lost" /\ UNCHANGED incidents
       \/ rpc[t].st = "failed" /\ Incident
    /\ rpc' = [rpc EXCEPT ![t] = SentRpc]
    /\ ServiceIdle
    /\ UNCHANGED <<agent, process, user, barrierCounter, shuttingDown, heartbeat,
                   poll, cancel, requested>>

\* The deadline has passed, or the error is one that is not retried.
ConnectFails(t) ==
    /\ user[t] = "Connect" /\ rpc[t].phase = "answered" /\ rpc[t].st # "ok"
    /\ SetError(t)
    /\ user' = [user EXCEPT ![t] = "idle"]
    /\ rpc' = [rpc EXCEPT ![t] = NoRpc]
    /\ ServiceIdle
    /\ UNCHANGED <<process, barrierCounter, shuttingDown, heartbeat, poll, cancel,
                   requested, incidents>>

\* WaitAtBarrier, for all tasks.  An agent in ERROR refuses.
WaitAtBarrier(t, b) ==
    /\ user[t] = "idle" /\ agent[t] # "ERROR"
    /\ barrierCounter[t][b] < MaxCounter
    /\ user' = [user EXCEPT ![t] = b]
    /\ rpc' = [rpc EXCEPT ![t] = SentRpc]
    /\ requested' = [requested EXCEPT ![t][b] =
                       IF @ > barrierCounter[t][b] THEN @ ELSE barrierCounter[t][b] + 1]
    /\ ServiceIdle
    /\ UNCHANGED <<agent, process, barrierCounter, shuttingDown, heartbeat, poll,
                   cancel, incidents>>

\* An answer of the service, error or not, carries the instance it is about;
\* an RPC error does not.
CounterAfterMutant(t) == barrierCounter[t][user[t]] + 1
CounterAfter(t) == IF rpc[t].st = "lost" THEN barrierCounter[t][user[t]] ELSE rpc[t].cnt
BarrierReturns(t) ==
    /\ user[t] \in Barrier /\ rpc[t].phase = "answered"
    /\ barrierCounter' = [barrierCounter EXCEPT ![t][user[t]] = CounterAfter(t)]
    /\ user' = [user EXCEPT ![t] = "idle"]
    /\ rpc' = [rpc EXCEPT ![t] = NoRpc]
    /\ ServiceIdle
    /\ UNCHANGED <<agent, process, shuttingDown, heartbeat, poll, cancel,
                   requested, incidents>>

\* Only a barrier in ongoing_barriers_ can be cancelled.
CancelOngoing(t) ==
    /\ "Cancel" \in Rpcs
    /\ user[t] \in Barrier /\ agent[t] # "ERROR" /\ cancel[t] = NoCancel
    /\ Incident
    /\ cancel' = [cancel EXCEPT ![t] =
                    [id |-> user[t], cnt |-> barrierCounter[t][user[t]] + 1]]
    /\ ServiceIdle
    /\ UNCHANGED <<agent, process, user, rpc, barrierCounter, shuttingDown,
                   heartbeat, poll, requested>>

\* Shutdown: the RPC if the agent is connected, StopHeartbeat, which joins the
\* thread, StopErrorPolling, DISCONNECTED.
StartShutdownMutant(t) == user' = [user EXCEPT ![t] = "Shutdown"] /\ UNCHANGED shuttingDown
StartShutdown(t) ==
    /\ user' = [user EXCEPT ![t] = IF agent[t] = "CONNECTED" THEN "Shutdown" ELSE "joining"]
    /\ shuttingDown' = [shuttingDown EXCEPT ![t] = agent[t] # "CONNECTED"]
AgentShutdown(t) ==
    /\ user[t] = "idle"
    /\ StartShutdown(t)
    /\ rpc' = [rpc EXCEPT ![t] = IF agent[t] = "CONNECTED" THEN SentRpc ELSE NoRpc]
    /\ ServiceIdle
    /\ UNCHANGED <<agent, process, barrierCounter, heartbeat, poll, cancel,
                   requested, incidents>>
StopHeartbeatMutant(t) == UNCHANGED shuttingDown
StopHeartbeat(t) == shuttingDown' = [shuttingDown EXCEPT ![t] = TRUE]
ShutdownReturns(t) ==
    /\ user[t] = "Shutdown" /\ rpc[t].phase = "answered"
    /\ IF rpc[t].st = "ok" THEN UNCHANGED agent ELSE SetError(t)
    /\ StopHeartbeat(t)
    /\ user' = [user EXCEPT ![t] = "joining"]
    /\ rpc' = [rpc EXCEPT ![t] = NoRpc]
    /\ ServiceIdle
    /\ UNCHANGED <<process, barrierCounter, heartbeat, poll, cancel, requested, incidents>>
HeartbeatJoined(t) ==
    /\ user[t] = "joining" /\ heartbeat[t] = "off"
    /\ agent' = [agent EXCEPT ![t] = "DISCONNECTED"]
    /\ poll' = [poll EXCEPT ![t] = IF @ = "error" THEN @ ELSE "off"]
    /\ user' = [user EXCEPT ![t] = "over"]
    /\ ServiceIdle
    /\ UNCHANGED <<process, rpc, barrierCounter, shuttingDown, heartbeat, cancel,
                   requested, incidents>>

-----------------------------------------------------------------------------
(* The heartbeat thread and the error poll *)

HeartbeatStops(t) ==
    /\ heartbeat[t] = "rest" /\ shuttingDown[t]
    /\ heartbeat' = [heartbeat EXCEPT ![t] = "off"]
    /\ ServiceIdle
    /\ UNCHANGED <<agent, process, user, rpc, barrierCounter, shuttingDown, poll,
                   cancel, requested, incidents>>

\* A second after a failed heartbeat: ignored if the agent is shutting down.
HeartbeatFails(t) ==
    /\ heartbeat[t] = "failed"
    /\ IF shuttingDown[t] THEN UNCHANGED agent ELSE SetError(t)
    /\ heartbeat' = [heartbeat EXCEPT ![t] = IF shuttingDown[t] THEN "off" ELSE "rest"]
    /\ ServiceIdle
    /\ UNCHANGED <<process, user, rpc, barrierCounter, shuttingDown, poll, cancel,
                   requested, incidents>>

PollErrorMutant(t) == UNCHANGED agent
PollError(t) == SetError(t)
PollReturns(t) ==
    /\ poll[t] = "error"
    /\ PollError(t)
    /\ poll' = [poll EXCEPT ![t] = "off"]
    /\ ServiceIdle
    /\ UNCHANGED <<process, user, rpc, barrierCounter, shuttingDown, heartbeat,
                   cancel, requested, incidents>>

-----------------------------------------------------------------------------
(* Failures *)

\* An RPC fails for the client before or after the service has handled it.
RpcFails(t) ==
    /\ Incident
    /\ \/ /\ rpc[t].phase \in {"sent", "served", "answered"} /\ rpc[t].st # "lost"
          /\ rpc' = [rpc EXCEPT ![t] = [phase |-> "answered", st |-> "lost", cnt |-> 0]]
          /\ UNCHANGED <<heartbeat, poll>>
       \/ /\ heartbeat[t] = "rest" /\ ~shuttingDown[t]
          /\ heartbeat' = [heartbeat EXCEPT ![t] = "failed"]
          /\ UNCHANGED <<rpc, poll>>
       \/ /\ poll[t] \in {"sent", "served"}
          /\ poll' = [poll EXCEPT ![t] = "error"]
          /\ UNCHANGED <<rpc, heartbeat>>
    /\ ServiceIdle
    /\ UNCHANGED <<agent, process, user, barrierCounter, shuttingDown, cancel, requested>>

\* The process is gone and everything in it; what the service holds stays.
Crash(t) ==
    /\ user[t] \notin {"over", "dead"}
    /\ Incident
    /\ user' = [user EXCEPT ![t] = "dead"]
    /\ agent' = [agent EXCEPT ![t] = "DISCONNECTED"]
    /\ rpc' = [rpc EXCEPT ![t] = NoRpc]
    /\ barrierCounter' = [barrierCounter EXCEPT ![t] = [b \in Barrier |-> -1]]
    /\ shuttingDown' = [shuttingDown EXCEPT ![t] = FALSE]
    /\ heartbeat' = [heartbeat EXCEPT ![t] = "off"]
    /\ poll' = [poll EXCEPT ![t] = "off"]
    /\ cancel' = [cancel EXCEPT ![t] = NoCancel]
    /\ ServiceIdle
    /\ UNCHANGED <<process, requested>>
Restart(t) ==
    /\ user[t] = "dead" /\ process[t] < MaxIncarnation
    /\ process' = [process EXCEPT ![t] = @ + 1]
    /\ user' = [user EXCEPT ![t] = "start"]
    /\ ServiceIdle
    /\ UNCHANGED <<agent, rpc, barrierCounter, shuttingDown, heartbeat, poll, cancel,
                   requested, incidents>>

Handle(t) ==
    \/ HandleRpc(t) \/ HandleHeartbeat(t) \/ RejectHeartbeat(t) \/ HandlePoll(t)
    \/ HandleCancel(t) \/ RefuseCancel(t)
UserReturns(t) ==
    \/ ConnectReturns(t) \/ RetryConnect(t) \/ ConnectFails(t) \/ BarrierReturns(t)
    \/ ShutdownReturns(t) \/ HeartbeatJoined(t)
UserCalls(t) ==
    \/ Connect(t) \/ AgentShutdown(t) \/ CancelOngoing(t)
    \/ \E b \in Barrier : WaitAtBarrier(t, b)

AgentNext ==
    \/ ServiceRuns \/ TimePasses
    \/ \E t \in Task :
         \/ Handle(t) \/ UserCalls(t) \/ UserReturns(t)
         \/ HeartbeatStops(t) \/ HeartbeatFails(t) \/ PollReturns(t)
         \/ RpcFails(t) \/ Crash(t) \/ Restart(t)

AgentSpec == AgentInit /\ [][AgentNext]_allVars

\* Threads run, the service handles what it gets and its staleness thread runs
\* every second, RPCs that were answered return, and time passes: deadlines and
\* grace periods end, and a task without a heartbeat thread falls silent.  Each
\* conjunct is the weak fairness of one action, written with the action's guard:
\* taking the action makes the guard false.  That the service's actions are
\* possible whenever their guards hold is RequestsCanBeHandled.
AgentFairness ==
    /\ []<>(StaleTasks = {} /\ ExpiredBarriers = {})                \* ServiceRuns
    /\ \A b \in BarrierId : []<>(b \notin ongoing \ overdue)         \* DeadlinePasses
    /\ \A t \in Task :
         /\ []<>(t \notin grace)                                     \* GraceEnds
         /\ []<>~(heartbeat[t] = "off" /\ state[t] = "CONNECTED"
                    /\ t \notin stale)                               \* HeartbeatLapses
         /\ []<>(rpc[t].phase # "sent")                              \* HandleRpc
         /\ []<>(rpc[t].phase # "answered")                          \* UserReturns
         /\ []<>~(user[t] = "joining" /\ heartbeat[t] = "off")       \* HeartbeatJoined
         /\ []<>~(heartbeat[t] = "rest" /\ ~shuttingDown[t]
                    /\ (status[t] # "ok" \/ BeyondGrace(t)))          \* RejectHeartbeat
         /\ []<>~(heartbeat[t] = "rest" /\ shuttingDown[t])          \* HeartbeatStops
         /\ []<>(heartbeat[t] # "failed")                            \* HeartbeatFails
         /\ []<>(poll[t] # "sent")                                   \* HandlePoll
         /\ []<>(poll[t] # "error")                                  \* PollReturns

AgentFairSpec == AgentSpec /\ AgentFairness
-----------------------------------------------------------------------------
(* Properties *)

\* WaitAtBarrier: a call that returns OK has synchronized with every task:
\* each has called this instance, or a later one, whatever RPCs failed, were
\* repeated or were cancelled.
ReleaseMeansAllCalled ==
    \A t \in Task : user[t] \in Barrier /\ rpc[t].st = "ok" =>
        \A u \in Task : requested[u][user[t]] >= rpc[t].cnt

\* barrier_counter_ "Track completed/errored barrier counters": an agent never
\* counts an instance as completed that the service has not finished, or else
\* its next call is a counter mismatch that fails the barrier for everybody.
NeverAhead ==
    \A t \in Task, b \in Barrier :
        \/ barrierCounter[t][b] < counter[b]
        \/ barrierCounter[t][b] = counter[b] /\ passed[b]

\* The service has an answer to every request in every state in which an agent
\* sends it (in particular, an agent that shuts down or polls for errors has
\* been registered), and its thread can act on whatever is late.
RequestsCanBeHandled ==
    /\ \A t \in Task : rpc[t].phase = "sent" => ENABLED HandleRpc(t)
    /\ \A t \in Task : poll[t] = "sent" => ENABLED HandlePoll(t)
    /\ StaleTasks # {} \/ ExpiredBarriers # {} => ENABLED ServiceRuns

\* Every blocking call of the user returns: Connect and Shutdown, through
\* retries, the join of the heartbeat thread and the barriers of the service.
\* (WaitAtBarrier too, but the run that checks this has no client barrier: that
\* such a barrier ends is BarrierCallsEnd of the service.)
CallsReturn ==
    \A t \in Task : user[t] \in Barrier \cup {"Connect", "Shutdown", "joining"}
                      ~> user[t] \in {"idle", "over", "dead"}

\* An agent does not stay CONNECTED once the service has given its task up.
AgentsLearn ==
    \A t \in Task : (agent[t] = "CONNECTED" /\ state[t] # "CONNECTED")
                      ~> agent[t] # "CONNECTED"

\* Fate sharing seen from the agents: when a connected process dies, no other
\* agent stays CONNECTED.
FateIsShared ==
    \A t, u \in Task : (user[t] = "dead" /\ state[t] = "CONNECTED" /\ agent[u] = "CONNECTED")
                        ~> agent[u] # "CONNECTED"

\* CancelBarrier: "Aborts the barrier if it is ongoing."  When the cancellation
\* of the instance that its caller waits at arrives, the barrier is cancelled.
CancelAborts ==
    [][\A t \in Task : /\ cancel[t] # NoCancel /\ cancel'[t] = NoCancel /\ user'[t] # "dead"
                       /\ rpc[t].phase = "served" /\ user[t] = cancel[t].id
                       /\ barrierCounter[t][user[t]] + 1 = cancel[t].cnt
                       => result'[cancel[t].id] = "cancelled"]_allVars
=============================================================================
