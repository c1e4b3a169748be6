------------------------ MODULE CoordinationService ------------------------
(***************************************************************************)
(* The coordination service of PJRT's distributed runtime                  *)
(* (xla/pjrt/distributed/coordination/coordination_service.{h,cc}): the    *)
(* registry of tasks, heartbeats, barriers, error polling, GetAliveTasks   *)
(* and WatchTasks.  Every handler runs from beginning to end under         *)
(* state_mu_, so that each one is a single action.                         *)
(*                                                                         *)
(* The handlers call each other: a task that fails makes its barriers      *)
(* fail, a failed register or shutdown barrier makes all tasks fail, which *)
(* makes the remaining barriers fail.  That cascade is finite; the         *)
(* operator Settle states its outcome.  A handler is its guard, what it    *)
(* does itself, and Settle for what follows from it.  The order in which   *)
(* the hash maps are walked shows in two places, both nondeterministic     *)
(* here: which tasks a GetAliveTasks call still finds connected, and, when *)
(* several barriers of a recoverable job fail in one handler, who is told  *)
(* that it left (late).                                                    *)
(*                                                                         *)
(* Time is three sets: the tasks whose last heartbeat is older than the    *)
(* timeout, the barriers past their deadline and the disconnected tasks    *)
(* still in their grace period.  A status is reduced to what the code      *)
(* tells apart: ok, cancelled, or failed.                                  *)
(***************************************************************************)
EXTENDS Integers, FiniteSets

CONSTANTS
    Task,                 \* the ids 0 .. num_tasks - 1
    Unknown,              \* a task id outside the cluster
    Barrier,              \* ids of the barriers that clients use
    Register, Shutdown,   \* kClusterRegisterBarrierId, shutdown_barrier_id_
    Recoverable,          \* Config::recoverable
    RegisterWithBarrier,  \* Config::cluster_register_with_barrier
    ShutdownWithBarrier,  \* Config::shutdown_barrier_timeout > 0
    BarrierArgs,          \* the participating_tasks that callers pass; {} is "all"
    AliveArgs,            \* the task sets that callers pass to GetAliveTasks
    Watcher,              \* clients of WatchTasks
    Rpcs,                 \* the requests that clients issue
    MaxIncarnation,       \* bound on the incarnations of a task
    MaxCounter            \* bound on the instances of a barrier id

BarrierId == Barrier \cup {Register, Shutdown}
Incarnation == 0 .. MaxIncarnation      \* 0: TaskState's initial value

ASSUME TaskAssumption == IsFiniteSet(Task) /\ Task # {} /\ Unknown \notin Task
ASSUME BarrierAssumption ==
    Register \notin Barrier /\ Shutdown \notin Barrier /\ Register # Shutdown
ASSUME ConfigAssumption ==
    /\ Recoverable \in BOOLEAN
    /\ RegisterWithBarrier \in BOOLEAN
    /\ ShutdownWithBarrier \in BOOLEAN
ASSUME InputAssumption ==
    /\ BarrierArgs \subseteq SUBSET (Task \cup {Unknown})
    /\ AliveArgs \subseteq SUBSET Task
    /\ MaxIncarnation \in Nat /\ MaxCounter \in Nat

VARIABLES
    stopped,       \* shutting_down_
    \* cluster_state_: one TaskState per task
    state, status, \* state_, status_ ("ok", "unavailable", "other")
    incarnation,   \* task_incarnation_
    joined,        \* ongoing_barriers_for_task_
    stale,         \* CONNECTED tasks whose last heartbeat is too old
    grace,         \* DISCONNECTED tasks within disconnect_grace_period_us_
    \* barriers_: one BarrierState per id
    counter, passed, result,
    members,       \* the keys of tasks_at_barrier
    reached,       \* the tasks that tasks_at_barrier maps to true
    pending,       \* num_pending_tasks
    calls,         \* the tasks with an entry in done_callbacks
    callInc,       \* incarnation of the caller of that entry
    ongoing,       \* ongoing_barriers_
    overdue,       \* ongoing barriers past deadline_in_micros
    \* error polling
    polling,       \* client_polling_for_error_
    responded,     \* error_polling_state_.responded_
    polls,         \* the tasks with an entry in its done_callbacks_
    \* aliveness_states_: pending <<caller, incarnation>> pairs per task set
    aliveCalls,
    \* WatchTasks: the job state that a client holds together with the current
    \* version number (Behind if its version is older), and who is waiting
    known, watching,
    \* what the last step answered
    replies, aliveReplies

taskVars    == <<state, status, incarnation, joined, stale, grace>>
barrierVars == <<counter, passed, result, members, reached, pending, calls,
                 callInc, ongoing, overdue>>
pollVars    == <<polling, responded, polls>>
watchVars   == <<known, watching>>
outVars     == <<replies, aliveReplies>>
vars == <<stopped, taskVars, barrierVars, pollVars, aliveCalls, watchVars, outVars>>

Behind == << >>
TaskStates == {"DISCONNECTED", "CONNECTED", "ERROR"}
JobState == [Task -> TaskStates \X Incarnation \X {"ok", "unavailable", "other"}]

TypeOK ==
    /\ stopped \in BOOLEAN
    /\ state \in [Task -> TaskStates]
    /\ status \in [Task -> {"ok", "unavailable", "other"}]
    /\ incarnation \in [Task -> Incarnation]
    /\ joined \in [Task -> SUBSET BarrierId]
    /\ stale \subseteq Task /\ grace \subseteq Task
    /\ counter \in [BarrierId -> Nat]
    /\ passed \in [BarrierId -> BOOLEAN]
    /\ result \in [BarrierId -> {"none", "ok", "cancelled", "failed"}]
    /\ members \in [BarrierId -> SUBSET Task]
    /\ reached \in [BarrierId -> SUBSET Task]
    /\ pending \in [BarrierId -> Int]
    /\ calls \in [BarrierId -> SUBSET Task]
    /\ callInc \in [BarrierId -> [Task -> Incarnation]]
    /\ ongoing \subseteq BarrierId /\ overdue \subseteq ongoing
    /\ polling \in BOOLEAN /\ responded \in BOOLEAN /\ polls \subseteq Task
    /\ aliveCalls \in [AliveArgs -> SUBSET (Task \X Incarnation)]
    /\ known \in [Watcher -> JobState \cup {Behind}] /\ watching \subseteq Watcher
    /\ replies \subseteq [to : Task, of : BarrierId \cup {"poll"},
                          st : {"none", "ok", "cancelled", "failed", "exists"}]
    /\ aliveReplies \subseteq [set : AliveArgs, alive : SUBSET (Task \X Incarnation)]

-----------------------------------------------------------------------------
(* The state an object is created with. *)

Init ==
    /\ stopped = FALSE
    /\ state = [t \in Task |-> "DISCONNECTED"]
    /\ status = [t \in Task |-> "ok"]
    /\ incarnation = [t \in Task |-> 0]
    /\ joined = [t \in Task |-> {}]
    /\ stale = {} /\ grace = {}
    /\ counter = [b \in BarrierId |-> 0]
    /\ passed = [b \in BarrierId |-> FALSE]
    /\ result = [b \in BarrierId |-> "none"]
    /\ members = [b \in BarrierId |-> {}]
    /\ reached = [b \in BarrierId |-> {}]
    /\ pending = [b \in BarrierId |-> 0]
    /\ calls = [b \in BarrierId |-> {}]
    /\ callInc = [b \in BarrierId |-> [t \in Task |-> 0]]
    /\ ongoing = {} /\ overdue = {}
    /\ polling = FALSE /\ responded = FALSE /\ polls = {}
    /\ aliveCalls = [S \in AliveArgs |-> {}]
    /\ known = [c \in Watcher |-> Behind] /\ watching = {}
    /\ replies = {} /\ aliveReplies = {}

-----------------------------------------------------------------------------
(* What follows from what a handler does. *)

Reply(t, o, st) == [to |-> t, of |-> o, st |-> st]

\* What the caller is told when its done callback is invoked: the callback of
\* the register barrier is ConnectAfterBarrierPasses, given the incarnation
\* `inc` it was created for and the task's current one, `cur`.
Answer(b, t, st, inc, cur) ==
    Reply(t, b, IF b = Register /\ (st = "cancelled" \/ (st = "ok" /\ inc # cur))
                THEN "exists" ELSE st)

\* A handler's own effects.  Settle adds what they entail.
Quiet == [errs |-> {},        \* tasks that SetTaskError is called for
          kind |-> "other",   \* with this kind of error
          propagate |-> FALSE,\* PropagateError is called
          conn |-> {},        \* tasks that Connect() is called for
          disc |-> {},        \* tasks that Disconnect() is called for
          leave |-> {},       \* reconnected tasks that leave their barriers
          pass |-> {},        \* barriers that PassBarrier is called for
          res |-> "failed",   \* with this result
          late |-> {},        \* those passed after the register barrier has failed
          start |-> {},       \* barriers initialized as a new instance
          wait |-> calls,     \* done_callbacks after AddBarrierCallback
          inc |-> callInc,    \* the incarnations these callbacks belong to
          at |-> reached,     \* tasks_at_barrier after ReachBarrier
          updates |-> 0,      \* further calls of ClusterStateUpdated
          answers |-> {}]     \* requests answered by the handler itself

NotInError(d) == {t \in Task : state[t] # "ERROR" \/ t \in d.disc}

\* LeaveOngoingBarriers for non-recoverable tasks: the barriers of T fail.
BarriersOf(T, d) ==
    {b \in ongoing \ d.pass : ~Recoverable /\ \E t \in T : b \in joined[t]}

\* The first wave: barriers that fail because of what the handler did.
Hit(d) == (IF d.res = "ok" THEN {} ELSE d.pass)
            \cup BarriersOf((d.errs \cap NotInError(d)) \cup d.disc, d)

\* SetAllTasksError: a failed register or shutdown barrier, or an error that
\* cannot be propagated because nobody has polled for errors yet.
AllFail(d) ==
    \/ Register \in Hit(d)
    \/ Shutdown \in Hit(d)
    \/ d.propagate /\ ~Recoverable /\ ~polling

\* The tasks that enter ERROR in this step.
Errors(d) == NotInError(d) \cap (IF AllFail(d) THEN Task ELSE d.errs)

\* In the following, err is Errors(d), fin is Passed(d, err) and left[b] is
\* Left(b, d, err).

\* All barriers that this step passes.
Passed(d, err) == d.pass \cup BarriersOf(err \cup d.disc, d)

\* The result that barrier b of fin passes with.
Outcome(b, d) == IF b \in d.pass THEN d.res ELSE "failed"

\* LeaveOngoingBarriers for recoverable tasks: the tasks taken off barrier b.
LeftMutant(b, d, err) ==
    {t \in Task : /\ Recoverable /\ b \in joined[t]
                  /\ t \in IF b \in d.pass \ d.late THEN d.errs \cap NotInError(d)
                                                   ELSE err \cup d.disc}
Left(b, d, err) ==
    {t \in Task : /\ Recoverable /\ b \in joined[t]
                  /\ t \in IF b \in d.pass \ d.late THEN d.errs \cap NotInError(d)
                                                   ELSE err \cup d.disc \cup d.leave}

\* When a handler passes several barriers, those of a recoverable job that come
\* after the register barrier have been left by the tasks that it failed.
MayBeLate(pass) ==
    {b \in pass \ {Register} : Recoverable /\ Register \in pass}

\* SendErrorPollingResponse is called.
RespondsMutant(d, fin) == polling /\ ~Recoverable /\ d.propagate
Responds(d, fin) ==
    polling /\ ~Recoverable /\ (d.propagate \/ (Shutdown \in fin /\ Outcome(Shutdown, d) # "ok"))

\* TaskState::SetError, SetConnected and Disconnect
SettleTasks(d, err) ==
    /\ state' = [t \in Task |-> CASE t \in err -> "ERROR"
                                  [] t \in d.disc \ err -> "DISCONNECTED"
                                  [] t \in d.conn \ (err \cup d.disc) -> "CONNECTED"
                                  [] OTHER -> state[t]]
    /\ status' = [t \in Task |-> CASE t \in err -> IF t \in d.errs THEN d.kind ELSE "other"
                                   [] t \in (d.disc \cup d.conn) \ err -> "ok"
                                   [] OTHER -> status[t]]
    /\ stale' = stale \ (err \cup d.disc \cup d.conn)
    /\ grace' = (grace \cup d.disc) \ (err \cup d.conn)

\* ongoing_barriers_ and the deadlines of those that remain
OngoingMutant(d, fin) == ongoing \cup d.start
Ongoing(d, fin) == (ongoing \cup d.start) \ fin
OverdueMutant(d, fin) == overdue \ d.start
Overdue(d, fin) == overdue \ (d.start \cup fin)

\* What LeaveOngoingBarriers adds to num_pending_tasks: the arrivals it undoes.
ReturnedMutant(b, d, left) == 0
Returned(b, d, left) == Cardinality(d.at[b] \cap left[b])

\* InitializeBarrier, PassBarrier and LeaveOngoingBarriers.  The handler has
\* already determined members'.  The flags in tasks_at_barrier and
\* num_pending_tasks of a barrier that has passed are not read again before
\* InitializeBarrier resets them; here they are cleared when it passes.
SettleBarriers(d, fin, left) ==
    /\ ongoing' = Ongoing(d, fin)
    /\ overdue' = Overdue(d, fin)
    /\ passed' = [b \in BarrierId |-> b \in fin \/ (passed[b] /\ b \notin d.start)]
    /\ result' = [b \in BarrierId |-> IF b \in fin THEN Outcome(b, d)
                                      ELSE IF b \in d.start THEN "none" ELSE result[b]]
    /\ joined' = [t \in Task |-> (joined[t] \cup {b \in d.start : t \in members'[b]})
                                    \ {b \in fin : t \in members'[b]}]
    /\ calls' = [b \in BarrierId |-> IF b \in fin THEN {} ELSE d.wait[b] \ left[b]]
    /\ reached' = [b \in BarrierId |-> IF b \in fin THEN {} ELSE d.at[b] \ left[b]]
    /\ pending' = [b \in BarrierId |-> IF b \in fin THEN 0 ELSE
            (IF b \in d.start THEN Cardinality(members'[b]) ELSE pending[b])
            - Cardinality(d.at[b] \ (IF b \in d.start THEN {} ELSE reached[b]))
            + Returned(b, d, left)]
    /\ callInc' = [b \in BarrierId |-> [t \in Task |-> IF t \in calls'[b] THEN d.inc[b][t] ELSE 0]]

\* RefreshAliveness.  A call is over once no task outside is alive.  It is
\* called for each task that a step fails or disconnects, one after the other:
\* some of these tasks, late[S], may still be connected when S is answered.
InBarrier(S) == {c[1] : c \in aliveCalls[S]}
AliveTasks(S, st) == {t \in S : st[t] = "CONNECTED"}
AllAliveAreIn(S, st, in) == AliveTasks(S, st) \subseteq in
RefreshNeededMutant(d, err) == d.disc # {}
RefreshNeeded(d, err) == err \cup d.disc # {}
RefreshAliveness(d, err, inc) ==
    LET over == {S \in AliveArgs : /\ RefreshNeeded(d, err)
                                   /\ aliveCalls[S] # {}
                                   /\ AllAliveAreIn(S, state', InBarrier(S))}
        gone == {t \in err \cup d.disc : over # {} /\ state[t] = "CONNECTED"}
    IN  /\ aliveCalls' = [S \in AliveArgs |-> IF S \in over THEN {} ELSE aliveCalls[S]]
        /\ \E late \in [over -> SUBSET gone] :
             aliveReplies' = {[set |-> S, alive |-> {<<t, inc[t]>> : t \in
                                AliveTasks(S, state') \cup (late[S] \cap InBarrier(S))}] : S \in over}

\* ErrorPollingState::SetError and RemoveTask
SettlePolls(d, fin) ==
    /\ responded' = (responded \/ Responds(d, fin))
    /\ polls' = IF Responds(d, fin) THEN {} ELSE polls \ d.disc

\* ClusterStateUpdated, n times: waiting clients are called at the first
\* update, with a version that is the current one only if there is no second.
UpdatesMutant(d, err) == d.updates
Updates(d, err) == Cardinality(err) + d.updates
JobNow == [t \in Task |-> <<state[t], incarnation[t], status[t]>>]
ClusterStateUpdated(n, job) ==
    IF n = 0 THEN UNCHANGED watchVars
    ELSE /\ known' = [c \in Watcher |-> IF n = 1 /\ c \in watching THEN job ELSE Behind]
         /\ watching' = {}

\* The callbacks invoked: those of the barriers that passed, those of tasks
\* that left a barrier, and those of error polling.
Called(d, b, T, st) == {Answer(b, t, st, d.inc[b][t], incarnation'[t]) : t \in T}
CancelledCalls(d, left) ==
    UNION {Called(d, b, d.wait[b] \cap left[b], "cancelled") : b \in BarrierId}
PollAnswersMutant(d, fin) == {Reply(t, "poll", "failed") : t \in {u \in polls : Responds(d, fin)}}
PollAnswers(d, fin) ==
    {Reply(t, "poll", IF Responds(d, fin) THEN "failed" ELSE "cancelled") :
        t \in IF Responds(d, fin) THEN polls ELSE polls \cap d.disc}
RepliesSent(d, fin, left) ==
    d.answers
        \cup (UNION {Called(d, b, d.wait[b] \ left[b], Outcome(b, d)) : b \in fin})
        \cup CancelledCalls(d, left)
        \cup PollAnswers(d, fin)
SettleReplies(d, fin, left) == replies' = RepliesSent(d, fin, left)

Consequences(d, err, fin, left) ==
    /\ SettleTasks(d, err)
    /\ SettleBarriers(d, fin, left)
    /\ SettlePolls(d, fin)
    /\ RefreshAliveness(d, err, incarnation')
    /\ ClusterStateUpdated(Updates(d, err), JobNow')
    /\ SettleReplies(d, fin, left)

Settle(effects) ==
    LET d == effects
        err == Errors(d)
        fin == Passed(d, err)
        left == [b \in BarrierId |-> Left(b, d, err)]
    IN  Consequences(d, err, fin, left)

-----------------------------------------------------------------------------
(* Barriers *)

\* BarrierState as the map creates it (BarrierIsUninitialized)
Uninitialized(b) == counter[b] = 0 /\ ~passed[b] /\ pending[b] = 0

\* A task of a recoverable job starts again at counter 0 after a restart.
Rejoins(b, c) == passed[b] /\ Recoverable /\ c = 0 /\ b \in Barrier

NewInstance(b, c) ==
    \/ Uninitialized(b) /\ c = 0
    \/ passed[b] /\ c = counter[b] + 1
    \/ Rejoins(b, c)

InstanceCounter(b, c) == IF Rejoins(b, c) THEN counter[b] + 1 ELSE c

\* InitializeTasksAtBarrier: an id keeps the members of its first instance.
InitialMembers(b, args) ==
    IF members[b] # {} THEN members[b] ELSE IF args = {} THEN Task ELSE args

\* ValidateTaskArgs
ArgsAgree(mem, args, t) ==
    IF args = {} THEN Cardinality(mem) = Cardinality(Task) ELSE mem = args /\ t \in mem

CounterMismatch(b, c) ==
    ~NewInstance(b, c) /\ c # counter[b] /\ ~(Recoverable /\ c = 0)

\* InitializeBarrier returns an error: a participant is unknown (the known
\* ones listed before it have been recorded) or already in error.
BarrierCannotStart(b, c, t, args, upd) ==
    /\ NewInstance(b, c)
    /\ InstanceCounter(b, c) <= MaxCounter
    /\ \E mem \in SUBSET Task :
         /\ \/ members[b] = {} /\ Unknown \in args /\ mem \subseteq args
            \/ /\ mem = InitialMembers(b, args)
               /\ ~Recoverable /\ \E m \in mem : state[m] = "ERROR"
         /\ members' = [members EXCEPT ![b] = mem]
    /\ counter' = [counter EXCEPT ![b] = InstanceCounter(b, c)]
    /\ Settle([Quiet EXCEPT !.start = {b}, !.pass = {b}, !.updates = upd,
                            !.wait = [calls EXCEPT ![b] = {}],
                            !.at = [reached EXCEPT ![b] = {}],
                            !.answers = {Reply(t, b, "failed")}])

\* InitializeBarrier succeeds or the call is for the instance that is there;
\* AddBarrierCallback stores the call and cancels an older one of the task.
\* Mem, Start, Wait and Cancelled are the state after that.
CanStartMutant(b, args) == InitialMembers(b, args) \subseteq Task
CanStart(b, args) ==
    LET mem == InitialMembers(b, args)
    IN  mem \subseteq Task /\ (Recoverable \/ \A m \in mem : state[m] # "ERROR")
Start(b, c) == IF NewInstance(b, c) THEN {b} ELSE {}
Mem(b, c, args) == IF NewInstance(b, c) THEN InitialMembers(b, args) ELSE members[b]
At(b, c) == IF NewInstance(b, c) THEN {} ELSE reached[b]
Wait(b, c, t) == [calls EXCEPT ![b] = IF NewInstance(b, c) THEN {t} ELSE @ \cup {t}]
\* The incarnation a call is made for: the one the service knows of the task.
IncMutant(b, t) == IF t \in calls[b] THEN callInc ELSE [callInc EXCEPT ![b][t] = incarnation'[t]]
Inc(b, t) == [callInc EXCEPT ![b][t] = incarnation'[t]]
Cancelled(b, c, t) ==
    IF ~NewInstance(b, c) /\ t \in calls[b]
    THEN {Answer(b, t, "cancelled", callInc[b][t], incarnation'[t])} ELSE {}
AddBarrierCallback(b, c, t, args) ==
    /\ NewInstance(b, c) => CanStart(b, args) /\ InstanceCounter(b, c) <= MaxCounter
    /\ members' = [members EXCEPT ![b] = Mem(b, c, args)]
    /\ counter' = IF NewInstance(b, c) THEN [counter EXCEPT ![b] = InstanceCounter(b, c)]
                                       ELSE counter

\* FailBarrierWithCounterMismatch, or ValidateTaskArgs passes the barrier with
\* an error, whether it is ongoing or has passed before.
BarrierCallFails(b, c, t, args, upd) ==
    /\ AddBarrierCallback(b, c, t, args)
    /\ CounterMismatch(b, c) \/ ~ArgsAgree(Mem(b, c, args), args, t)
    /\ Settle([Quiet EXCEPT !.start = Start(b, c), !.pass = {b}, !.updates = upd,
                            !.wait = Wait(b, c, t), !.inc = Inc(b, t),
                            !.at = [reached EXCEPT ![b] = At(b, c)],
                            !.answers = Cancelled(b, c, t)])

\* RepeatBarrierResult.  The callback is taken out again before it is called.
\* A repeated register result connects the task; a repeated shutdown result
\* disconnects it first, and the caller gets DisconnectTask's error if it has
\* one.
RepeatBarrierResult(b, c, t, args, upd) ==
    LET disc == {t} \cap {u \in Task : b = Shutdown /\ state[u] # "DISCONNECTED"}
        conn == {t} \cap {u \in Task : b = Register /\ result[b] = "ok"}
    IN  /\ AddBarrierCallback(b, c, t, args)
        /\ ~NewInstance(b, c) /\ ~CounterMismatch(b, c) /\ ArgsAgree(members[b], args, t)
        /\ passed[b] /\ c = counter[b]
        /\ Settle([Quiet EXCEPT !.conn = conn, !.disc = disc,
                     !.updates = upd + Cardinality(conn) + Cardinality(disc),
                     !.answers = Cancelled(b, c, t) \cup
                        {Answer(b, t, IF b = Shutdown /\ disc = {} THEN "failed" ELSE result[b],
                                incarnation'[t], incarnation'[t])}])

\* ReachBarrier counts the caller, once, and the last one passes the barrier.
\* PassBarrier then connects the registered tasks
\* (ConnectAfterBarrierPasses) or disconnects those that shut down
\* (CompleteShutdownAfterBarrier, DisconnectAllNonRecoverableTasks).
NumPending(b, c, args) ==
    IF NewInstance(b, c) THEN Cardinality(Mem(b, c, args)) ELSE pending[b]
LastToReachMutant(b, c, t, args) == t \notin At(b, c) /\ NumPending(b, c, args) <= 2
LastToReach(b, c, t, args) == t \notin At(b, c) /\ NumPending(b, c, args) = 1
ReachBarrier(b, c, t, args, upd) ==
    LET last == LastToReach(b, c, t, args)
        conn == {u \in Wait(b, c, t)[b] :
                    last /\ b = Register /\ Inc(b, t)[b][u] = incarnation'[u]}
        disc == {u \in Task : /\ last /\ b = Shutdown
                              /\ ~Recoverable /\ state[u] # "DISCONNECTED"}
    IN  /\ AddBarrierCallback(b, c, t, args)
        /\ ~CounterMismatch(b, c) /\ ArgsAgree(Mem(b, c, args), args, t)
        /\ ~(~NewInstance(b, c) /\ passed[b] /\ c = counter[b])
        /\ Settle([Quiet EXCEPT !.start = Start(b, c),
                     !.wait = Wait(b, c, t), !.inc = Inc(b, t),
                     !.at = [reached EXCEPT ![b] = At(b, c) \cup {t}],
                     !.pass = IF last THEN {b} ELSE {},
                     !.res = "ok",
                     !.conn = conn, !.disc = disc,
                     !.updates = upd + Cardinality(conn) + Cardinality(disc),
                     !.answers = Cancelled(b, c, t)])

\* `upd` counts what the caller adds to cluster_state_version_number_.
BarrierAsyncLocked(b, c, t, args, upd) ==
    \/ BarrierCannotStart(b, c, t, args, upd)
    \/ BarrierCallFails(b, c, t, args, upd)
    \/ RepeatBarrierResult(b, c, t, args, upd)
    \/ ReachBarrier(b, c, t, args, upd)

BarrierAsync(b, c, t, args) ==
    /\ ~stopped /\ "Barrier" \in Rpcs
    /\ UNCHANGED <<stopped, incarnation, polling>>
    /\ BarrierAsyncLocked(b, c, t, args, 0)

\* Refused if the barrier is at another instance or has passed.  A barrier that
\* nobody has called yet is created and passed: its counter is 0 and it has no
\* members.
CancelBarrier(b, c) ==
    /\ ~stopped /\ "Cancel" \in Rpcs
    /\ counter[b] = c /\ ~passed[b]
    /\ UNCHANGED <<stopped, incarnation, polling, counter, members>>
    /\ Settle([Quiet EXCEPT !.pass = {b}, !.res = "cancelled"])

-----------------------------------------------------------------------------
(* Registration and shutdown *)

\* A disconnected task may register, and in a recoverable job one that lost
\* its heartbeat.
MayRegister(t) ==
    state[t] = "DISCONNECTED" \/ (Recoverable /\ status[t] = "unavailable")

\* ConnectTask
ConnectTask(t, i) ==
    /\ incarnation' = [incarnation EXCEPT ![t] = i]
    /\ UNCHANGED <<counter, members>>
    /\ Settle([Quiet EXCEPT !.conn = {t}, !.leave = {t}, !.updates = 2])

RegisterAtBarrier(t, i) ==
    /\ MayRegister(t) /\ RegisterWithBarrier
    /\ incarnation' = [incarnation EXCEPT ![t] = i]
    /\ BarrierAsyncLocked(Register, 0, t, {}, 1)

RegisterDirectly(t, i) ==
    /\ \/ MayRegister(t) /\ ~RegisterWithBarrier
       \/ state[t] = "CONNECTED" /\ (incarnation[t] = i \/ Recoverable)
    /\ ConnectTask(t, i)

\* A task in error, or connected with another incarnation: the cluster fails.
RegisterRejected(t, i) ==
    /\ ~MayRegister(t)
    /\ state[t] = "CONNECTED" => incarnation[t] # i /\ ~Recoverable
    /\ UNCHANGED <<incarnation, counter, members>>
    /\ Settle([Quiet EXCEPT !.errs = {t}, !.propagate = TRUE])

RegisterTaskAsync(t, i) ==
    /\ ~stopped /\ "Register" \in Rpcs
    /\ UNCHANGED <<stopped, polling>>
    /\ \/ RegisterAtBarrier(t, i)
       \/ RegisterDirectly(t, i)
       \/ RegisterRejected(t, i)

DisconnectTask(t) ==
    /\ state[t] # "DISCONNECTED"
    /\ UNCHANGED <<incarnation, counter, members>>
    /\ Settle([Quiet EXCEPT !.disc = {t}, !.updates = 1])

\* The agent of a task shuts down or polls for errors only once it has been
\* told that its registration succeeded.
HasConnected(t) ==
    incarnation[t] # 0 /\ (RegisterWithBarrier => result[Register] = "ok")

ShutdownTaskAsync(t) ==
    /\ ~stopped /\ "Shutdown" \in Rpcs
    /\ HasConnected(t)
    /\ UNCHANGED <<stopped, polling>>
    /\ \/ /\ ShutdownWithBarrier /\ ~Recoverable
          /\ UNCHANGED incarnation
          /\ BarrierAsyncLocked(Shutdown, 0, t, Task, 0)
       \/ ~(ShutdownWithBarrier /\ ~Recoverable) /\ DisconnectTask(t)

ResetTask(t) ==
    /\ ~stopped /\ "Reset" \in Rpcs
    /\ UNCHANGED <<stopped, polling>>
    /\ DisconnectTask(t)

ReportTaskError(t, kind) ==
    /\ ~stopped /\ "Report" \in Rpcs
    /\ state[t] = "CONNECTED"
    /\ UNCHANGED <<stopped, polling, incarnation, counter, members>>
    /\ Settle([Quiet EXCEPT !.errs = {t}, !.kind = kind, !.propagate = TRUE])

-----------------------------------------------------------------------------
(* Heartbeats and timeouts *)

Silent == replies' = {} /\ aliveReplies' = {}

BeyondGrace(t) == state[t] = "DISCONNECTED" /\ t \notin grace

\* A heartbeat that is not rejected: it is recorded if it is from the current
\* incarnation, ignored if it is not and the job is recoverable, and an error
\* of the task otherwise.
RecordHeartbeat(t, i) ==
    /\ ~stopped /\ "Heartbeat" \in Rpcs
    /\ status[t] = "ok" /\ ~BeyondGrace(t)
    /\ UNCHANGED <<stopped, polling, incarnation, counter, members>>
    /\ \/ /\ incarnation[t] = i \/ Recoverable
          /\ stale' = IF incarnation[t] = i THEN stale \ {t} ELSE stale
          /\ Silent
          /\ UNCHANGED <<state, status, joined, grace, passed, result, reached, pending,
                         calls, callInc, ongoing, overdue, responded, polls, aliveCalls, watchVars>>
       \/ /\ incarnation[t] # i /\ ~Recoverable
          /\ Settle([Quiet EXCEPT !.errs = {t}, !.propagate = TRUE])

\* One round of the staleness thread: CheckHeartbeatTimeout, then
\* CheckBarrierTimeout, without releasing the lock.
StaleTasks == {t \in stale : state[t] = "CONNECTED"}
ExpiredBarriersMutant == {b \in overdue : calls[b] = {}}
ExpiredBarriers == overdue
CheckStaleness ==
    /\ ~stopped
    /\ StaleTasks # {} \/ ExpiredBarriers # {}
    /\ UNCHANGED <<stopped, polling, incarnation, counter, members>>
    /\ \E late \in SUBSET MayBeLate(ExpiredBarriers) :
         Settle([Quiet EXCEPT !.errs = StaleTasks, !.kind = "unavailable",
                              !.propagate = (StaleTasks # {}),
                              !.pass = ExpiredBarriers, !.late = late])

\* The clock: a heartbeat timeout, a barrier deadline or a grace period ends.
HeartbeatLapses(t) ==
    /\ state[t] = "CONNECTED" /\ t \notin stale
    /\ stale' = stale \cup {t}
    /\ UNCHANGED <<state, status, incarnation, joined, grace, overdue>>
DeadlinePasses(b) ==
    /\ b \in ongoing \ overdue
    /\ overdue' = overdue \cup {b}
    /\ UNCHANGED taskVars
GraceEnds(t) ==
    /\ t \in grace
    /\ grace' = grace \ {t}
    /\ UNCHANGED <<state, status, incarnation, joined, stale, overdue>>
Clock ==
    /\ ~stopped
    /\ \/ \E t \in Task : HeartbeatLapses(t) \/ GraceEnds(t)
       \/ \E b \in BarrierId : DeadlinePasses(b)
    /\ Silent
    /\ UNCHANGED <<stopped, counter, passed, result, members, reached, pending, calls,
                   callInc, ongoing, pollVars, aliveCalls, watchVars>>

-----------------------------------------------------------------------------
(* Error polling, GetAliveTasks, WatchTasks *)

\* Any request switches the service to error polling, even one that is
\* rejected: a task outside the cluster, disconnected or in error.
PollForErrorAsync(t) ==
    /\ ~stopped /\ "Poll" \in Rpcs
    /\ t \in Task => HasConnected(t)
    /\ polling' = TRUE
    /\ IF t = Unknown
       THEN UNCHANGED polls /\ replies' = {}
       ELSE IF BeyondGrace(t) \/ state[t] = "ERROR" \/ responded
       THEN UNCHANGED polls /\ replies' = {Reply(t, "poll", "failed")}
       ELSE /\ polls' = polls \cup {t}
            /\ replies' = {Reply(u, "poll", "cancelled") : u \in polls \cap {t}}
    /\ aliveReplies' = {}
    /\ UNCHANGED <<stopped, taskVars, barrierVars, responded, aliveCalls, watchVars>>

\* Enter the barrier of the calls with the same task set; finish it if every
\* alive task has entered.  Once the service has stopped no task is alive.
GetAliveTasksAsync(t, S) ==
    LET now == aliveCalls[S] \cup {<<t, incarnation[t]>>}
        alive == AliveTasks(S, state)
        done == AllAliveAreIn(S, state, {c[1] : c \in now})
    IN  /\ "Alive" \in Rpcs
        /\ t \in S
        /\ aliveCalls' = [aliveCalls EXCEPT ![S] = IF done THEN {} ELSE now]
        /\ aliveReplies' = IF done
               THEN {[set |-> S, alive |-> {<<u, incarnation[u]>> : u \in alive}]} ELSE {}
        /\ replies' = {}
        /\ UNCHANGED <<stopped, taskVars, barrierVars, pollVars, watchVars>>

\* A client passes the version it holds; one without the current version is
\* answered at once.  After Stop() the others wait for ever: the version does
\* not change any more.
WatchTasks(c) ==
    /\ "Watch" \in Rpcs
    /\ c \notin watching
    /\ IF known[c] = Behind
       THEN known' = [known EXCEPT ![c] = JobNow] /\ UNCHANGED watching
       ELSE watching' = watching \cup {c} /\ UNCHANGED known
    /\ Silent
    /\ UNCHANGED <<stopped, taskVars, barrierVars, pollVars, aliveCalls>>

-----------------------------------------------------------------------------
(* The destructor's Stop(): every ongoing barrier is aborted, the maps are   *)
(* cleared (here: as in Init), watchers still waiting get version -1 and     *)
(* polls still waiting are cancelled.  An aborted register or shutdown       *)
(* barrier fails all tasks first: that updates the cluster state, and only   *)
(* then do pending GetAliveTasks calls end.  An aborted shutdown barrier     *)
(* also sends its error to the polls.                                        *)
Aborted(late) == [Quiet EXCEPT !.pass = ongoing, !.late = late]
JobWithErrors(err) ==
    [t \in Task |-> IF t \in err THEN <<"ERROR", incarnation[t], "other">> ELSE JobNow[t]]
Stop ==
    /\ ~stopped /\ "Stop" \in Rpcs
    /\ stopped' = TRUE
    /\ state' = [t \in Task |-> "DISCONNECTED"] /\ status' = [t \in Task |-> "ok"]
    /\ incarnation' = [t \in Task |-> 0] /\ joined' = [t \in Task |-> {}]
    /\ stale' = {} /\ grace' = {}
    /\ counter' = [b \in BarrierId |-> 0] /\ passed' = [b \in BarrierId |-> FALSE]
    /\ result' = [b \in BarrierId |-> "none"]
    /\ members' = [b \in BarrierId |-> {}] /\ reached' = [b \in BarrierId |-> {}]
    /\ pending' = [b \in BarrierId |-> 0] /\ calls' = [b \in BarrierId |-> {}]
    /\ callInc' = [b \in BarrierId |-> [t \in Task |-> 0]]
    /\ ongoing' = {} /\ overdue' = {}
    /\ responded' = (responded \/ polling)
    /\ polls' = {}
    /\ UNCHANGED polling
    /\ \E late \in SUBSET MayBeLate(ongoing) :
         LET d == Aborted(late)
             err == Errors(d)
             left == [b \in BarrierId |-> Left(b, d, err)]
         IN  /\ RefreshAliveness(d, err, incarnation)
             /\ IF err = {}
                THEN /\ known' = [c \in Watcher |-> IF c \in watching THEN Behind ELSE known[c]]
                     /\ watching' = {}
                ELSE ClusterStateUpdated(Cardinality(err), JobWithErrors(err))
             /\ replies' = RepliesSent(d, ongoing, left) \cup
                   {Reply(t, "poll", "cancelled") : t \in {u \in polls : ~Responds(d, ongoing)}}

\* ServiceHasStopped(): requests are answered with an error.
RejectAfterStop(t) ==
    /\ stopped
    /\ \E o \in BarrierId \cup {"poll"} : replies' = {Reply(t, o, "failed")}
    /\ aliveReplies' = {}
    /\ UNCHANGED <<stopped, taskVars, barrierVars, pollVars, aliveCalls, watchVars>>

Next ==
    \/ \E t \in Task :
         \/ \E i \in 1 .. MaxIncarnation : RegisterTaskAsync(t, i) \/ RecordHeartbeat(t, i)
         \/ ShutdownTaskAsync(t) \/ ResetTask(t)
         \/ \E kind \in {"other", "unavailable"} : ReportTaskError(t, kind)
         \/ \E b \in Barrier, c \in 0 .. MaxCounter, args \in BarrierArgs :
              BarrierAsync(b, c, t, args)
         \/ \E S \in AliveArgs : GetAliveTasksAsync(t, S)
         \/ RejectAfterStop(t)
    \/ \E t \in Task \cup {Unknown} : PollForErrorAsync(t)
    \/ \E b \in Barrier, c \in 0 .. MaxCounter : CancelBarrier(b, c)
    \/ \E c \in Watcher : WatchTasks(c)
    \/ CheckStaleness
    \/ Clock
    \/ Stop

Spec == Init /\ [][Next]_vars

\* The staleness thread runs every second and time passes.
FairSpec ==
    /\ Spec
    /\ WF_vars(CheckStaleness)
    /\ \A b \in BarrierId : WF_vars(Clock /\ DeadlinePasses(b))
-----------------------------------------------------------------------------
(* Properties *)

\* The redundant records of who is at which barrier agree: ongoing_barriers_,
\* the barriers each TaskState has joined, num_pending_tasks, tasks_at_barrier
\* and the stored callbacks are changed by different functions, across
\* restarts, disconnects and cascading failures.  A disagreement makes a
\* barrier pass early, never pass, or drop a waiting caller.
Bookkeeping ==
    /\ \A b \in BarrierId :
         /\ b \in ongoing => /\ ~passed[b] /\ pending[b] > 0
                             /\ calls[b] = reached[b] /\ reached[b] \subseteq members[b]
                             /\ pending[b] = Cardinality(members[b] \ reached[b])
         /\ b \notin ongoing => calls[b] = {}
    /\ \A t \in Task : joined[t] = {b \in ongoing : t \in members[b]}

\* Fate sharing (Config::recoverable = false): an ongoing barrier never waits
\* for a task that is already in error, it fails with that task.
NoBarrierWaitsForFailedTask ==
    ~Recoverable => \A b \in ongoing : \A t \in members[b] : state[t] # "ERROR"

\* A registration waiting at the register barrier is the latest one of its
\* task, so that the barrier connects no incarnation that has been replaced.
WaitingRegistrationIsCurrent ==
    \A t \in calls[Register] : callInc[Register][t] = incarnation[t]

\* PassBarrier with an OK status: all participants are released together, each
\* one by its own waiting call; later calls only repeat it.
ReleasedTogether ==
    [][\A r \in replies' : r.of \in BarrierId /\ r.st = "ok" =>
         \/ \A m \in members'[r.of] : Reply(m, r.of, "ok") \in replies'
         \/ passed[r.of] /\ result[r.of] = "ok" /\ counter'[r.of] = counter[r.of]]_vars

\* LeaveOngoingBarriers, "For recoverable tasks, we also leave any previously
\* ongoing barriers": when the connection of a task ends, because the task
\* fails, disconnects, fails along with others, or is replaced by a new
\* incarnation, none of its calls stays at a barrier, so that no barrier passes
\* on behalf of a process that is gone.  (This is about calls of connected
\* tasks: what a task calls while it is not connected does stay when it
\* registers again, in a job with a register barrier.)
CallsEndWithConnection ==
    [][\A t \in Task :
         /\ state[t] = "CONNECTED"
         /\ state'[t] # "CONNECTED" \/ incarnation'[t] # incarnation[t]
         => \A b \in BarrierId : t \notin calls'[b]]_vars

\* done_callbacks, done_callbacks_: a barrier call or error poll that stops
\* waiting is answered in that very step, whatever made it stop, Stop()
\* included; so is one whose place is taken by a call of a newer incarnation of
\* the same task.  (A repeated call of the same incarnation leaves the state as
\* it is and is not seen here.)
NoCallIsDropped ==
    [][/\ \A b \in BarrierId, t \in Task :
            t \in calls[b] /\ (t \notin calls'[b] \/ callInc'[b][t] # callInc[b][t])
              => \E r \in replies' : r.to = t /\ r.of = b
       /\ \A t \in polls : t \notin polls' => \E r \in replies' : r.to = t /\ r.of = "poll"]_vars

\* PropagateError, SetAllTasksError: in a job that is not recoverable, the step
\* that puts a task in error answers all error polls, or, if no task has ever
\* polled, puts all tasks in error.
ErrorReachesAll ==
    [][~Recoverable /\ (\E t \in Task : state[t] # "ERROR" /\ state'[t] = "ERROR")
         => polls' = {} /\ (~polling => \A t \in Task : state'[t] = "ERROR")]_vars

\* RefreshAliveness: a pending GetAliveTasks call waits for some alive task.
AliveCallWaitsForSomeone ==
    ~stopped => \A S \in AliveArgs : aliveCalls[S] # {} =>
                   \E t \in S : state[t] = "CONNECTED" /\ t \notin InBarrier(S)

\* GetAliveTasks "waits only for the returned tasks A": every incarnation that is
\* returned has called with this task set (the call that ends the wait is the
\* one exception to having been pending).
AliveIncarnationsHaveCalled ==
    [][\A r \in aliveReplies' : Cardinality(r.alive \ aliveCalls[r.set]) <= 1]_vars

\* WatchTasks: a client that holds the current version number holds the current
\* job state; no change of a task's state, error or incarnation goes unnoticed.
NoMissedUpdate == ~stopped => \A c \in Watcher : known[c] \in {Behind, JobNow}

\* Every barrier call, registration and shutdown is eventually answered: the
\* barrier passes, fails, or times out.  (The run that checks this has client
\* barriers only; registration and shutdown end in the liveness run of
\* CoordinationAgent.)
BarrierCallsEnd == \A b \in BarrierId, t \in Task : t \in calls[b] ~> t \notin calls[b]
=============================================================================
