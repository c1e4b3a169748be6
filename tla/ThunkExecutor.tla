---------------------------- MODULE ThunkExecutor ----------------------------
(***************************************************************************)
(* ThunkExecutor::Execute: the tasks that execute a thunk sequence         *)
(* concurrently.  A task is a call of Execute with its own ready queue: it *)
(* pops a node, hands half of a long queue, or a thunk that may block, to  *)
(* the task runner, executes the thunk and processes its out edges.  A     *)
(* thunk that is not done when its Execute returns continues later, as a   *)
(* task of its own, on the thread that completes it (or, for a thunk on a  *)
(* foreign thread pool, through the task runner).                          *)
(*                                                                         *)
(* A continuation that is attached to an event which is available already  *)
(* runs inside AndThen, before the rest of the queue of the task that      *)
(* attaches it; here it is a task like the others, whose steps may also    *)
(* come in that order.                                                     *)
(***************************************************************************)
EXTENDS ExecuteState, SequencesExt

CONSTANTS QueueTypes,      \* subset of {"fifo", "lifo", "priority"}
          Runners,         \* subset of BOOLEAN: is there a task runner?
          MayBlock,        \* nodes whose thunk's ExecuteMayBlock()
          SplitThreshold,  \* ExecuteSession::split_threshold
          MaxWorkers       \* ExecuteSession::max_workers

ASSUME SessionAssumption == SplitThreshold \in Nat /\ MaxWorkers \in Nat
ASSUME QueueTypesAssumption == QueueTypes \subseteq {"fifo", "lifo", "priority"}

VARIABLES
  options,   \* the queue type of the executor, the runner of the parameters
  tasks,     \* the calls of Execute that are running or offloaded
  joined     \* thunks whose continuation holds a session lock

taskVars == <<options, tasks, joined>>
vars == <<execVars, taskVars>>

NoNode == -1

\* node: popped and not done with; at: where the task is in its loop; lock: it
\* holds a session lock.
NewTask(q, l) == [node |-> NoNode, at |-> "loop", queue |-> q, lock |-> l]

\* ExecuteSession: the workers are the copies of the session's lock.
NumWorkers == Cardinality({t \in tasks : t.lock}) + Cardinality(joined)
-----------------------------------------------------------------------------
(* The three ready queues.                                                 *)

\* NodeDef::priority, the number of nodes reachable from a node.
Priority(n) == Cardinality(Reachable(n))

\* Positions of the nodes Pop may return.
PopPositions(q) ==
  CASE options.queue = "fifo" -> {1}
    [] options.queue = "lifo" -> {Len(q)}
    [] options.queue = "priority" ->
         {i \in DOMAIN q : \A j \in DOMAIN q : Priority(q[j]) <= Priority(q[i])}

\* The elements of a set of numbers in increasing order, and the nodes of q at
\* the positions in I in their order: sets with one member each.
Increasing(S) ==
  {p \in [1 .. Cardinality(S) -> S] : \A a, b \in DOMAIN p : a < b => p[a] < p[b]}
At(q, I) == {[k \in DOMAIN p |-> q[p[k]]] : p \in Increasing(I)}

\* Positions of the nodes PopHalf may leave to the current task: the older
\* half of a FIFO queue, the newer half of a LIFO queue, the nodes with the
\* highest priorities.
KeptPositions(q) ==
  CASE options.queue = "fifo" -> {1 .. Len(q) \div 2}
    [] options.queue = "lifo" -> {Len(q) \div 2 + 2 .. Len(q)}
    [] options.queue = "priority" ->
         {I \in SUBSET DOMAIN q :
            /\ Cardinality(I) = Len(q) \div 2
            /\ \A i \in I, j \in DOMAIN q \ I : Priority(q[j]) <= Priority(q[i])}
-----------------------------------------------------------------------------
\* Execute is called with the source nodes, by a thread that is not counted
\* as a worker of the session.
Init ==
  /\ ExecInit
  /\ options \in [queue : QueueTypes, runner : Runners]
  /\ \E q \in Increasing(Source) : tasks = {NewTask(q, FALSE)}
  /\ joined = {}

Goes(t, u) == tasks' = (tasks \ {t}) \cup {u}

\* Back at the head of the loop a task with an empty queue returns, and its
\* session lock is released.
Loops(t) ==
  IF t.queue = <<>> THEN tasks' = tasks \ {t}
                    ELSE Goes(t, NewTask(t.queue, t.lock))

\* The node whose edge is dropped joins the queue of the task if that was
\* its last edge.
DropEdgeOf(t) ==
  /\ todo[t.node] # {}
  /\ DropEdge(t.node)
  /\ IF Ready(t.node)
       THEN Goes(t, [t EXCEPT !.queue = Append(@, NextEdge(t.node).to)])
       ELSE UNCHANGED tasks
  /\ UNCHANGED <<options, joined>>

\* A queue that is long enough is split before the popped node is executed.
Splits(q) == options.runner /\ Len(q) > SplitThreshold
Popped(q) == IF Splits(q) THEN "splitting" ELSE "popped"

Pop(t) ==
  /\ t.at = "loop"
  /\ \E i \in PopPositions(t.queue) :
       LET q == RemoveAt(t.queue, i)
       IN  Goes(t, [t EXCEPT !.node = t.queue[i], !.at = Popped(q), !.queue = q])
  /\ UNCHANGED <<execVars, options, joined>>

\* The comparison of TryJoin: the lock is copied later, so that two tasks may
\* both pass it and exceed the limit.
TryJoin(t) ==
  /\ t.at = "splitting"
  /\ Goes(t, [t EXCEPT !.at = IF NumWorkers < MaxWorkers THEN "joining" ELSE "popped"])
  /\ UNCHANGED <<execVars, options, joined>>

SplitReadyQueueMutant(t) ==
  /\ t.at = "joining"
  /\ \E I \in KeptPositions(t.queue) :
       \E given \in At(t.queue, DOMAIN t.queue \ I) :
         tasks' = (tasks \ {t}) \cup
                    {[t EXCEPT !.at = "popped"], NewTask(given, TRUE)}
  /\ UNCHANGED <<execVars, options, joined>>
SplitReadyQueue(t) ==
  /\ t.at = "joining"
  /\ \E I \in KeptPositions(t.queue) :
       \E kept \in At(t.queue, I), given \in At(t.queue, DOMAIN t.queue \ I) :
         tasks' = (tasks \ {t}) \cup
                    {[t EXCEPT !.queue = kept, !.at = Popped(kept)],
                     NewTask(given, TRUE)}
  /\ UNCHANGED <<execVars, options, joined>>

MustOffload(t) == t.node \in MayBlock /\ t.queue # <<>> /\ options.runner

OffloadBlocking(t) ==
  /\ t.at = "popped" /\ MustOffload(t)
  /\ tasks' = (tasks \ {t}) \cup {NewTask(t.queue, t.lock), NewTask(<<t.node>>, TRUE)}
  /\ UNCHANGED <<execVars, options, joined>>

StartThunk(t) ==
  /\ t.at = "popped" /\ ~MustOffload(t)
  /\ Start(t.node)
  /\ Goes(t, [t EXCEPT !.at = IF abort THEN "completing" ELSE "running"])
  /\ UNCHANGED <<options, joined>>

\* Execute of the thunk returns an available event, or one that is not.
ThunkReturns(t) ==
  /\ t.at = "running"
  /\ \/ /\ \E r \in {"ok", "error"} : ReturnAvailable(t.node, r)
        /\ Goes(t, [t EXCEPT !.at = "completing"])
     \/ /\ ReturnAsync(t.node)
        /\ Goes(t, [t EXCEPT !.at = "scheduling"])
  /\ UNCHANGED <<options, joined>>

\* With an empty queue the task gives its session lock to the continuation
\* and ends, otherwise the continuation joins the session.
AttachContinuation(t) ==
  /\ todo[t.node] = {}
  /\ Attach(t.node)
  /\ joined' = IF t.lock \/ t.queue # <<>> THEN joined \cup {t.node} ELSE joined
  /\ Loops(t)
  /\ UNCHANGED options

ProcessScheduledOutEdges(t) ==
  /\ t.at = "scheduling"
  /\ \/ todo[t.node] # {} /\ ~inc[t.node] /\ IncPending(t.node) /\ UNCHANGED taskVars
     \/ inc[t.node] /\ DropEdgeOf(t)
     \/ AttachContinuation(t)

ProcessCompletedOutEdges(t) ==
  /\ t.at = "completing"
  /\ \/ DropEdgeOf(t)
     \/ /\ todo[t.node] = {}
        /\ Settle(t.node)
        /\ Loops(t)
        /\ UNCHANGED <<options, joined>>

\* The execute event of a thunk that had not completed becomes available.
CompleteThunk(n) ==
  /\ phase[n] \in {"scheduling", "async"} /\ thunk[n] = "running"
  /\ \E r \in {"ok", "error"} : ThunkDone(n, r)
  /\ UNCHANGED taskVars

ResumeThunk(n) ==
  /\ phase[n] = "async" /\ Finished(n)
  /\ Continue(n)
  /\ tasks' = tasks \cup {[NewTask(<<>>, n \in joined) EXCEPT !.node = n,
                                                            !.at = "completing"]}
  /\ joined' = joined \ {n}
  /\ UNCHANGED options

Execute(t) ==
  \/ Pop(t) \/ TryJoin(t) \/ SplitReadyQueue(t) \/ OffloadBlocking(t)
  \/ StartThunk(t) \/ ThunkReturns(t) \/ ProcessScheduledOutEdges(t) \/ ProcessCompletedOutEdges(t)

Next ==
  \/ \E t \in tasks : Execute(t)
  \/ \E n \in Node : CompleteThunk(n) \/ ResumeThunk(n)

Spec == Init /\ [][Next]_vars

\* Threads are scheduled, the task runner runs what it is given, and every
\* thunk that was started completes.
FairSpec == Spec /\ WF_vars(Next)
-----------------------------------------------------------------------------
TypeOK ==
  /\ edges \in Graphs
  /\ counter \in [Node -> 0 .. NumThunks]
  /\ pending_nodes \in 0 .. NumThunks
  /\ execute_event \in {"pending", "ok", "error"}
  /\ options \in [queue : QueueTypes, runner : Runners]
  /\ \A t \in tasks :
       /\ IF t.at = "loop" THEN t.node = NoNode /\ t.queue # <<>> ELSE t.node \in Node
       /\ Range(t.queue) \subseteq Node
       /\ t.lock \in BOOLEAN

\* The tasks and their queues are a schedule of ExecuteState: no node is handed
\* to two tasks or processed before its counter is zero (the DCHECKs of Execute,
\* ProcessScheduledOutEdges, ProcessCompletedOutEdges).  This is a safety
\* refinement: a node that PopHalf loses is a step that never comes, which
\* ExecutionCompletes sees.
QueuesFollowState == ExecSpec

\* Nor is the session or the executor used after the event: no continuation is
\* left, and a task can only return, with an empty queue.
NothingUsedAfterEvent ==
  execute_event # "pending" =>
    /\ joined = {}
    /\ \A t \in tasks : t.queue = <<>> /\ t.at = "completing" /\ todo[t.node] = {}

\* The execution ends, also when a thunk fails, the session has no free worker
\* or there is no task runner.
ExecutionCompletes == <>(execute_event # "pending")
=============================================================================
