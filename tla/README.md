# Verification of XLA's coordination and runtime concurrency

This directory holds TLA+ models of the parts of XLA in which processes or
threads agree on something: the coordination service of a distributed job
(`xla/pjrt/distributed/`), the concurrent executor of the CPU runtime
(`xla/backends/cpu/runtime/`, `xla/runtime/`) and the in-process rendezvous
(`xla/service/rendezvous.*`); TLC configurations that check them on small
instances, and TLAPS proofs of their main properties for all instances.

XLA is mostly a compiler: long sequential passes over an IR, whose correctness
is an equivalence of programs. What it has in concurrent and distributed
protocol state sits in a few places. The one every multi-process job depends on
is the **coordination service**: process 0 runs it, every process runs an agent
of it, and it decides who is in the cluster, who has failed, when everybody may
go on, and who hears about an error. Inside a process, the **thunk executor**
decides when each operation of a compiled program may run, and a **rendezvous**
is where the threads of the devices meet before they do something together.

## Inventory

### Parts, state, operations

| part | source (`xla/...`) | state | operations |
|---|---|---|---|
| coordination service | `pjrt/distributed/coordination/coordination_service.{h,cc}` | per task: state, status, incarnation, last heartbeat, barriers joined; per barrier id: counter, passed, result, participants, pending count, stored callbacks, deadline; error polling; pending GetAliveTasks calls; version number and waiting WatchTasks calls; all under `state_mu_` | register, shutdown, reset, report error, heartbeat, barrier, cancel barrier, poll for error, get alive tasks, watch tasks, stop; a thread that checks heartbeats and deadlines every second |
| key-value store | `.../coordination/key_value_store.{h,cc}` | map, callbacks waiting for keys; its own `mu_` | put, get, increment, list, delete, delete prefix, add callback, destructor |
| coordination agent | `.../coordination/coordination_service_agent.{h,cc}` | connection state, status, barrier counters, ongoing barriers, heartbeat thread, polling call, `shutting_down_` | connect (with retries), heartbeat loop, error polling loop, barrier, cancel, shutdown, key-value calls |
| RPC layer | `.../coordination_service_rpc_handler.cc`, `grpc_*` | none beyond the calls in flight | checks the service incarnation, forwards |
| runtime client, service | `pjrt/distributed/{client,service,distributed}.cc` | configuration | wrappers |
| topology exchange | `pjrt/distributed/topology_util.cc` | keys in the store | publish, collect, merge |
| preemption sync | `pjrt/distributed/preemption/` | call counter, sync point | agree on a step |
| AsyncValue and futures | `tsl/concurrency/` | atomic state, lock-free waiter list, reference count | construct, set error, and-then, forward |
| execution graph | `runtime/execution_graph.*`, `buffer_use.cc`, `resource_use.cc` | edges of two kinds, priorities; a search stack while it is built | create, reduce |
| CPU thunk executor | `backends/cpu/runtime/thunk_executor.*` | per execution: an atomic counter per thunk, `pending_nodes`, `abort`, the event; per task a ready queue; the session's workers | execute, split, offload, process scheduled and completed out edges, resume |
| rendezvous | `service/rendezvous.*` | map of rounds; per round two atomic counters, values, `ready`, result; the flag | join, publish, invoke, wait, time out, join and leave the flag |
| GPU cliques | `backends/gpu/collectives/gpu_cliques.cc` | communicators | acquire, initialize |
| PJRT buffers | `pjrt/*tracked_device_buffer.cc`, `common_pjrt_client.cc` | holds | acquire, convert, donate |
| compiler | `hlo/`, `service/`, `codegen/`, ... | an IR module | passes |

`PROJECT.json` lists every part with the reason where one is not modelled.

### Interactions

Agents call the service by RPC; answers come back when a callback is invoked,
often much later and from the handler of somebody else's request. Handlers of
the service call each other under one lock: an error of a task makes its
barriers fail, a failed register or shutdown barrier fails all tasks, an error
goes out through the pending error polls. The key-value requests do not take
that lock; they only meet in the store's own one. Topology exchange and
preemption sync are clients of the store and of barriers.

A program's thunks become an execution graph once; every execution walks it with
the threads of a task runner, the threads that complete asynchronous thunks and
the caller's own, which share nothing but atomic counters and one event. What
the graph has erased, the executor cannot respect any more: the two are correct
only together. Collective thunks and the setup of their communicators meet in
rendezvous with the same threads of other devices.

### What is hard

- A step of one task can end calls of all the others, and what it ends is kept
  in several records (pending count, participants, callbacks, two indexes of
  ongoing barriers) that different functions update.
- Tasks restart under the same id with another incarnation while calls of the
  old incarnation are still stored.
- RPCs are delayed or repeated: calls with old counters arrive during or after
  a newer instance of the barrier.
- Timeouts race with arrivals, cancellations and failures.
- Callbacks that wait for a change can miss it: blocking reads of a key,
  WatchTasks, GetAliveTasks.
- Deleting a directory takes two critical sections.
- The thunk executor takes no lock: whether a thunk is ready, whether the
  execution is over and who says so follow from the order of atomic increments
  and decrements on different threads, and after the last one the memory they
  live in may be gone.
- The reduction of the graph erases edges while it searches it, with one visited
  set for several searches and two kinds of edges of different strength.
- A rendezvous reads variables on other threads' stacks and starts the next
  round with the same key before the last one is left by all.

The list with lines is in `PROJECT.json` under `hazards`, each with the
properties that cover it.

### What makes the parts correct

- *Barriers.* The records agree; all participants are released together or none
  is; nobody is released on behalf of a connection that has ended; every stored
  call is answered, once it stops waiting and eventually.
- *Fate sharing.* Without recoverable tasks an error reaches everybody and no
  barrier waits for a task in error.
- *Observers.* A client with the current version holds the current state; a
  GetAliveTasks call waits for somebody; the incarnations it returns should have
  called (they need not: see the findings).
- *Agents.* Calls return; an agent that is released has synchronized with all the
  others; its counters never run ahead of the service; it learns of errors.
- *Store.* No lost wake-up, waiters get the current value, deletions are
  complete.
- *Execution graph.* Every conflict is still ordered by what the reduction has
  left; what is left is minimal; priorities count dependents.
- *Graph and executor together.* Operations that share a byte one of them writes
  run in program order; collectives start in program order.
- *Thunk executor.* Every thunk runs once and in order, ordered thunks never
  overlap, the event fires once, with the right outcome, when nothing is running
  or going to use the execution's state any more; the execution ends.
- *Rendezvous.* One result per round, of the values of exactly its participants,
  for all of them; all or none skip a round; nobody leaves early, all return.

## Modules

| module | what it is |
|---|---|
| `CoordinationService` | the service: state, handlers, staleness thread, clock, properties |
| `MCCoordinationService` | instances of it for TLC |
| `CoordinationServiceProofs` | the inductive invariant of the service with the invariants it contains, and what the service promises its callers, for all instances |
| `CoordinationAgent` | the agents of the tasks and their RPCs; extends and drives `CoordinationService` |
| `MCCoordinationAgent` | instances of it for TLC |
| `CoordinationAgentProofs` | barriers synchronize the agents, their counters never run ahead, they keep to the protocol the service relies on, and what the service promises holds in the composition, for all instances |
| `KeyValueStore` | the store with the key-value methods of the service |
| `MCKeyValueStore` | instances of it for TLC |
| `KeyValueStoreProofs` | types, wake-ups, answers and deletions, for all instances |
| `ExecutionGraph` | conflicts, edges, the transitive reduction step by step |
| `ExecutionGraphProofs` | order, minimality and priorities, for programs of any length |
| `ThunkSchedule` | what `ThunkExecutor::Execute` promises: the abstract specification |
| `ExecuteState` | the counters of one execution; implements `ThunkSchedule` |
| `ThunkExecutor` | tasks, ready queues, task runner and session; extends and implements `ExecuteState` |
| `MCThunkExecutor` | graphs for TLC |
| `ExecuteStateProofs`, `ThunkExecutorProofs` | the two refinements and the safety invariants, for all instances |
| `ThunkSequence` | a program from its graph to the end of its execution; composes `ExecutionGraph` and `ExecuteState` |
| `MCThunkSequence` | programs for TLC |
| `ThunkSequenceProofs` | concurrent execution of a program keeps its order where operations can tell, for all programs |
| `Rendezvous` | `Rendezvous`, `RendezvousMap`, `RendezvousFlag` |
| `MCRendezvous` | programs of threads for TLC |
| `RendezvousProofs` | all safety properties of the rendezvous, for any threads, keys and programs |

Definitions ending in `Mutant` are deliberately wrong variants of the definition
that follows them. Nothing uses them; they exist to show that a property fails
when the code is wrong in that way.

### CoordinationService

Variables stand for the members named in their comments. Each handler holds
`state_mu_` from beginning to end, so each is one action: `RegisterTaskAsync`,
`ShutdownTaskAsync`, `ResetTask`, `ReportTaskError`, `RecordHeartbeat`,
`BarrierAsync`, `CancelBarrier`, `PollForErrorAsync`, `GetAliveTasksAsync`,
`WatchTasks`, `Stop`, and `RejectAfterStop` for requests after it
(`GetAliveTasks` and `WatchTasks` do not check `ServiceHasStopped` and go on as
before). `Stop` fails the ongoing barriers through the same operators as every
other handler, answers what is left and then clears the maps.
`CheckStaleness` is one round of the staleness thread, which checks heartbeats
and barrier deadlines without releasing the lock in between. `Clock` lets one
heartbeat timeout, barrier deadline or grace period end.

*The cascade.* `SetTaskError`, `LeaveOngoingBarriers`, `PassBarrier` and
`SetAllTasksError` call each other. The model does not replay the recursion. A
handler describes what it does itself as a record `d` (which tasks it puts in
error, connects or disconnects, which barriers it starts or passes, which calls
it stores) and `Settle(d)` states the outcome of the recursion: `Errors(d)` are
the tasks that end in error, `Passed(d, err)` the barriers that pass, `Left` the
tasks taken off a barrier in a recoverable job. This is sound because the
recursion only goes from tasks to barriers to all tasks to all barriers, and a
barrier or task it has handled is not handled again. Two outcomes do depend on
the order in which hash maps are walked, and are chosen nondeterministically: the
task list of a GetAliveTasks answer given while several tasks fail or disconnect
one after the other (`RefreshAliveness`), and, when the staleness thread or `Stop`
fails the register barrier and others of a recoverable job together, whether a
task in one of the others is told that the barrier failed or that it has left it
(`MayBeLate`).

*Abstractions.* A status is `ok`, `cancelled` or `failed`, and for a task
`unavailable` where the code tells a lost heartbeat from other errors. Times are
three sets (`stale`, `overdue`, `grace`). The fields of a barrier that has
passed and that nothing reads before `InitializeBarrier` resets them are
cleared when it passes. `callInc` is the incarnation for which a call was stored:
the callback of a registration captures it, for other calls it is the one the
service knew of the caller. A reported error may be `UNAVAILABLE` or another one,
which decides whether a recoverable task may register again. `HasConnected` is the one assumption on callers: an agent shuts down
or polls only once it has been connected; the agent's methods check this, and
that it follows in the composition is a theorem (`ProtocolIsKept`).
A caller of a barrier may pass any counter up to the bound and any of the
participant lists, including one with an unknown task.

### CoordinationAgent

The module extends `CoordinationService` and composes it with one agent per
task. A step of the whole is a step of the service, taken for a request that is
in flight (`HandleRpc`, `HandleHeartbeat`, `HandlePoll`, `HandleCancel`) or on
its own account (`ServiceRuns`, `TimePasses`), or a step of an agent during
which the service is idle.

Each agent has the user's thread, which makes one blocking call at a time
(`user`), the heartbeat thread (`heartbeat`) and the error poll (`poll`); a
second user thread may cancel the barrier the first one waits at (`cancel`).
The RPC of a blocking call is `sent`, handled and perhaps kept waiting in the
service (`served`), and `answered`. `RpcAfter` and `PollAfter` are the callbacks:
they turn what a step of the service replied (`replies'`) into answers, since a
step made for one task may answer the calls of all. `RpcFails` makes a call fail
for the client in any of these phases. A heartbeat is sent and handled in one
step; one in flight is only told apart by `shutting_down_`, which the thread
reads again after a failure. `Crash` loses the process and all it knows, while
the service keeps what it has stored for it; `Restart` brings it back with a new
incarnation.

The job is configured as `GetDistributedRuntimeService` does by default: register
and shutdown barriers, no recoverable tasks (`JobAssumption`). `requested` is a
history variable. `MaxIncidents` bounds the crashes, failed RPCs, repeated
registrations and cancellations of a behaviour together.

Not in the module: requests that the service handles after the client has given
up on them, a restart of the service, a second concurrent barrier call of an
agent, Shutdown while another thread waits at a barrier, Connect after Shutdown,
and the key-value, WatchTasks and GetAliveTasks calls.

### KeyValueStore

A key is the sequence of names between its slashes, and `NormalizeKey` drops
the empty ones. Each method of the store is one step under `mu_`.
`DeleteKeyValue` is two steps, `Delete` and `DeletePrefix`, with other callers
in between. `IncrementBy` parses into a 32-bit `int` and stores a 64-bit sum:
`MinInt .. MaxInt` is the range of the former, scaled down. `written` is an
auxiliary variable, read by `DeletionIsComplete` only.

### ExecutionGraph

An operation is its buffer uses and resource uses. `AllEdges` are the edges
`Create` adds for every pair with a conflict, `SearchOutEdge`, `VisitNode` and
`FinishSource` the three levels of the loop of
`RunTransitiveReductionAndUpdatePriorities`. The builders' in edges and out edges
are the same set here (the DCHECKs of `EraseEdge` say so in the code). The
sorted vectors of edges are listings of a set by id (`ById`). Counting scheduling
edges on the stack is a look at the stack.

### ThunkSchedule, ExecuteState, ThunkExecutor

Three layers, each shown to implement the one before.

- `ThunkSchedule` has sets of started, finished and failed thunks and the event.
- `ExecuteState` has the counters. `phase` says where the thread that has popped
  a node is with it, `todo` which out edges its loop has still to process; a step
  is what happens between two atomic operations. It does not say which thread
  takes it. `Schedule` is the refinement mapping.
- `ThunkExecutor` has the calls of `Execute` that are running or handed to the
  task runner (`tasks`), each with its queue and the node it has popped, and the
  session locks they and the continuations hold. Its steps are those of
  `ExecuteState`, taken by a task, and steps between them that only move nodes
  from queue to queue.

A queue is a sequence for all three types; the priority queue picks any node of
the highest priority, as ties are not specified. A thunk is external: it returns
an available event, with or without an error, or one that becomes available
later, at any moment, even before the continuation is attached. The relaxed read
of `abort` may be late in the C++ memory model; that is the same as a thread that
is between this read and the call of the thunk, which the interleaving allows.
Counters are read and written in the order the code's acquire and release
operations give.

### ThunkSequence

The graph and the execution together: `Create` is a step of the reduction,
`Execute` constructs the `ExecuteState` over the reduced edges, `Process` is a
step of a thread. Executions of an executor share the graph and nothing else, so
one is followed. The module uses `ExecuteState`, of which `ThunkExecutor` is an
implementation, so what is shown here carries over to tasks and queues. A program
that the code runs sequentially (a chain, or small buffers) is executed
concurrently here, which allows more.

The properties are stated in terms of the program: `NoDataRaces` speaks of the
bytes that slices cover (`Bytes`), not of `OverlapsWith`, conflicts or edges, and
`CollectivesStartInOrder` of uses of a communicator.

### Rendezvous

`calls` is the program of every thread: a sequence of calls with a key, the
number of threads and whether a flag is used. The number of threads that call
with a key at the same time is the caller's obligation, and the programs meet
it (`ProgramsAssumption`): the *i*-th calls with a key of all threads are a round
(`Together`), and a round has no more than `num_threads` calls, with the same
arguments. It may have fewer; then its calls wait or the process ends. Rounds live in `states`; a state is shared by the threads that hold it
(`UseCount`). A value is a pointer to a variable of the caller: reading it gives
the thread and the call it is in at that moment, so a leader that read it too
late would see another call. `TryJoin` and the destructor of the flag are single
steps, as their compare-and-swap loops retry until nothing has changed.
Acknowledging and the first `SignalAll` are one step: that signal only makes
waiters look again. `Timeouts` allows the two timeouts of `AwaitAndLogIfStuck`
to expire at any moment; after the second one the process ends.

## Runs

Passing runs of the service use two tasks, the smallest cluster in which one
task waits for, fails and outlives another. Every handler treats tasks alike
apart from the caller, and no record relates three tasks, so a third adds
interleavings but no new kind of step; the safety properties are also proved for
any number. `MaxIncarnation = 2` gives one restart, `MaxCounter` bounds the
instances of a barrier id. `Rpcs` selects the requests a run issues, so that
each run covers one question exhaustively within minutes.

| run | question |
|---|---|
| `service_barriers` | One client barrier id, three instances, four participant lists (all, one task, both, one unknown), cancellation, timeouts and disconnects, fate sharing: do the records agree and are participants released together, and is every call of the client barrier answered in the end (`BarrierCallsEnd`, under `FairSpec`; that registrations and shutdowns end is checked in `agents_liveness`)? |
| `service_lifecycle` | Fate sharing with register and shutdown barriers, one restart, heartbeats, one client barrier, error polling, Stop: does no barrier wait for a failed task, is every barrier call and error poll answered that stops waiting, and does an error reach all? |
| `service_recoverable` | Recoverable tasks that fail, restart and rejoin, with GetAliveTasks, WatchTasks and Stop: the calls of a connected task leave their barriers when its connection ends (`CallsEndWithConnection`; not those made while not connected, see below), the arrivals that are undone are counted again so that participants are still released together, a GetAliveTasks call waits for somebody, a waiting registration is the current one and no update is missed. |
| `agents` | Two agents without error polling, two instances of a barrier, two incidents, one restart per task: is a released task synchronized with the others, and do its counters never run ahead? |
| `agents_liveness` | Two agents with error polling, one incident, no client barrier: do Connect and Shutdown return (`CallsReturn`; that a `WaitAtBarrier` ends rests on `BarrierCallsEnd` of `service_barriers`), can every request be answered, do agents learn of errors and of the death of others? |
| `store` | Two callers, four keys of which three are nested, one in an unusual spelling, text and numbers that leave the range of `int`. |
| `thunk_sequence` | All programs of five operations out of seven (reads and writes of overlapping slices, collectives, a token), and two chosen ones that are also executed: is every conflict still ordered after every single step of the reduction, is the result minimal for execution edges, are priorities the numbers of dependents, and does the execution have no data race and start collectives in order? |
| `thunk_executor` | All graphs over three thunks followed by a sink, and four larger ones in which a thunk unlocks three others, branches of both kinds join, or a scheduling chain bypasses an execution edge; three queues, with and without a runner, two workers, split threshold 0 (as in `thunk_executor_test.cc`), thunks that block, finish late or fail. Checks both refinements and that the execution ends. |
| `rendezvous` | Up to four threads: back-to-back rounds on one key, groups that overlap, three threads with late waiters, consecutive rounds under a flag, two groups that share a flag, timeouts and failing functions. |

Deadlock is checked in all service runs. In the store the destructor ends every
behaviour, and a job of agents ends when all have shut down. The agents' runs
are large because every thread of every agent interleaves with the service's
clock: client barriers and error polling are therefore split between the two.
The second barrier instance is what a lost answer or a wrong counter needs to do
harm, and two incidents let a failed call and a crash or a cancellation meet.
Four operations are the least for which an edge is erased for a path that begins
and ends with execution edges and has a scheduling edge in the middle, and the
fifth is one more collective after it: `MixedPath`. It and `Overlaps`, in which slices begin
before the ones they overlap, are the programs that are executed (`Executed`); to
execute all 7^5 is out of TLC's reach, and what it would show is proved.
An execution ends with its event and a rendezvous program with its last call, so
deadlock is not checked there; `ExecutionCompletes` and `AllReturn` say more.
Four thunks are enough for a node with two in edges from different tasks while a
third task is under way; three threads are the least with a waiter that is woken
by an arrival that is not the last one, three rounds let a thread be two calls
ahead under a flag, and the proofs hold for any number.

*Fairness.* `FairSpec` assumes that the staleness thread keeps running
(`WF(CheckStaleness)`: it is a loop with a one-second wait that ends only at
Stop) and that deadlines pass (`WF` of `DeadlinePasses` per barrier: time goes
on). Nothing is assumed of clients: they may stop calling at any moment.
`AgentFairSpec` adds that the agents' threads run, that a request in flight is
handled or fails, that an answered call returns, and that a task without a
heartbeat thread eventually counts as silent. It does not assume that users call
anything, that processes are restarted, or that RPCs succeed. Its conjuncts have
the form `[]<>~guard`, which is weak fairness for an action that makes its own
guard false; TLC evaluates it much faster than `ENABLED`. It would be too strong
if an action were blocked while its guard holds: for the service's actions
`RequestsCanBeHandled` checks that they are not, and the agents' own actions have
no condition but the guard.
`FairSpec` of `ThunkExecutor` is weak fairness of its `Next`: something that can
happen happens, that is, threads are scheduled, the runner runs its tasks and
started thunks complete. As every step makes progress through the graph, this is
enough. `FairSpec` of `Rendezvous` is weak fairness per thread: every thread
makes its calls, which is what a rendezvous asks of its callers; timeouts may
happen or not.

### Disagreements between comments and code

Three runs are expected to end in a violation. Each checks what a comment says
and shows a behaviour of the code that is different.

| run | what it shows |
|---|---|
| `agent_cancel` | An agent's cancellation carries no counter: only the first instance of a barrier id can be cancelled, a later one goes on. |
| `alive_stale_incarnation` | GetAliveTasks returns a new incarnation that has not called, on the strength of its predecessor's call. |
| `store_counter_overflows` | A counter past the range of `int` cannot be incremented any more. |

Smaller observations made while modelling, without a run of their own:

- a late call with another counter, or with other participants, makes
  `FailBarrierWithCounterMismatch` or `ValidateTaskArgs` pass a barrier again that
  has passed with OK (`coordination_service.cc:1119`): who asks again gets the
  error, although `coordination_service.h:202-204` promises the previous response;
- with a register barrier, a recoverable task that registers again while it is
  not CONNECTED keeps the barrier calls that its previous incarnation made while
  it was not connected (`coordination_service.cc:462-482`, "There is no state that
  needs to be cleaned up"), so that such a barrier may pass on behalf of the old
  incarnation. `CallsEndWithConnection` therefore speaks of connected tasks;
- a task that calls the shutdown barrier after it has failed is disconnected and
  its next incarnation may connect (`RepeatBarrierResult`), although
  `CompleteShutdownAfterBarrier` sets all tasks to error "to prevent unexpected
  connections from restarted tasks";
- a barrier cancelled before the first call reaches the service answers later
  calls with an argument error and not with CANCELLED
  (`coordination_service.cc:1138-1172`, `ValidateTaskArgs`);
- a process that does not poll for errors in a job in which another one does is
  never told of the failure of a third: once anybody has polled, errors only go
  to the pending polls;
- a call of `WaitAtBarrierAsync` that finds the agent shut down leaves its id in
  `ongoing_barriers_` (`coordination_service_agent.cc:815-818`);
- the error poll's callback and a late heartbeat failure may put an agent in
  ERROR after Shutdown has set it to DISCONNECTED;
- `Stop` does not answer pending GetAliveTasks calls, unless it aborts a register
  or shutdown barrier, which fails the tasks they wait for; and a `WatchTasks` call
  with the current version that comes after `Stop` is stored and never answered.
  `NoCallIsDropped` is about barrier calls and error polls only;
- `GetKeyValueDir` of the root asks for the prefix `/`, which no normalized key
  has;
- the comment in the reduction says that an execution edge may not be erased for
  a path with a scheduling edge in it; the code also erases it when only the edges
  seen last are execution edges. No order is lost: if the path *begins* with an
  execution edge, the first operation has completed before anything later on the
  path starts (`ConflictsStayOrdered`, `OrderedThunksNeverOverlap`). In the other
  direction, with edges of both kinds some redundant edges are kept;
- `is_sequential_` is documented as "every node depends on the completion of the
  previous node" and counts scheduling edges too (`execution_graph.cc:86-91`);
- `rendezvous.h:62-64` says that a rendezvous that reaches `terminate_timeout`
  returns an error to all participants; the code ends the process
  (`rendezvous.cc:152`). For the same reason no state in the map ever expires
  before its round completes, and the collection of expired states in `Join` has
  nothing to do;
- the timeout of a waiter starts again with every arrival (`rendezvous.cc:65`);
- a flag is completed by the last participant to leave also when the rendezvous
  function has returned an error: it is not tried again.

## Proofs

Every invariant and action property the passing runs check is also a theorem, for
all values of the constants, except `RequestsCanBeHandled`; liveness is not. The
theorems are listed in `PROJECT.json` with the property each one states.

*Assumptions* are the named `ASSUME`s of the modules. Service and store: the set
of tasks is finite and not empty, the unknown task is not in it, the reserved
barrier ids are distinct, the configuration flags are Booleans, arguments are
drawn from sets of tasks. Nothing bounds the number of tasks, barriers,
incarnations or instances. Agents: the configuration of `JobAssumption`, at least
one incarnation, and that the names of the stages of a thread are not barrier ids
(`NamesAssumption`). Graph: the number of operations is a natural number; their
uses, and so their conflicts, are arbitrary. Executor: there are at least two
thunks (shorter sequences do not get an `ExecuteState`; in `ThunkSequence` this is
`ManyOperationsAssumption`), edges lead from earlier
to later thunks and there is one for a pair of thunks (`OneEdgeAssumption`, what
`Create` adds); the graph, the queue types, the threshold and the number of
workers are arbitrary. Sequence: offsets and sizes of slices are natural numbers
(`SlicesAssumption`); which programs are executed is arbitrary. Rendezvous: fewer threads than the counter of the flag can
hold, and programs in which rounds are no larger than their `num_threads`
(`ProgramsAssumption`).

### Service

`TypeCorrect`, `BookkeepingCorrect`, `FateSharing` and `RegistrationCurrent` are
invariants that are inductive only together:

    IInv == TypeOK /\ Bookkeeping /\ Idle /\ Registering /\ StatusMeansError
              /\ NoBarrierWaitsForFailedTask /\ WaitingRegistrationIsCurrent

`Bookkeeping` needs `Idle`, as a new instance of a barrier starts from the fields
the last one left: an ongoing barrier is initialized and one that is not ongoing
has no pending tasks and no recorded arrivals. The registration needs
`Registering` (what is special about the register barrier: all tasks are its
members, nobody polls before it has passed) and `StatusMeansError` (only a task
in ERROR has an error status, so that a task that may register again is not
connected).

The argument follows the model. `Proper(d)` and `Careful(d)` say what a handler
guarantees of the effects `d` it hands to `Settle`, `Handled(d)` is both; the
`Settle...` lemmas show once that `Settle(d)` preserves `IInv` whenever `d` is
handled, whatever the cascade does; and `EveryStep` shows, one lemma per handler,
that every step is either `Settle(d)` with `Handled(d)` or one of the few that
touch no barrier. `num_pending_tasks` is related to the sets by lemmas on
cardinalities.

What the service promises follows from `ServiceStep`, the form of a step that
`EveryStep` establishes: each property has a lemma about `Settle(d)` and one about
the other steps (`StepAnswers`, `StepReleases`, `StepReaches` join the two).

- `CallsAnswered` (`NoCallIsDropped`), `BarrierReleasesAll` (`ReleasedTogether`),
  `ConnectionsTakeCalls` (`CallsEndWithConnection`) and `ErrorsReachAll`
  (`ErrorReachesAll`): action properties, from `IInv` and `Handled`. `WaitingAfter`
  says what is known of a call that still waits after a step.
- `AliveCallsWait` (`AliveCallWaitsForSomeone`) and `UpdatesNotMissed`
  (`NoMissedUpdate`): invariants, inductive relative to `IInv`.

### Agents

`AgentTypeCorrect`, `AgentNeverAhead`, `BarrierSynchronizes` and
`ServiceInComposition`. `AInv` adds to `IInv` what relates the two sides: an RPC
that is `served` is held by the service, a barrier call is in the history, an
answer for an instance means that the instance is over (`CallInv`); the tasks that
wait at a barrier have asked for its current instance or a later one, and if it
has passed with OK all tasks have (`JobBarrier`). A step of the composition
contains a step of the service, so `IInv` and the form of that step are taken from
the service's proofs. `AgentStep` says so for every action: in a step the service
is idle or takes a `ServiceStep`. With it the service's action properties hold in
the composition (`AgentCallsAnswered`, `AgentBarrierReleasesAll`,
`AgentErrorsReachAll`).

`ProtocolIsKept` discharges the service's assumption on its callers,
`HasConnected`; without it the theorems about the service would say nothing of a
job in which an agent shuts down or polls before its registration is through. The
invariant `KInv` needs both sides: an agent that is CONNECTED, shuts down, polls,
or is about to return from Connect with OK has been told so by the service
(`Confirmed`), and the service says so only when the register barrier has passed
with OK, which takes a registration of every task (`Connected`). A reply that is
OK, a task that is connected and a result that stays are facts about the same step
taken from different descriptions of it: from `Handled(d)`, and from the handler's
own record, which alone says whom it connects (`Progresses`).
`NobodyConnectsAlone` is the same invariant seen from the job: nobody is connected
before all have registered.

### Store

`WakeupCorrect`, `WaiterCorrect`, `DeletionCorrect`, `StoreTypeCorrect`. The
two-step deletion needs `Deletions`: between its steps the key itself is gone or
has been written again.

### Execution graph

`ReductionKeepsOrder`, `PrioritiesCorrect` and `ReductionMinimal` hold for all
programs. `Reachable` is a recursive function; that it satisfies its equation in
a graph whose edges go forward is itself proved (`ReachFix`, from the smallest set
closed under the edges), and induction over paths is replaced by the choice of the
last node that would be an exception (`LastNode`). The invariant `GInv` says in the
middle of a search:

- the out edges of the source not searched yet are its last ones (`RestInv`);
- every edge on the stack was reached along `out_edge` (`StackInv`);
- what is visited is reachable, and a visited node whose successors are not all
  visited is the target of an edge on the stack (`VisitedInv`);
- in a graph with execution edges only, edges of later nodes and those that were
  searched are needed, and an edge of the source to a visited node has its target
  on the stack, so that it will be erased (`MinimalInv`).

The central lemma is `OrdersSurvive`: an edge from the source to a node the search
has come to may go without loss of order, since the path that led the search there
does not use it, and begins with an edge of the kind of `out_edge`. It does not
matter that other edges were erased before or that the stack no longer holds the
whole path. Minimality rests on the order by id: a longer path to `e.to` begins
with an edge to a smaller node, which was searched before `e`.

### Thunk executor

- `CountersKeepSchedule`: `ExecSpec => KeepsSchedule`, with `OrderIsKept` and
  `NothingIsLeftAfterEvent`. The inductive invariant `ExecInv` ties the counters
  to the nodes: a node's counter is the number of in edges whose source has not
  processed them (`CounterInv`), `pending_nodes` is the number of nodes that have
  still to drop it (`PendingInv`), what each phase implies about thunk and edges
  (`NodeInv`), that `abort` follows from an error (`AbortInv`), and that a path
  that begins with an execution edge keeps its order (`OrderInv`). The step that
  needs an idea is that no node is left when `pending_nodes` reaches zero
  (`AllIsQuiet`): take the largest node that is not done; everything after it is
  done, so its out edges were processed or it has none, and in both cases it
  would still hold a pending count.
- `TasksFollowState`: `Spec => QueuesFollowState`, that is, the executor
  implements `ExecuteState`. `TasksInv` says that the nodes in the queues and the
  popped nodes of the tasks are, without repetition, exactly the nodes in the
  corresponding phases; splitting and popping rearrange them. As a refinement of
  a specification without fairness it rules out steps that are wrong, not steps
  that are missing: that no node is lost is `ExecutionCompletes`. The properties of
  `ExecuteState` follow for the executor (`ExecutorKeepsSchedule`,
  `ExecutorKeepsOrder`, `ExecutorLeavesNothing`), and with `JoinedInv`
  `ExecutorIsReleased`: after the event no task or continuation has anything left.
- `ExecutorTypeCorrect`: the counters never leave their range and no task is at
  the head of its loop with an empty queue; from the same two invariants.

### Thunk sequence

`SequenceHasNoDataRaces` and `SequenceOrdersCollectives` join graph and executor.
The graph's invariant `GInv` ends with a path between operations with a conflict,
one that begins with an execution edge where they must not overlap; the executor's
`ExecInv` begins with such a path. The invariant of the composition is `GInv`,
and, once the program is executed, that the reduction is over and `ExecInv` of the
reduced graph, which is one of those `ExecuteState` is proved for (one edge for a
pair, leading forward). What is left is arithmetic, that two slices which share a
byte overlap in the sense of `OverlapsWith`, and for collectives the induction
along the path: a node that ran comes after its predecessors have. The theorems of
`ExecuteStateProofs` are used through an instance, `P`, of that module.
`SequenceKeepsGraph` (`SequenceSpec => Spec`) says that the composition does
nothing to the graph that `ExecutionGraph` does not.

### Rendezvous

`RendezvousChecks`, `RendezvousAgrees`, `RendezvousSeesAll`,
`RendezvousWaitsForAll`. The difficulty is that the code knows no rounds: a round
is whatever threads find the same state in the map. `RInv` says of every thread
that holds a state that the holders of this state are calls of one round
(`Members`), that the two counters and the values count what these calls have done
(`Counters`), that the state is in the map as long as somebody of the round has
still to come and is out of it when the leader invokes the function (`InTheMap`),
that the ids of a rendezvous without a result are distinct (`Ids`), that there is
at most one leader, and that all others wait while it works (`Leader`), and what
`ready` implies (`Readiness`). Rounds do not mix because a thread can begin its
next call with a key only when its last one has returned, and that one returned
only after all calls of the round had come (`GotInv`). `FlagInv` counts the calls
in flight.

### Only model-checked

- `BarrierCallsEnd`, `CallsReturn`, `AgentsLearn`, `FateIsShared`,
  `ExecutionCompletes`, `AllReturn`: liveness under fairness, which is outside the
  prover's reach.
- `RequestsCanBeHandled`: it speaks about `ENABLED`, which is outside of it as
  well. The part of it that is about the agents, that a request meets the handler's
  guard, is `ProtocolIsKept`.

## Not modelled

- Log messages, error texts and payloads.
- Device and topology payloads, which the service stores as opaque values.
- The agent's methods listed as missing under `CoordinationAgent`. The service
  itself is checked against more general clients than the agents.
- Sequential execution of thunks (`ExecuteSequential`): one thunk after the other,
  with nothing to interleave. Nested executors share a session with their parent;
  the model has one executor with all of the session.
- Memory that the C++ memory model would let a thread see late, except where the
  sections above say what it amounts to.
- The compiler, code generation, the stream executor and the bindings: not state
  machines, or wrappers of code outside the repository.

## Plan

1. `CoordinationService`, `KeyValueStore`: done.
2. `CoordinationAgent`, composed with the service: core done. Left: requests
   handled late, Shutdown against pending calls, GetAliveTasks and the key-value
   calls through the agent, recoverable jobs, a restart of the service.
3. `ExecutionGraph`, `ThunkSchedule`, `ExecuteState`, `ThunkExecutor`, with both
   refinements and all safety properties proved, and `ThunkSequence`, which joins
   graph and execution: done.
4. `Rendezvous`, with all safety properties proved: done.
5. Theorems about service, store and agents: all safety properties the runs check
   are proved, those of the service that its agents can see also in the composition:
   done.
6. `AsyncValue` (the waiter list behind every event), `PreemptionSync` and
   `TopologyExchange` as clients of store and barriers, GPU cliques on top of
   `Rendezvous`.
