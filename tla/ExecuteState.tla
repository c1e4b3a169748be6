---------------------------- MODULE ExecuteState ----------------------------
(***************************************************************************)
(* ThunkExecutor::ExecuteState: the counters through which the threads     *)
(* that execute one thunk sequence agree on which thunk is ready and on    *)
(* when the execution is over.  Every step below is what one thread does   *)
(* between two atomic operations; which thread takes it, and out of which  *)
(* ready queue, is added by module ThunkExecutor.                          *)
(***************************************************************************)
EXTENDS Integers, FiniteSets

CONSTANTS NumThunks,  \* num_thunks_
          Graphs      \* the execution graphs that are executed

Node == 0 .. NumThunks - 1
Kind == {"scheduling", "execution"}
Edge == {e \in [from : Node, to : Node, kind : Kind] : e.from < e.to}

\* Shorter sequences are executed without an ExecuteState, and an edge leads
\* from an earlier thunk of the sequence to a later one.
ASSUME NumThunksAssumption == NumThunks \in Nat /\ NumThunks >= 2
ASSUME GraphsAssumption == Graphs \subseteq SUBSET Edge

\* ExecutionGraph::Create adds one edge, of one kind, for a pair of thunks.
ASSUME OneEdgeAssumption ==
  \A E \in Graphs : \A e, f \in E : e.from = f.from /\ e.to = f.to => e = f

VARIABLES
  edges,          \* execution_graph_
  counter,        \* ExecuteState::Node::counter
  pending_nodes,  \* ExecuteState::pending_nodes
  abort,          \* ExecuteState::abort, set together with abort_status
  execute_event,  \* "pending", "ok" (concrete) or "error"
  thunk,          \* the execute event of every thunk
  phase,          \* where the thread that has the node is in its processing
  todo,           \* out edges the loop over them has not reached
  inc             \* inc_pending_nodes: the node keeps the execution pending

execVars == <<edges, counter, pending_nodes, abort, execute_event, thunk,
              phase, todo, inc>>

Out(n) == {e \in edges : e.from = n}
In(n) == {e \in edges : e.to = n}
Scheduling(n) == {e \in Out(n) : e.kind = "scheduling"}
Execution(n) == {e \in Out(n) : e.kind = "execution"}
Source == {n \in Node : In(n) = {}}
Sink == {n \in Node : Out(n) = {}}

\* The nodes that come after n in the graph.
Reachable(n) ==
  {m \in Node : \A S \in SUBSET Node :
     /\ \A e \in Out(n) : e.to \in S
     /\ \A e \in edges : e.from \in S => e.to \in S
     => m \in S}

Ran(n) == thunk[n] \in {"running", "ok", "error"}
Finished(n) == thunk[n] \in {"ok", "error"}

\* The constructor of ExecuteState: a counter per node, one pending node per
\* sink; the ready queue of the first thread holds the source nodes.
ExecInit ==
  /\ edges \in Graphs
  /\ counter = [n \in Node |-> Cardinality(In(n))]
  /\ pending_nodes = Cardinality(Sink)
  /\ abort = FALSE
  /\ execute_event = "pending"
  /\ thunk = [n \in Node |-> "idle"]
  /\ phase = [n \in Node |-> IF n \in Source THEN "ready" ELSE "blocked"]
  /\ todo = [n \in Node |-> {}]
  /\ inc = [n \in Node |-> FALSE]
-----------------------------------------------------------------------------
(* The effect of each step of Execute on a node it has popped.             *)

\* A loop over the out edges begins.
Enter(n, p, es) ==
  /\ phase' = [phase EXCEPT ![n] = p]
  /\ todo' = [todo EXCEPT ![n] = es]

\* Execute: the thunk is executed, or treated as completed after an error.
Start(n) ==
  /\ IF abort
       THEN /\ thunk' = [thunk EXCEPT ![n] = "skipped"]
            /\ Enter(n, "completing", Out(n))
       ELSE /\ thunk' = [thunk EXCEPT ![n] = "running"]
            /\ phase' = [phase EXCEPT ![n] = "running"]
            /\ UNCHANGED todo
  /\ UNCHANGED <<edges, counter, pending_nodes, abort, execute_event, inc>>

\* The thunk's event is available when Execute returns it: the error is
\* recorded and all the out edges are processed.
ReturnAvailableMutant(n, result) ==
  /\ thunk' = [thunk EXCEPT ![n] = result]
  /\ Enter(n, "completing", Out(n))
  /\ UNCHANGED <<edges, counter, pending_nodes, abort, execute_event, inc>>
ReturnAvailable(n, result) ==
  /\ thunk' = [thunk EXCEPT ![n] = result]
  /\ abort' = (abort \/ result = "error")
  /\ Enter(n, "completing", Out(n))
  /\ UNCHANGED <<edges, counter, pending_nodes, execute_event, inc>>

\* It is not: only the scheduling edges are processed now.
ReturnAsyncMutant(n) ==
  /\ Enter(n, "scheduling", Out(n))
  /\ UNCHANGED <<edges, counter, pending_nodes, abort, execute_event, thunk, inc>>
ReturnAsync(n) ==
  /\ Enter(n, "scheduling", Scheduling(n))
  /\ UNCHANGED <<edges, counter, pending_nodes, abort, execute_event, thunk, inc>>

\* ProcessScheduledOutEdges, at the first scheduling edge.
IncPendingMutant(n) ==
  /\ inc' = [inc EXCEPT ![n] = TRUE]
  /\ UNCHANGED <<edges, counter, pending_nodes, abort, execute_event, thunk,
                 phase, todo>>
IncPending(n) ==
  /\ pending_nodes' = pending_nodes + 1
  /\ inc' = [inc EXCEPT ![n] = TRUE]
  /\ UNCHANGED <<edges, counter, abort, execute_event, thunk, phase, todo>>

\* One iteration of the loop over the out edges, which are sorted by node.
NextEdge(n) == CHOOSE e \in todo[n] : \A f \in todo[n] : e.to <= f.to
Ready(n) == counter[NextEdge(n).to] = 1

DropEdge(n) ==
  LET m == NextEdge(n).to IN
  /\ counter' = [counter EXCEPT ![m] = @ - 1]
  /\ phase' = IF Ready(n) THEN [phase EXCEPT ![m] = "ready"] ELSE phase
  /\ todo' = [todo EXCEPT ![n] = @ \ {NextEdge(n)}]
  /\ UNCHANGED <<edges, pending_nodes, abort, execute_event, thunk, inc>>

\* AndThen: the continuation is attached to the thunk's event.
Attach(n) ==
  /\ phase' = [phase EXCEPT ![n] = "async"]
  /\ UNCHANGED <<edges, counter, pending_nodes, abort, execute_event, thunk,
                 todo, inc>>

\* The thunk's event becomes available, on a thread of the thunk's own.
ThunkDone(n, result) ==
  /\ thunk' = [thunk EXCEPT ![n] = result]
  /\ UNCHANGED <<edges, counter, pending_nodes, abort, execute_event, phase,
                 todo, inc>>

\* The continuation runs: the error is recorded, execution edges are left.
ContinueMutant(n) ==
  /\ abort' = (abort \/ thunk[n] = "error")
  /\ Enter(n, "completing", Out(n))
  /\ UNCHANGED <<edges, counter, pending_nodes, execute_event, thunk, inc>>
Continue(n) ==
  /\ abort' = (abort \/ thunk[n] = "error")
  /\ Enter(n, "completing", Execution(n))
  /\ UNCHANGED <<edges, counter, pending_nodes, execute_event, thunk, inc>>

\* drop_pending_nodes, at the end of ProcessCompletedOutEdges.
DropPendingMutant(n) == n \in Sink
DropPending(n) == n \in Sink \/ inc[n]

Settle(n) ==
  /\ phase' = [phase EXCEPT ![n] = "completed"]
  /\ pending_nodes' = IF DropPending(n) THEN pending_nodes - 1 ELSE pending_nodes
  /\ execute_event' =
       IF DropPending(n) /\ pending_nodes = 1
         THEN IF abort THEN "error" ELSE "ok"
         ELSE execute_event
  /\ UNCHANGED <<edges, counter, abort, thunk, todo, inc>>
-----------------------------------------------------------------------------
(* When each step is taken, seen from the node.                            *)

ScheduleEdge(n) ==
  /\ phase[n] = "scheduling" /\ todo[n] # {}
  /\ IF inc[n] THEN DropEdge(n) ELSE IncPending(n)

Process(n) ==
  \/ phase[n] = "ready" /\ Start(n)
  \/ phase[n] = "running" /\ \E r \in {"ok", "error"} : ReturnAvailable(n, r)
  \/ phase[n] = "running" /\ ReturnAsync(n)
  \/ ScheduleEdge(n)
  \/ phase[n] = "scheduling" /\ todo[n] = {} /\ Attach(n)
  \/ /\ phase[n] \in {"scheduling", "async"} /\ thunk[n] = "running"
     /\ \E r \in {"ok", "error"} : ThunkDone(n, r)
  \/ phase[n] = "async" /\ Finished(n) /\ Continue(n)
  \/ phase[n] = "completing" /\ todo[n] # {} /\ DropEdge(n)
  \/ phase[n] = "completing" /\ todo[n] = {} /\ Settle(n)

ExecNext == \E n \in Node : Process(n)

ExecSpec == ExecInit /\ [][ExecNext]_execVars
-----------------------------------------------------------------------------
Schedule == INSTANCE ThunkSchedule WITH
  started <- {n \in Node : Ran(n)},
  finished <- {n \in Node : Finished(n)},
  failed <- {n \in Node : thunk[n] = "error"},
  event <- execute_event

\* The counters keep the promise of ThunkSchedule: every thunk runs at most
\* once and in the order of the edges, and the event fires once, after the
\* last thunk, with an error exactly when a thunk failed.
KeepsSchedule == Schedule!Spec

\* Thunks that are ordered by the graph never run at the same time: if a path
\* leads from m to n and begins with an execution edge, m has finished when n
\* starts.  The edge from m to n itself may have been erased as redundant.
OrderedThunksNeverOverlap ==
  \A e \in edges : e.kind = "execution" =>
    \A n \in {e.to} \cup Reachable(e.to) : Ran(n) => Finished(e.from)

\* When the event fires the caller may destroy the parameters and the thunks:
\* every node is processed by then, except for the return from a loop over out
\* edges that has reached its end and has no pending node to drop.
NothingLeftAfterEvent ==
  execute_event # "pending" =>
    \A n \in Node :
      \/ phase[n] = "completed"
      \/ phase[n] = "completing" /\ todo[n] = {} /\ ~DropPending(n)
=============================================================================
