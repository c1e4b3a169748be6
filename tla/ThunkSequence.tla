--------------------------- MODULE ThunkSequence ---------------------------
(***************************************************************************)
(* A thunk sequence of the CPU backend from its compilation to its end:    *)
(* ThunkExecutor::Create builds the execution graph (module                *)
(* ExecutionGraph) and Execute runs the thunks along it (module            *)
(* ExecuteState).  Executions of one executor share the graph and nothing  *)
(* else, so one of them is followed.  Programs that the code executes      *)
(* sequentially, since the graph is a chain or the buffers are small, are  *)
(* executed along the graph here, which allows more.                       *)
(***************************************************************************)
EXTENDS ExecutionGraph

CONSTANT Executed  \* the programs that are executed, a bound for TLC

VARIABLES counter, pending_nodes, abort, execute_event, thunk, phase, todo, inc

executeState == <<counter, pending_nodes, abort, execute_event, thunk, phase,
                  todo, inc>>
sequenceVars == <<vars, executeState>>

\* The graphs of ExecutionGraph::Create: one edge for a pair of operations.
ForwardGraph ==
  {E \in SUBSET [from : Node, to : Node, kind : {"scheduling", "execution"}] :
     /\ \A e \in E : e.from < e.to
     /\ \A e, f \in E : e.from = f.from /\ e.to = f.to => e = f}

Exec == INSTANCE ExecuteState WITH
  NumThunks <- NumOperations, Graphs <- ForwardGraph

\* Shorter sequences are executed without an ExecuteState.
ASSUME ManyOperationsAssumption == NumOperations >= 2

\* offset and size of BufferAllocation::Slice.
ASSUME SlicesAssumption ==
  \A p \in Programs : \A n \in Node : \A u \in p[n].buffers :
    u.slice.offset \in Nat /\ u.slice.size \in Nat
-----------------------------------------------------------------------------
SequenceInit ==
  /\ Init
  /\ execute_event = "none" /\ abort = FALSE /\ pending_nodes = 0
  /\ counter = <<>> /\ thunk = <<>> /\ phase = <<>> /\ todo = <<>> /\ inc = <<>>

\* ThunkExecutor::Create, one step of the reduction at a time.
Create == Next /\ UNCHANGED executeState

\* ThunkExecutor::Execute constructs the ExecuteState; the ready queue of the
\* calling thread holds the source nodes.
Execute ==
  /\ source = -1 /\ execute_event = "none" /\ ops \in Executed
  /\ counter' = [n \in Node |-> Cardinality(Exec!In(n))]
  /\ pending_nodes' = Cardinality(Exec!Sink)
  /\ abort' = FALSE
  /\ execute_event' = "pending"
  /\ thunk' = [n \in Node |-> "idle"]
  /\ phase' = [n \in Node |-> IF n \in Exec!Source THEN "ready" ELSE "blocked"]
  /\ todo' = [n \in Node |-> {}]
  /\ inc' = [n \in Node |-> FALSE]
  /\ UNCHANGED vars

\* A step of one of the threads that process the nodes.
Process ==
  /\ execute_event # "none"
  /\ Exec!ExecNext
  /\ UNCHANGED <<ops, priority, source, rest, out_edge, stack, visited>>

SequenceNext == Create \/ Execute \/ Process

SequenceSpec == SequenceInit /\ [][SequenceNext]_sequenceVars
-----------------------------------------------------------------------------
(* What the program says, byte by byte: not in the terms of the graph.     *)

Bytes(s) == s.offset .. s.offset + s.size - 1

\* One of the operations writes a byte that the other one uses.
ShareData(j, i) ==
  \E u \in ops[j].buffers, v \in ops[i].buffers :
    /\ Clash(u, v) /\ u.slice.index = v.slice.index
    /\ \E x \in Bytes(u.slice) : x \in Bytes(v.slice)

ShareResource(j, i, kind) ==
  \E u \in ops[j].resources, v \in ops[i].resources :
    Clash(u, v) /\ u.resource = v.resource /\ u.resource.kind = kind

\* The executor runs the thunks concurrently and yet as the program orders
\* them: an operation that uses data or a token an earlier one writes, or
\* writes what an earlier one uses, starts after that one has finished.  The
\* edge between the two may be erased, and the path that replaces it may lead
\* through scheduling edges.
NoDataRaces ==
  execute_event # "none" =>
    \A i, j \in Node :
      /\ j < i /\ Exec!Ran(i)
      /\ ShareData(j, i) \/ ShareResource(j, i, "token")
      => Exec!Finished(j)

\* Collectives on one communicator start in program order, hence in the same
\* order on every rank, whatever the threads, the errors and the edges erased.
CollectivesStartInOrder ==
  execute_event # "none" =>
    \A i, j \in Node :
      j < i /\ Exec!Ran(i) /\ ShareResource(j, i, "communicator") => Exec!Ran(j)
=============================================================================
