------------------------ MODULE ThunkSequenceProofs ------------------------
(***************************************************************************)
(* Proofs about ThunkSequence: for every program, every number of threads  *)
(* and every outcome of its operations, concurrent execution along the     *)
(* reduced graph keeps the order of the program where the operations can   *)
(* tell.  The graph's invariant GInv says that a conflict leaves a path;   *)
(* the invariant ExecInv of the counters says that a thunk which ran comes *)
(* after its direct predecessors; the induction along the path joins them. *)
(***************************************************************************)
EXTENDS ThunkSequence, ExecutionGraphProofs

\* ExecuteState of ThunkSequence with the theorems about it.
P == INSTANCE ExecuteStateProofs WITH
  NumThunks <- NumOperations, Graphs <- ForwardGraph

\* What the theorems about ExecuteState assume of its constants.
LEMMA ExecAssumptions ==
  /\ NumOperations \in Nat /\ NumOperations >= 2
  /\ ForwardGraph \subseteq SUBSET P!Edge
  /\ \A E \in ForwardGraph : \A e, f \in E : e.from = f.from /\ e.to = f.to => e = f
BY ManyOperationsAssumption, NumOperationsAssumption
   DEF ForwardGraph, P!Edge, P!Node, Node, P!Kind

\* ExecuteState's instance of FiniteSets is the same.
LEMMA SameCardinality == \A S : P!Cardinality(S) = Cardinality(S)
BY DEF Cardinality, P!Cardinality

LEMMA SameSteps == Exec!ExecNext <=> P!ExecNext
BY DEF Exec!Node, P!Node, Exec!Out, P!Out, Exec!In, P!In, Exec!Scheduling,
       P!Scheduling, Exec!Execution, P!Execution, Exec!Source, P!Source,
       Exec!Sink, P!Sink, Exec!Enter, P!Enter, Exec!Start, P!Start,
       Exec!ReturnAvailable, P!ReturnAvailable, Exec!ReturnAsync,
       P!ReturnAsync, Exec!IncPending, P!IncPending, Exec!NextEdge,
       P!NextEdge, Exec!Ready, P!Ready, Exec!DropEdge, P!DropEdge,
       Exec!Attach, P!Attach, Exec!ThunkDone, P!ThunkDone, Exec!Continue,
       P!Continue, Exec!DropPending, P!DropPending, Exec!Settle, P!Settle,
       Exec!ScheduleEdge, P!ScheduleEdge, Exec!Process, P!Process,
       Exec!ExecNext, P!ExecNext, Exec!Finished, P!Finished

\* Execute leaves the graph alone.
LEMMA EdgesStay == P!ExecNext => edges' = edges
<1> SUFFICES ASSUME NEW n \in P!Node, P!Process(n)  PROVE edges' = edges
  BY DEF P!ExecNext
<1> QED  BY DEF P!Process, P!Start, P!ReturnAvailable, P!ReturnAsync, P!ScheduleEdge,
               P!IncPending, P!DropEdge, P!Attach, P!ThunkDone, P!Continue, P!Settle
-----------------------------------------------------------------------------
(* The inductive invariant: the graph's, and once the program is executed, *)
(* the end of the reduction and the invariant of the counters.             *)

SequenceInv ==
  /\ GInv
  /\ ops \in Programs
  /\ execute_event # "none" => source = -1 /\ P!ExecInv

\* The graph is one of those that ExecuteState is proved correct for.
LEMMA GraphIsForward ==
  ASSUME GInv
  PROVE  edges \in ForwardGraph
<1>1. ASSUME NEW e \in AllEdges
      PROVE  e \in [from : Node, to : Node, kind : {"scheduling", "execution"}]
  <2>1. PICK q \in Node \X Node : e = EdgeBetween(q[1], q[2])
    BY DEF AllEdges
  <2>2. e = [from |-> q[1], to |-> q[2], kind |-> e.kind]
    BY <2>1 DEF EdgeBetween
  <2>3. e.kind \in {"scheduling", "execution"}
    BY AllEdgesFacts
  <2> QED  BY <2>1, <2>2, <2>3
<1>2. edges \subseteq AllEdges
  BY DEF GInv, Shape
<1>3. /\ \A e \in edges : e.from < e.to
      /\ \A e, f \in edges : e.from = f.from /\ e.to = f.to => e = f
  BY <1>2, AllEdgesFacts DEF Forward
<1> QED  BY <1>1, <1>2, <1>3 DEF ForwardGraph

\* When the last source node is finished, so is the reduction.
LEMMA ReductionIsOver ==
  ASSUME GInv, source = -1
  PROVE  ~Next
<1>1. stack = <<>>
  <2> SUFFICES ASSUME stack # <<>>  PROVE FALSE
    OBVIOUS
  <2>1. PICK i \in DOMAIN stack : TRUE
    BY DEF GInv, StackInv
  <2>2. Ordered(edges, source, stack[i].from, out_edge)
    BY <2>1 DEF GInv, StackInv
  <2>3. Forward(edges)
    BY InvFacts
  <2>4. -1 \in Node
    BY <2>2, <2>3 DEF Ordered, Out, Forward
  <2> QED  BY <2>4, NodeFacts
<1> QED  BY <1>1 DEF Next, SearchOutEdge, VisitNode, FinishSource

LEMMA InitSequenceInv == SequenceInit => SequenceInv
<1> SUFFICES ASSUME SequenceInit  PROVE SequenceInv
  OBVIOUS
<1>1. GInv /\ ops \in Programs
  BY InitGInv DEF SequenceInit, Init
<1> QED  BY <1>1 DEF SequenceInit, SequenceInv

LEMMA ExecInitInv == P!ExecInit' => P!ExecInv'
<1>1. P!ExecInit => P!ExecInv
  BY ExecAssumptions, P!InitInv
<1> QED  BY <1>1, PTL

LEMMA ExecuteInv ==
  ASSUME SequenceInv, Execute
  PROVE  SequenceInv'
<1>1. GInv' /\ ops' \in Programs /\ source' = -1
  <2>1. UNCHANGED vars
    BY DEF Execute
  <2>2. GInv'
    BY <2>1, NextGInv DEF SequenceInv
  <2> QED  BY <2>1, <2>2 DEF SequenceInv, Execute, vars
<1>2. P!ExecInit'
  <2>1. edges' = edges
    BY DEF Execute, vars
  <2>2. edges \in ForwardGraph
    BY GraphIsForward DEF SequenceInv
  <2>3. edges' \in ForwardGraph'
    BY <2>1, <2>2 DEF ForwardGraph
  <2>4. counter' = [n \in P!Node |-> Cardinality(P!In(n)')]
    BY <2>1 DEF Execute, P!Node, Node, P!In, Exec!In
  <2>5. pending_nodes' = Cardinality(P!Sink')
    BY <2>1 DEF Execute, P!Sink, Exec!Sink, P!Out, Exec!Out, P!Node, Exec!Node
  <2>6. phase' = [n \in P!Node |-> IF n \in P!Source' THEN "ready" ELSE "blocked"]
    BY <2>1 DEF Execute, P!Source, Exec!Source, P!In, Exec!In, P!Node, Exec!Node, Node
  <2> QED  BY <2>3, <2>4, <2>5, <2>6, SameCardinality DEF P!ExecInit, Execute, P!Node, Node
<1>3. P!ExecInit' => P!ExecInv'
  BY ExecInitInv
<1> QED  BY <1>1, <1>2, <1>3 DEF SequenceInv

LEMMA ProcessInv ==
  ASSUME SequenceInv, Process
  PROVE  SequenceInv'
<1>1. P!ExecNext
  BY SameSteps DEF Process
<1>2. UNCHANGED vars
  BY <1>1, EdgesStay DEF Process, vars
<1>3. GInv' /\ ops' \in Programs /\ source' = -1
  BY <1>2, NextGInv DEF SequenceInv, Process, vars
<1>4. P!ExecInv'
  <2>1. P!ExecInv /\ [P!ExecNext]_(P!execVars) => P!ExecInv'
    BY ExecAssumptions, P!ExecNextInv
  <2> QED  BY <1>1, <2>1 DEF SequenceInv, Process
<1> QED  BY <1>3, <1>4 DEF SequenceInv

LEMMA NextSequenceInv == SequenceInv /\ [SequenceNext]_sequenceVars => SequenceInv'
<1> SUFFICES ASSUME SequenceInv, [SequenceNext]_sequenceVars  PROVE SequenceInv'
  OBVIOUS
<1>1. CASE Create
  <2>1. GInv' /\ execute_event = "none"
    BY <1>1, NextGInv, ReductionIsOver DEF SequenceInv, Create
  <2>2. ops' = ops /\ execute_event' = execute_event
    BY <1>1 DEF Create, Next, SearchOutEdge, VisitNode, FinishSource, executeState
  <2> QED  BY <2>1, <2>2 DEF SequenceInv
<1>2. CASE Execute
  BY <1>2, ExecuteInv
<1>3. CASE Process
  BY <1>3, ProcessInv
<1>4. CASE UNCHANGED sequenceVars
  <2>1. UNCHANGED vars /\ UNCHANGED executeState
    BY <1>4 DEF sequenceVars
  <2>2. GInv' /\ ops' = ops /\ source' = source /\ execute_event' = execute_event
    BY <2>1, NextGInv DEF SequenceInv, vars, executeState
  <2>3. P!ExecInv => P!ExecInv'
    <3>1. UNCHANGED P!execVars
      BY <2>1 DEF P!execVars, vars, executeState
    <3> QED  BY <3>1, ExecAssumptions, P!ExecNextInv
  <2> QED  BY <2>2, <2>3 DEF SequenceInv
<1> QED  BY <1>1, <1>2, <1>3, <1>4 DEF SequenceNext

LEMMA SequenceInvariance == SequenceSpec => []SequenceInv
BY InitSequenceInv, NextSequenceInv, PTL DEF SequenceSpec-----------------------------------------------------------------------------
(* From a conflict to a path, and along the path to the order.             *)

\* Operations that share data or a resource have an edge between them before
\* the reduction; it is an execution edge for data and for tokens.
LEMMA SharingIsConflict ==
  ASSUME SequenceInv, NEW i \in Node, NEW j \in Node, j < i
  PROVE  /\ ShareData(j, i) \/ ShareResource(j, i, "token") =>
              Ordered(edges, j, i, "execution")
         /\ ShareResource(j, i, "communicator") => \E k : Ordered(edges, j, i, k)
<1>1. \A e \in AllEdges : Ordered(edges, e.from, e.to, e.kind)
  BY InvFacts DEF SequenceInv
<1>2. Conflict(j, i) => Ordered(edges, j, i, EdgeBetween(j, i).kind)
  <2> SUFFICES ASSUME Conflict(j, i)  PROVE Ordered(edges, j, i, EdgeBetween(j, i).kind)
    OBVIOUS
  <2>1. EdgeBetween(j, i) \in AllEdges
    <3>1. PICK p : p = <<j, i>>
      OBVIOUS
    <3>2. p \in Node \X Node /\ p[1] = j /\ p[2] = i
      BY <3>1
    <3> QED  BY <3>2 DEF AllEdges
  <2>2. EdgeBetween(j, i).from = j /\ EdgeBetween(j, i).to = i
    BY DEF EdgeBetween
  <2> QED  BY <1>1, <2>1, <2>2
<1>3. ASSUME ShareData(j, i)  PROVE BufferConflict(j, i)
  <2>1. PICK u \in ops[j].buffers, v \in ops[i].buffers :
          /\ Clash(u, v) /\ u.slice.index = v.slice.index
          /\ \E x \in Bytes(u.slice) : x \in Bytes(v.slice)
    BY <1>3 DEF ShareData
  <2>2. /\ u.slice.offset \in Nat /\ u.slice.size \in Nat
        /\ v.slice.offset \in Nat /\ v.slice.size \in Nat
    BY SlicesAssumption DEF SequenceInv
  <2>3. OverlapsWith(u.slice, v.slice)
    BY <2>1, <2>2 DEF Bytes, OverlapsWith
  <2> QED  BY <2>1, <2>3 DEF BufferConflict
<1>4. ASSUME NEW kind, ShareResource(j, i, kind)
      PROVE  \E r \in ResourceConflicts(j, i) : r.kind = kind
  BY <1>4 DEF ShareResource, ResourceConflicts
<1>5. ASSUME ShareData(j, i)  PROVE Ordered(edges, j, i, "execution")
  <2>1. BufferConflict(j, i)
    BY <1>3, <1>5
  <2> QED  BY <1>2, <2>1 DEF Conflict, EdgeBetween
<1>6. ASSUME ShareResource(j, i, "token")  PROVE Ordered(edges, j, i, "execution")
  <2>1. \E r \in ResourceConflicts(j, i) : r.kind = "token"
    BY <1>4, <1>6
  <2>2. EdgeBetween(j, i).kind = "execution"
    BY <2>1 DEF EdgeBetween, EdgeKind
  <2> QED  BY <1>2, <2>1, <2>2 DEF Conflict
<1>7. ASSUME ShareResource(j, i, "communicator")
      PROVE  \E k : Ordered(edges, j, i, k)
  <2>1. ResourceConflicts(j, i) # {}
    BY <1>4, <1>7
  <2> QED  BY <1>2, <2>1 DEF Conflict
<1> QED  BY <1>5, <1>6, <1>7

\* A thunk that ran comes after everything on a path to it: the thunks that ran
\* only if the target of f did are closed under the edges.
LEMMA RanAlongPath ==
  ASSUME GInv, P!ExecInv, NEW f \in edges, NEW i,
         i = f.to \/ i \in Reachable(edges, f.to), Exec!Ran(i)
  PROVE  Exec!Ran(f.from) /\ (f.kind = "execution" => Exec!Finished(f.from))
<1>1. Forward(edges)
  BY InvFacts
<1>2. ASSUME NEW e \in edges, P!Ran(e.to)
      PROVE  P!Ran(e.from) /\ (e.kind = "execution" => P!Finished(e.from))
  <2>1. e.to \in P!Node /\ e \in P!In(e.to)
    BY <1>1 DEF Forward, P!Node, Node, P!In
  <2> QED  BY <1>2, <2>1 DEF P!ExecInv, P!OrderInv
<1> DEFINE S == {k \in Node : P!Ran(k) => P!Ran(f.to)}
<1>3. f.to \in S /\ f.to \in Node
  BY <1>1 DEF Forward
<1>4. Closed(edges, f.to, S)
  <2> SUFFICES ASSUME NEW e \in edges, e.from \in S  PROVE e.to \in S
    BY <1>3 DEF Closed
  <2>1. e.to \in Node
    BY <1>1 DEF Forward
  <2> QED  BY <1>2, <2>1
<1>5. i \in S
  <2>1. PICK E : E = edges
    OBVIOUS
  <2>2. PICK T : T = S
    OBVIOUS
  <2> HIDE DEF S
  <2>3. \A b \in Reachable(E, f.to) : b \in T
    BY <1>1, <1>3, <1>4, <2>1, <2>2, ReachClosed
  <2> QED  BY <1>3, <2>1, <2>2, <2>3
<1>6. P!Ran(f.to)
  BY <1>5 DEF Exec!Ran, P!Ran
<1> QED  BY <1>2, <1>6 DEF Exec!Ran, P!Ran, Exec!Finished, P!Finished

\* Concurrent execution along the reduced graph has no data race: whatever the
\* program, the threads and the errors, an operation starts only after the
\* earlier ones that use a common byte or token, with a write among the two
\* uses, have finished.
THEOREM SequenceHasNoDataRaces == SequenceSpec => []NoDataRaces
<1>1. SequenceInv => NoDataRaces
  <2> SUFFICES ASSUME SequenceInv, execute_event # "none", NEW i \in Node, NEW j \in Node,
                      j < i, Exec!Ran(i), ShareData(j, i) \/ ShareResource(j, i, "token")
               PROVE  Exec!Finished(j)
    BY DEF NoDataRaces
  <2>1. PICK f \in Out(edges, j) :
          f.kind = "execution" /\ (i = f.to \/ i \in Reachable(edges, f.to))
    BY SharingIsConflict DEF Ordered
  <2>2. f \in edges /\ f.from = j
    BY <2>1 DEF Out
  <2> QED  BY <2>1, <2>2, RanAlongPath DEF SequenceInv
<1> QED  BY <1>1, SequenceInvariance, PTL

\* Collectives on a communicator start in program order on every rank, although
\* edges between them may be erased and a scheduling edge does not wait.
THEOREM SequenceOrdersCollectives == SequenceSpec => []CollectivesStartInOrder
<1>1. SequenceInv => CollectivesStartInOrder
  <2> SUFFICES ASSUME SequenceInv, execute_event # "none", NEW i \in Node, NEW j \in Node,
                      j < i, Exec!Ran(i), ShareResource(j, i, "communicator")
               PROVE  Exec!Ran(j)
    BY DEF CollectivesStartInOrder
  <2>1. PICK f \in Out(edges, j) : i = f.to \/ i \in Reachable(edges, f.to)
    BY SharingIsConflict DEF Ordered
  <2>2. f \in edges /\ f.from = j
    BY <2>1 DEF Out
  <2> QED  BY <2>1, <2>2, RanAlongPath DEF SequenceInv
<1> QED  BY <1>1, SequenceInvariance, PTL

\* Execution does not disturb the graph: what is proved about the reduction
\* holds of the executor's graph.
THEOREM SequenceKeepsGraph == SequenceSpec => Spec
<1>1. SequenceInit => Init
  BY DEF SequenceInit
<1>2. [SequenceNext]_sequenceVars => [Next]_vars
  <2>1. Create => Next
    BY DEF Create
  <2>2. Execute => UNCHANGED vars
    BY DEF Execute
  <2>3. Process => UNCHANGED vars
    BY SameSteps, EdgesStay DEF Process, vars
  <2>4. UNCHANGED sequenceVars => UNCHANGED vars
    BY DEF sequenceVars
  <2> QED  BY <2>1, <2>2, <2>3, <2>4 DEF SequenceNext
<1> QED  BY <1>1, <1>2, PTL DEF SequenceSpec, Spec
=============================================================================
