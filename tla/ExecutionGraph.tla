--------------------------- MODULE ExecutionGraph ---------------------------
(***************************************************************************)
(* ExecutionGraph::Create: the execution graph of a sequence of operations *)
(* (the thunks of a program).  An edge is added for every pair of          *)
(* operations with a conflict, then a depth-first search from every node   *)
(* erases the edges another path makes redundant and counts the nodes it   *)
(* visits as the node's priority.  A state is the graph between two steps  *)
(* of that reduction.                                                      *)
(*                                                                         *)
(* in_edges and out_edges of the builders always hold the same edges, so   *)
(* one set of edges stands for both.                                       *)
(***************************************************************************)
EXTENDS Integers, FiniteSets, SequencesExt

CONSTANTS NumOperations,  \* length of the operation sequence
          Programs        \* the operation sequences, functions on Node

Node == 0 .. NumOperations - 1

ASSUME NumOperationsAssumption == NumOperations \in Nat

VARIABLES
  ops,       \* the operations the graph is built for
  edges,     \* in_edges and out_edges of the builders
  priority,  \* NodeDefBuilder::priority
  source,    \* i of the outer loop, -1 when the reduction is done
  rest,      \* copied out edges of the source node not yet iterated over
  out_edge,  \* kind of the out edge of the current search
  stack,     \* TransitiveReductionDfsState::stack_
  visited    \* TransitiveReductionDfsState::visited_

vars == <<ops, edges, priority, source, rest, out_edge, stack, visited>>

Out(E, n) == {e \in E : e.from = n}
ById(es) ==
  CHOOSE s \in [1 .. Cardinality(es) -> es] :
    \A i, j \in DOMAIN s : i < j => s[i].to < s[j].to
-----------------------------------------------------------------------------
(* Conflicts: an operation has buffer uses [access, slice], with slices    *)
(* [index, offset, size], and resource uses [access, resource], with       *)
(* resources [kind, id].                                                   *)

OverlapsWithMutant(a, b) ==
  a.index = b.index /\ a.offset <= b.offset /\ b.offset < a.offset + a.size
OverlapsWith(a, b) ==
  /\ a.index = b.index
  /\ a.offset < b.offset + b.size /\ b.offset < a.offset + a.size

Clash(u, v) == u.access = "write" \/ v.access = "write"

BufferConflict(j, i) ==
  \E u \in ops[j].buffers, v \in ops[i].buffers :
    Clash(u, v) /\ (OverlapsWith(u.slice, v.slice) \/ u.slice = v.slice)

ResourceConflictsMutant(j, i) ==
  {v.resource : v \in {w \in ops[i].resources :
     \E u \in ops[j].resources : u.resource = w.resource /\ w.access = "write"}}
ResourceConflicts(j, i) ==
  {v.resource : v \in {w \in ops[i].resources :
     \E u \in ops[j].resources : u.resource = w.resource /\ Clash(u, w)}}

\* NodeEdge::KindOf and EdgeKind.
EdgeKind(resources) ==
  IF \E r \in resources : r.kind = "token" THEN "execution" ELSE "scheduling"

EdgeBetween(j, i) ==
  [from |-> j, to |-> i,
   kind |-> IF BufferConflict(j, i) THEN "execution"
            ELSE EdgeKind(ResourceConflicts(j, i))]

Conflict(j, i) == BufferConflict(j, i) \/ ResourceConflicts(j, i) # {}

AllEdges == {EdgeBetween(p[1], p[2]) :
               p \in {q \in Node \X Node : q[1] < q[2] /\ Conflict(q[1], q[2])}}
-----------------------------------------------------------------------------
(* RunTransitiveReductionAndUpdatePriorities.                              *)

Init ==
  /\ ops \in Programs
  /\ edges = AllEdges
  /\ priority = [n \in Node |-> 0]
  /\ source = NumOperations - 1
  /\ rest = ById(Out(edges, source))
  /\ out_edge = "execution" /\ stack = <<>> /\ visited = {}

\* PushToStack: every edge to a node not visited before.
PushToStack(s, seen, es) ==
  s \o ById({e \in es : e.to \notin seen})
Targets(es) == {e.to : e \in es}

\* The search begins at the next out edge of the source node.
SearchOutEdgeMutant ==
  /\ source >= 0 /\ stack = <<>> /\ rest # <<>>
  /\ LET e == Head(rest) IN
     /\ out_edge' = e.kind
     /\ visited' = visited \cup Targets(Out(edges, e.to))
     /\ stack' = PushToStack(stack, visited, Out(edges, e.to))
  /\ rest' = Tail(rest)
  /\ UNCHANGED <<ops, edges, priority, source>>
SearchOutEdge ==
  /\ source >= 0 /\ stack = <<>> /\ rest # <<>>
  /\ LET e == Head(rest)
         seen == visited \cup {e.to}
     IN  /\ out_edge' = e.kind
         /\ visited' = seen \cup Targets(Out(edges, e.to))
         /\ stack' = PushToStack(stack, seen, Out(edges, e.to))
  /\ rest' = Tail(rest)
  /\ UNCHANGED <<ops, edges, priority, source>>

\* EraseEdge: an execution edge is not erased for a scheduling order.
EraseEdge(from, to, kind) ==
  {e \in edges : e.from = from /\ e.to = to
                   /\ (e.kind = "execution" => kind = "execution")}

\* What may be erased when node_edge is popped and left remains on the stack.
ErasableKindMutant(node_edge, left) == "execution"
ErasableKind(node_edge, left) ==
  IF \/ out_edge = "scheduling" \/ node_edge.kind = "scheduling"
     \/ \E k \in DOMAIN left : left[k].kind = "scheduling"
  THEN "scheduling" ELSE "execution"

\* One round of the search: a node reachable through out_edge is popped, an
\* edge to it from the source node is erased, the search goes on from it.
VisitNodeMutant ==
  /\ stack # <<>>
  /\ LET node_edge == Last(stack)
         left == Front(stack)
         kind == ErasableKind(node_edge, left)
     IN  /\ edges' = edges \ EraseEdge(source, node_edge.to, kind)
         /\ stack' = left
         /\ visited' = visited \cup Targets(Out(edges, node_edge.to))
  /\ UNCHANGED <<ops, priority, source, rest, out_edge>>
VisitNode ==
  /\ stack # <<>>
  /\ LET node_edge == Last(stack)
         left == Front(stack)
         kind == ErasableKind(node_edge, left)
         next == Out(edges, node_edge.to)
     IN  /\ edges' = edges \ EraseEdge(source, node_edge.to, kind)
         /\ stack' = PushToStack(left, visited, next)
         /\ visited' = visited \cup Targets(next)
  /\ UNCHANGED <<ops, priority, source, rest, out_edge>>

\* All out edges are searched: the priority is set, the next source begins.
FinishSource ==
  /\ source >= 0 /\ stack = <<>> /\ rest = <<>>
  /\ priority' = [priority EXCEPT ![source] = Cardinality(visited)]
  /\ source' = source - 1
  /\ rest' = ById(Out(edges, source - 1))
  /\ visited' = {}
  /\ UNCHANGED <<ops, edges, out_edge, stack>>

Next == SearchOutEdge \/ VisitNode \/ FinishSource

Spec == Init /\ [][Next]_vars
-----------------------------------------------------------------------------
Reachable(E, n) ==
  LET reach[m \in Node] == UNION {{e.to} \cup reach[e.to] : e \in Out(E, m)}
  IN  reach[n]

\* No erased edge loses the order it stood for, at any point of the reduction:
\* operations with a scheduling conflict are connected by a path, operations
\* that must not overlap by a path that begins with an execution edge (a later
\* scheduling edge does no harm: the first operation has completed before the
\* second node of the path starts).
ConflictsStayOrdered ==
  \A e \in AllEdges :
    IF e.kind = "execution"
      THEN \E f \in Out(edges, e.from) :
             f.kind = "execution" /\ e.to \in {f.to} \cup Reachable(edges, f.to)
      ELSE e.to \in Reachable(edges, e.from)

\* What the reduction is for: with execution edges only, no edge is left that
\* a longer path implies.
ReductionIsMinimal ==
  source = -1 /\ (\A e \in AllEdges : e.kind = "execution") =>
    \A e \in edges : e.to \notin Reachable(edges \ {e}, e.from)

\* The priority of a node is the number of operations that wait for it,
\* directly or through others, in the graph before the reduction.
PriorityCountsDependents ==
  \A n \in Node : n > source => priority[n] = Cardinality(Reachable(AllEdges, n))
=============================================================================
