------------------------- MODULE ExecuteStateProofs -------------------------
(***************************************************************************)
(* Proofs about ExecuteState, for every number of thunks and every         *)
(* execution graph.                                                        *)
(***************************************************************************)
EXTENDS ExecuteState, FiniteSetTheorems, WellFoundedInduction, TLAPS

Phase == {"blocked", "ready", "running", "scheduling", "async", "completing",
          "completed"}
Status == {"idle", "running", "ok", "error", "skipped"}
Result == {"ok", "error"}

\* The values the fields of ExecuteState have.
ExecTypeOK ==
  /\ edges \in Graphs
  /\ counter \in [Node -> Nat]
  /\ pending_nodes \in Nat
  /\ abort \in BOOLEAN
  /\ execute_event \in {"pending", "ok", "error"}
  /\ thunk \in [Node -> Status]
  /\ phase \in [Node -> Phase]
  /\ todo \in [Node -> SUBSET Edge]
  /\ inc \in [Node -> BOOLEAN]

\* How far a node is: what is left of its out edges, whether it was counted as
\* pending, and the state of its thunk.
NodeInv(n) ==
  /\ todo[n] \subseteq Out(n)
  /\ phase[n] = "scheduling" =>
       todo[n] \subseteq Scheduling(n) /\ (~inc[n] => todo[n] = Scheduling(n))
  /\ phase[n] \notin {"scheduling", "completing"} => todo[n] = {}
  /\ phase[n] \in {"blocked", "ready", "running"} => ~inc[n]
  /\ phase[n] = "async" /\ ~inc[n] => Scheduling(n) = {}
  /\ phase[n] \in {"blocked", "ready"} <=> thunk[n] = "idle"
  /\ phase[n] = "running" => thunk[n] = "running"
  /\ thunk[n] = "running" => phase[n] \in {"running", "scheduling", "async"}
  /\ thunk[n] = "skipped" => phase[n] \in {"completing", "completed"}

\* The edges whose target still waits for them.
Open(e) ==
  \/ phase[e.from] \in {"blocked", "ready", "running"}
  \/ phase[e.from] \in {"scheduling", "async"} /\ e.kind = "execution"
  \/ e \in todo[e.from]
OpenIn(n) == {e \in In(n) : Open(e)}

\* A counter is the number of open in edges.
CounterInv ==
  \A n \in Node : /\ counter[n] = Cardinality(OpenIn(n))
                  /\ phase[n] = "blocked" <=> OpenIn(n) # {}

\* pending_nodes is the number of nodes that will drop a pending node.
Holders == {n \in Node : phase[n] # "completed" /\ DropPending(n)}
PendingInv ==
  /\ pending_nodes = Cardinality(Holders)
  /\ execute_event = "pending" <=> Holders # {}

\* The execution is aborted after an error and only then.
AbortInv ==
  /\ abort => \E n \in Node : thunk[n] = "error"
  /\ \A n \in Node : thunk[n] = "skipped" => abort
  /\ \A n \in Node :
       thunk[n] = "error" /\ phase[n] \in {"completing", "completed"} => abort

\* A thunk has run only after the thunks it has edges from.
OrderInv ==
  \A n \in Node : Ran(n) =>
    \A e \in In(n) : Ran(e.from) /\ (e.kind = "execution" => Finished(e.from))

ExecInv ==
  /\ ExecTypeOK
  /\ \A n \in Node : NodeInv(n)
  /\ CounterInv
  /\ PendingInv
  /\ AbortInv
  /\ OrderInv
-----------------------------------------------------------------------------
(* Facts about numbers, nodes and edges.                                   *)

\* A set of naturals has a least element.
LEMMA LeastNat ==
  ASSUME NEW T \in SUBSET Nat, T # {}
  PROVE  \E x \in T : \A y \in T : x <= y
<1> DEFINE R == {p \in Nat \X Nat : p[1] < p[2]}
<1>1. IsWellFoundedOn(R, Nat)
  BY NatLessThanWellFounded, Zenon DEF OpToRel
<1>2. PICK x \in T : \A y \in T : ~ (<<y, x>> \in R)
  <2> HIDE DEF R
  <2> QED  BY <1>1, WFMin
<1>3. ASSUME NEW y \in T  PROVE x <= y
  BY <1>2, <<y, x>> \in Nat \X Nat
<1> QED  BY <1>3

\* A non-empty set of nodes has a greatest element.
LEMMA GreatestNode ==
  ASSUME NEW T \in SUBSET Node, T # {}
  PROVE  \E x \in T : \A y \in T : y <= x
<1> DEFINE D == {NumThunks - x : x \in T}
<1>1. D \in SUBSET Nat /\ D # {}
  BY NumThunksAssumption DEF Node
<1>2. PICK d \in D : \A c \in D : d <= c
  <2> HIDE DEF D
  <2> QED  BY <1>1, LeastNat
<1>3. PICK x \in T : d = NumThunks - x
  OBVIOUS
<1>4. ASSUME NEW y \in T  PROVE y <= x
  <2>1. NumThunks - y \in D
    OBVIOUS
  <2>2. d <= NumThunks - y
    BY <1>2, <2>1
  <2> QED  BY <1>3, <2>2, NumThunksAssumption DEF Node
<1> QED  BY <1>4

LEMMA NodeIsFinite == IsFiniteSet(Node)
BY FS_Interval, NumThunksAssumption DEF Node

LEMMA EdgeIsFinite == IsFiniteSet(Edge)
<1> DEFINE S == (Node \X Node) \X Kind
           All == [from : Node, to : Node, kind : Kind]
           f == [p \in S |-> [from |-> p[1][1], to |-> p[1][2], kind |-> p[2]]]
<1>1. IsFiniteSet(Kind)
  <2>1. IsFiniteSet({"scheduling"})
    BY FS_Singleton
  <2>2. IsFiniteSet({"scheduling"} \cup {"execution"})
    BY <2>1, FS_AddElement
  <2>3. Kind = {"scheduling"} \cup {"execution"}
    BY DEF Kind
  <2> QED  BY <2>2, <2>3
<1>2. IsFiniteSet(S)
  BY <1>1, NodeIsFinite, FS_Product
<1>3. f \in Surjection(S, All)
  <2>1. f \in [S -> All]
    OBVIOUS
  <2>2. ASSUME NEW e \in All  PROVE \E p \in S : f[p] = e
    <3>1. <<<<e.from, e.to>>, e.kind>> \in S
      OBVIOUS
    <3>2. f[<<<<e.from, e.to>>, e.kind>>] = e
      BY <3>1
    <3> QED  BY <3>1, <3>2
  <2> QED  BY <2>1, <2>2 DEF Surjection
<1>4. IsFiniteSet(All)
  BY <1>2, <1>3, FS_Surjection
<1> QED  BY <1>4, FS_Subset DEF Edge

LEMMA EdgesType ==
  ASSUME edges \in Graphs, NEW e \in edges
  PROVE  /\ e \in Edge /\ e.from \in Node /\ e.to \in Node
         /\ e.kind \in Kind /\ e.from < e.to
BY GraphsAssumption DEF Edge

\* The loop over the out edges reaches an edge that is left.
LEMMA NextEdgeIsLeft ==
  ASSUME NEW n \in Node, todo[n] \subseteq Edge, todo[n] # {}
  PROVE  NextEdge(n) \in todo[n]
<1> DEFINE D == {e.to : e \in todo[n]}
<1>1. D \in SUBSET Nat /\ D # {}
  BY NumThunksAssumption DEF Edge, Node
<1>2. PICK d \in D : \A c \in D : d <= c
  <2> HIDE DEF D
  <2> QED  BY <1>1, LeastNat
<1>3. \E e \in todo[n] : \A g \in todo[n] : e.to <= g.to
  BY <1>2
<1> QED  BY <1>3 DEF NextEdge

LEMMA OpenInIsFinite ==
  ASSUME edges \in Graphs, NEW n \in Node
  PROVE  IsFiniteSet(In(n)) /\ IsFiniteSet(OpenIn(n))
<1>1. In(n) \in SUBSET Edge /\ OpenIn(n) \in SUBSET Edge
  BY GraphsAssumption DEF In, OpenIn
<1> QED  BY <1>1, EdgeIsFinite, FS_Subset

LEMMA HoldersIsFinite == IsFiniteSet(Holders) /\ IsFiniteSet(Sink)
<1>1. Holders \in SUBSET Node /\ Sink \in SUBSET Node
  BY DEF Holders, Sink
<1> QED  BY <1>1, NodeIsFinite, FS_Subset
-----------------------------------------------------------------------------
(* The invariant holds initially and is preserved by every step.           *)

LEMMA SinkIsNotEmpty ==
  ASSUME edges \in Graphs
  PROVE  NumThunks - 1 \in Sink
<1>1. NumThunks - 1 \in Node
  BY NumThunksAssumption DEF Node
<1>2. ASSUME NEW e \in edges  PROVE e.from # NumThunks - 1
  BY EdgesType, NumThunksAssumption DEF Node
<1> QED  BY <1>1, <1>2 DEF Sink, Out

LEMMA InitInv == ExecInit => ExecInv
<1> SUFFICES ASSUME ExecInit PROVE ExecInv
  OBVIOUS
<1> USE DEF ExecInit
<1>1. ExecTypeOK
  <2>1. \A n \in Node : Cardinality(In(n)) \in Nat
    BY OpenInIsFinite, FS_CardinalityType
  <2>2. Cardinality(Sink) \in Nat
    BY HoldersIsFinite, FS_CardinalityType
  <2> QED  BY <2>1, <2>2 DEF ExecTypeOK, Phase, Status
<1>2. \A n \in Node : NodeInv(n)
  BY DEF NodeInv, Source
<1>3. CounterInv
  <2> SUFFICES ASSUME NEW n \in Node
               PROVE  counter[n] = Cardinality(OpenIn(n))
                      /\ (phase[n] = "blocked" <=> OpenIn(n) # {})
    BY DEF CounterInv
  <2>1. ASSUME NEW e \in edges  PROVE Open(e)
    BY EdgesType, phase[e.from] \in {"ready", "blocked"} DEF Open
  <2>2. OpenIn(n) = In(n)
    BY <2>1 DEF OpenIn, In
  <2> QED  BY <2>2 DEF Source
<1>4. PendingInv
  <2>1. Holders = Sink
    BY DEF Holders, DropPending, Sink
  <2> QED  BY <2>1, SinkIsNotEmpty DEF PendingInv
<1>5. AbortInv /\ OrderInv
  BY DEF AbortInv, OrderInv, Ran
<1> QED  BY <1>1, <1>2, <1>3, <1>4, <1>5 DEF ExecInv

\* A step that opens and closes no edge keeps the counters right.
LEMMA SameCounters ==
  ASSUME CounterInv, edges' = edges, counter' = counter,
         \A e \in edges : Open(e)' <=> Open(e),
         \A m \in Node : phase'[m] = "blocked" <=> phase[m] = "blocked"
  PROVE  CounterInv'
<1>1. \A m \in Node : OpenIn(m)' = OpenIn(m)
  BY DEF OpenIn, In
<1> QED  BY <1>1 DEF CounterInv

\* A step after which the same nodes hold the execution keeps PendingInv.
LEMMA SamePending ==
  ASSUME PendingInv, pending_nodes' = pending_nodes,
         execute_event' = execute_event, edges' = edges, inc' = inc,
         \A m \in Node : phase'[m] = "completed" <=> phase[m] = "completed"
  PROVE  PendingInv'
<1>1. Holders' = Holders
  BY DEF Holders, DropPending, Sink, Out
<1> QED  BY <1>1 DEF PendingInv

\* A step that starts and finishes no thunk keeps the order of the thunks.
LEMMA SameOrder ==
  ASSUME OrderInv, edges' = edges, thunk' = thunk
  PROVE  OrderInv'
BY DEF OrderInv, Ran, Finished, In

\* A step that touches node n only, and neither edges nor inc, keeps the
\* invariant of the others.
LEMMA OtherNodes ==
  ASSUME ExecTypeOK, \A m \in Node : NodeInv(m), NEW n \in Node,
         edges' = edges,
         \A m \in Node \ {n} : /\ phase'[m] = phase[m] /\ todo'[m] = todo[m]
                               /\ thunk'[m] = thunk[m] /\ inc'[m] = inc[m]
  PROVE  \A m \in Node \ {n} : NodeInv(m)'
BY DEF NodeInv, Out, Scheduling

\* What is left to do for a node when the execution is over: nothing but the
\* return from ProcessCompletedOutEdges.
Quiet(n) == phase[n] = "completed" \/ (phase[n] = "completing" /\ todo[n] = {})

\* While some node has work left, some node holds the execution pending.  The
\* last node with work left, in the order of the sequence, has closed all its
\* out edges, since none of their targets is blocked; it is no sink and has no
\* pending node of its own, so it has passed its loops over the out edges.
LEMMA AllIsQuiet ==
  ASSUME ExecInv, Holders = {}
  PROVE  \A n \in Node : Quiet(n)
<1> USE DEF ExecInv
<1> DEFINE Busy == {n \in Node : ~Quiet(n)}
<1>1. SUFFICES ASSUME Busy # {} PROVE FALSE
  OBVIOUS
<1>2. PICK n \in Busy : \A m \in Busy : m <= n
  <2>1. Busy \in SUBSET Node
    OBVIOUS
  <2> HIDE DEF Busy
  <2> QED  BY <1>1, <2>1, GreatestNode
<1>3. n \in Node /\ ~Quiet(n) /\ NodeInv(n)
  OBVIOUS
<1>4. n \notin Sink /\ ~inc[n]
  BY <1>3 DEF Holders, DropPending, Quiet
<1>5. ASSUME NEW e \in Out(n)  PROVE ~Open(e)
  <2>1. e \in edges /\ e.to \in Node /\ e.from = n /\ n < e.to
    BY EdgesType DEF Out, ExecTypeOK
  <2>2. e.to \notin Busy
    BY <1>2, <2>1, NumThunksAssumption DEF Node
  <2>3. phase[e.to] # "blocked"
    BY <2>1, <2>2 DEF Quiet
  <2>4. OpenIn(e.to) = {}
    BY <2>1, <2>3 DEF CounterInv
  <2> QED  BY <2>1, <2>4 DEF OpenIn, In
<1>6. PICK e \in Out(n) : TRUE
  BY <1>3, <1>4 DEF Sink
<1>7. e.from = n /\ e.kind \in Kind
  BY EdgesType DEF Out, ExecTypeOK
<1>8. phase[n] \in {"scheduling", "async", "completing"}
  BY <1>3, <1>5, <1>7 DEF Open, Quiet, ExecTypeOK, Phase
<1>9. CASE phase[n] = "completing"
  <2>1. todo[n] = {}
    BY <1>3, <1>5 DEF NodeInv, Open, Out
  <2> QED  BY <1>3, <1>9, <2>1 DEF Quiet
<1>10. CASE phase[n] \in {"scheduling", "async"}
  <2>1. e \in Scheduling(n)
    BY <1>5, <1>7, <1>10 DEF Open, Scheduling, Kind
  <2>2. phase[n] = "scheduling" /\ e \in todo[n]
    BY <1>3, <1>4, <1>10, <2>1 DEF NodeInv
  <2> QED  BY <1>5, <1>7, <2>2 DEF Open
<1> QED  BY <1>8, <1>9, <1>10

LEMMA StartInv ==
  ASSUME ExecInv, NEW n \in Node, phase[n] = "ready", Start(n)
  PROVE  ExecInv'
<1> USE DEF ExecInv
<1>0. /\ edges' = edges /\ counter' = counter /\ pending_nodes' = pending_nodes
      /\ abort' = abort /\ execute_event' = execute_event /\ inc' = inc
  BY DEF Start
<1>1. NodeInv(n) /\ thunk[n] = "idle" /\ todo[n] = {} /\ ~inc[n]
  BY DEF NodeInv
<1>2. CASE abort
  <2>1. /\ thunk' = [thunk EXCEPT ![n] = "skipped"]
        /\ phase' = [phase EXCEPT ![n] = "completing"]
        /\ todo' = [todo EXCEPT ![n] = Out(n)]
    BY <1>2 DEF Start, Enter
  <2>2. ExecTypeOK'
    BY <1>0, <2>1, EdgesType DEF ExecTypeOK, Phase, Status, Out
  <2>3. NodeInv(n)'
    BY <1>0, <1>1, <2>1 DEF NodeInv, ExecTypeOK, Out
  <2>4. \A m \in Node : NodeInv(m)'
    BY <1>0, <2>1, <2>3, OtherNodes DEF ExecTypeOK
  <2>5. ASSUME NEW e \in edges  PROVE Open(e)' <=> Open(e)
    BY <2>1, EdgesType DEF Open, ExecTypeOK, Out
  <2>6. CounterInv'
    BY <1>0, <2>1, <2>5, SameCounters DEF ExecTypeOK
  <2>7. PendingInv'
    BY <1>0, <2>1, SamePending DEF ExecTypeOK
  <2>8. AbortInv'
    BY <1>0, <1>1, <1>2, <2>1 DEF AbortInv, ExecTypeOK
  <2>9. OrderInv'
    BY <1>0, <1>1, <2>1, EdgesType DEF OrderInv, Ran, Finished, In, ExecTypeOK
  <2> QED  BY <2>2, <2>4, <2>6, <2>7, <2>8, <2>9
<1>3. CASE ~abort
  <2>1. /\ thunk' = [thunk EXCEPT ![n] = "running"]
        /\ phase' = [phase EXCEPT ![n] = "running"]
        /\ todo' = todo
    BY <1>3 DEF Start
  <2>2. ExecTypeOK'
    BY <1>0, <2>1 DEF ExecTypeOK, Phase, Status
  <2>3. NodeInv(n)'
    BY <1>0, <1>1, <2>1 DEF NodeInv, ExecTypeOK, Out
  <2>4. \A m \in Node : NodeInv(m)'
    BY <1>0, <2>1, <2>3, OtherNodes DEF ExecTypeOK
  <2>5. ASSUME NEW e \in edges  PROVE Open(e)' <=> Open(e)
    BY <2>1, EdgesType DEF Open, ExecTypeOK
  <2>6. CounterInv'
    BY <1>0, <2>1, <2>5, SameCounters DEF ExecTypeOK
  <2>7. PendingInv'
    BY <1>0, <2>1, SamePending DEF ExecTypeOK
  <2>8. AbortInv'
    BY <1>0, <1>1, <1>3, <2>1 DEF AbortInv, ExecTypeOK
  <2>9. ASSUME NEW e \in In(n)
        PROVE  Ran(e.from) /\ (e.kind = "execution" => Finished(e.from))
    <3>1. e \in edges /\ e.from \in Node /\ NodeInv(e.from)
      BY EdgesType DEF In, ExecTypeOK
    <3>2. ~Open(e)
      BY DEF CounterInv, OpenIn
    <3>3. thunk[e.from] # "skipped"
      BY <1>3, <3>1 DEF AbortInv
    <3> QED  BY <3>1, <3>2, <3>3
             DEF Open, NodeInv, Ran, Finished, ExecTypeOK, Phase, Status
  <2>10. OrderInv'
    <3> SUFFICES ASSUME NEW m \in Node, Ran(m)', NEW e \in In(m)
                 PROVE  Ran(e.from)' /\ (e.kind = "execution" => Finished(e.from)')
      BY <1>0 DEF OrderInv, In
    <3>1. e.from \in Node
      BY EdgesType DEF In, ExecTypeOK
    <3>2. Ran(e.from) /\ (e.kind = "execution" => Finished(e.from))
      BY <2>1, <2>9 DEF OrderInv, Ran, ExecTypeOK
    <3> QED  BY <1>1, <2>1, <3>1, <3>2 DEF Ran, Finished, ExecTypeOK
  <2> QED  BY <2>2, <2>4, <2>6, <2>7, <2>8, <2>10
<1> QED  BY <1>2, <1>3

LEMMA ReturnAvailableInv ==
  ASSUME ExecInv, NEW n \in Node, phase[n] = "running", NEW r \in Result,
         ReturnAvailable(n, r)
  PROVE  ExecInv'
<1> USE DEF ExecInv, Result
<1>0. /\ edges' = edges /\ counter' = counter /\ pending_nodes' = pending_nodes
      /\ abort' = (abort \/ r = "error") /\ execute_event' = execute_event
      /\ inc' = inc
      /\ thunk' = [thunk EXCEPT ![n] = r]
      /\ phase' = [phase EXCEPT ![n] = "completing"]
      /\ todo' = [todo EXCEPT ![n] = Out(n)]
  BY DEF ReturnAvailable, Enter
<1>1. NodeInv(n) /\ thunk[n] = "running" /\ todo[n] = {} /\ ~inc[n]
  BY DEF NodeInv
<1>2. ExecTypeOK'
  BY <1>0, EdgesType DEF ExecTypeOK, Phase, Status, Out
<1>3. NodeInv(n)'
  BY <1>0, <1>1 DEF NodeInv, ExecTypeOK, Out
<1>4. \A m \in Node : NodeInv(m)'
  BY <1>0, <1>3, OtherNodes DEF ExecTypeOK
<1>5. ASSUME NEW e \in edges  PROVE Open(e)' <=> Open(e)
  BY <1>0, EdgesType DEF Open, ExecTypeOK, Out
<1>6. CounterInv'
  BY <1>0, <1>5, SameCounters DEF ExecTypeOK
<1>7. PendingInv'
  BY <1>0, SamePending DEF ExecTypeOK
<1>8. AbortInv'
  BY <1>0, <1>1 DEF AbortInv, ExecTypeOK
<1>9. OrderInv'
  BY <1>0, <1>1, EdgesType DEF OrderInv, Ran, Finished, In, ExecTypeOK
<1> QED  BY <1>2, <1>4, <1>6, <1>7, <1>8, <1>9

LEMMA ReturnAsyncInv ==
  ASSUME ExecInv, NEW n \in Node, phase[n] = "running", ReturnAsync(n)
  PROVE  ExecInv'
<1> USE DEF ExecInv
<1>0. /\ edges' = edges /\ counter' = counter /\ pending_nodes' = pending_nodes
      /\ abort' = abort /\ execute_event' = execute_event
      /\ inc' = inc /\ thunk' = thunk
      /\ phase' = [phase EXCEPT ![n] = "scheduling"]
      /\ todo' = [todo EXCEPT ![n] = Scheduling(n)]
  BY DEF ReturnAsync, Enter
<1>1. NodeInv(n) /\ thunk[n] = "running" /\ todo[n] = {} /\ ~inc[n]
  BY DEF NodeInv
<1>2. ExecTypeOK'
  BY <1>0, EdgesType DEF ExecTypeOK, Phase, Out, Scheduling
<1>3. NodeInv(n)'
  BY <1>0, <1>1 DEF NodeInv, ExecTypeOK, Out, Scheduling
<1>4. \A m \in Node : NodeInv(m)'
  BY <1>0, <1>3, OtherNodes DEF ExecTypeOK
<1>5. ASSUME NEW e \in edges  PROVE Open(e)' <=> Open(e)
  BY <1>0, EdgesType DEF Open, ExecTypeOK, Out, Scheduling, Kind
<1>6. CounterInv'
  BY <1>0, <1>5, SameCounters DEF ExecTypeOK
<1>7. PendingInv'
  BY <1>0, SamePending DEF ExecTypeOK
<1>8. AbortInv'
  BY <1>0, <1>1 DEF AbortInv, ExecTypeOK
<1>9. OrderInv'
  BY <1>0, SameOrder
<1> QED  BY <1>2, <1>4, <1>6, <1>7, <1>8, <1>9

LEMMA IncPendingInv ==
  ASSUME ExecInv, NEW n \in Node, phase[n] = "scheduling", todo[n] # {},
         ~inc[n], IncPending(n)
  PROVE  ExecInv'
<1> USE DEF ExecInv
<1>0. /\ edges' = edges /\ counter' = counter
      /\ pending_nodes' = pending_nodes + 1
      /\ abort' = abort /\ execute_event' = execute_event
      /\ thunk' = thunk /\ phase' = phase /\ todo' = todo
      /\ inc' = [inc EXCEPT ![n] = TRUE]
  BY DEF IncPending
<1>1. NodeInv(n)
  OBVIOUS
<1>2. ExecTypeOK'
  BY <1>0 DEF ExecTypeOK
<1>3. NodeInv(n)'
  BY <1>0, <1>1 DEF NodeInv, ExecTypeOK, Out, Scheduling
<1>4. \A m \in Node : NodeInv(m)'
  BY <1>0, <1>3, OtherNodes DEF ExecTypeOK
<1>5. ASSUME NEW e \in edges  PROVE Open(e)' <=> Open(e)
  BY <1>0 DEF Open
<1>6. CounterInv'
  BY <1>0, <1>5, SameCounters
<1>7. PendingInv'
  <2>1. n \notin Holders
    BY <1>1 DEF Holders, DropPending, Sink, NodeInv
  <2>2. Holders' = Holders \cup {n}
    BY <1>0 DEF Holders, DropPending, Sink, Out, ExecTypeOK
  <2>3. Holders # {}
    BY <1>1, AllIsQuiet DEF Quiet
  <2>4. Cardinality(Holders') = Cardinality(Holders) + 1
    BY <2>1, <2>2, HoldersIsFinite, FS_AddElement
  <2> QED  BY <1>0, <2>2, <2>3, <2>4 DEF PendingInv
<1>8. AbortInv'
  BY <1>0 DEF AbortInv
<1>9. OrderInv'
  BY <1>0, SameOrder
<1> QED  BY <1>2, <1>4, <1>6, <1>7, <1>8, <1>9

LEMMA AttachInv ==
  ASSUME ExecInv, NEW n \in Node, phase[n] = "scheduling", todo[n] = {},
         Attach(n)
  PROVE  ExecInv'
<1> USE DEF ExecInv
<1>0. /\ edges' = edges /\ counter' = counter /\ pending_nodes' = pending_nodes
      /\ abort' = abort /\ execute_event' = execute_event
      /\ inc' = inc /\ thunk' = thunk /\ todo' = todo
      /\ phase' = [phase EXCEPT ![n] = "async"]
  BY DEF Attach
<1>1. NodeInv(n)
  OBVIOUS
<1>2. ExecTypeOK'
  BY <1>0 DEF ExecTypeOK, Phase
<1>3. NodeInv(n)'
  BY <1>0, <1>1 DEF NodeInv, ExecTypeOK, Out, Scheduling
<1>4. \A m \in Node : NodeInv(m)'
  BY <1>0, <1>3, OtherNodes DEF ExecTypeOK
<1>5. ASSUME NEW e \in edges  PROVE Open(e)' <=> Open(e)
  BY <1>0, EdgesType DEF Open, ExecTypeOK
<1>6. CounterInv'
  BY <1>0, <1>5, SameCounters DEF ExecTypeOK
<1>7. PendingInv'
  BY <1>0, SamePending DEF ExecTypeOK
<1>8. AbortInv'
  BY <1>0 DEF AbortInv, ExecTypeOK
<1>9. OrderInv'
  BY <1>0, SameOrder
<1> QED  BY <1>2, <1>4, <1>6, <1>7, <1>8, <1>9

LEMMA ThunkDoneInv ==
  ASSUME ExecInv, NEW n \in Node, phase[n] \in {"scheduling", "async"},
         thunk[n] = "running", NEW r \in Result, ThunkDone(n, r)
  PROVE  ExecInv'
<1> USE DEF ExecInv, Result
<1>0. /\ edges' = edges /\ counter' = counter /\ pending_nodes' = pending_nodes
      /\ abort' = abort /\ execute_event' = execute_event
      /\ inc' = inc /\ phase' = phase /\ todo' = todo
      /\ thunk' = [thunk EXCEPT ![n] = r]
  BY DEF ThunkDone
<1>1. NodeInv(n)
  OBVIOUS
<1>2. ExecTypeOK'
  BY <1>0 DEF ExecTypeOK, Status
<1>3. NodeInv(n)'
  BY <1>0, <1>1 DEF NodeInv, ExecTypeOK, Out, Scheduling
<1>4. \A m \in Node : NodeInv(m)'
  BY <1>0, <1>3, OtherNodes DEF ExecTypeOK
<1>5. ASSUME NEW e \in edges  PROVE Open(e)' <=> Open(e)
  BY <1>0 DEF Open
<1>6. CounterInv'
  BY <1>0, <1>5, SameCounters
<1>7. PendingInv'
  BY <1>0, SamePending
<1>8. AbortInv'
  <2>1. abort' => \E m \in Node : thunk'[m] = "error"
    BY <1>0 DEF AbortInv, ExecTypeOK
  <2> QED  BY <1>0, <2>1 DEF AbortInv, ExecTypeOK
<1>9. OrderInv'
  BY <1>0, EdgesType DEF OrderInv, Ran, Finished, In, ExecTypeOK
<1> QED  BY <1>2, <1>4, <1>6, <1>7, <1>8, <1>9

LEMMA ContinueInv ==
  ASSUME ExecInv, NEW n \in Node, phase[n] = "async", Finished(n), Continue(n)
  PROVE  ExecInv'
<1> USE DEF ExecInv
<1>0. /\ edges' = edges /\ counter' = counter /\ pending_nodes' = pending_nodes
      /\ abort' = (abort \/ thunk[n] = "error") /\ execute_event' = execute_event
      /\ inc' = inc /\ thunk' = thunk
      /\ phase' = [phase EXCEPT ![n] = "completing"]
      /\ todo' = [todo EXCEPT ![n] = Execution(n)]
  BY DEF Continue, Enter
<1>1. NodeInv(n) /\ todo[n] = {}
  BY DEF NodeInv
<1>2. ExecTypeOK'
  BY <1>0, EdgesType DEF ExecTypeOK, Phase, Out, Execution
<1>3. NodeInv(n)'
  BY <1>0, <1>1 DEF NodeInv, ExecTypeOK, Out, Execution, Finished
<1>4. \A m \in Node : NodeInv(m)'
  BY <1>0, <1>3, OtherNodes DEF ExecTypeOK
<1>5. ASSUME NEW e \in edges  PROVE Open(e)' <=> Open(e)
  BY <1>0, <1>1, EdgesType DEF Open, ExecTypeOK, Out, Execution
<1>6. CounterInv'
  BY <1>0, <1>5, SameCounters DEF ExecTypeOK
<1>7. PendingInv'
  BY <1>0, SamePending DEF ExecTypeOK
<1>8. AbortInv'
  BY <1>0 DEF AbortInv, ExecTypeOK
<1>9. OrderInv'
  BY <1>0, SameOrder
<1> QED  BY <1>2, <1>4, <1>6, <1>7, <1>8, <1>9

LEMMA SettleInv ==
  ASSUME ExecInv, NEW n \in Node, phase[n] = "completing", todo[n] = {},
         Settle(n)
  PROVE  ExecInv'
<1> USE DEF ExecInv
<1>0. /\ edges' = edges /\ counter' = counter /\ abort' = abort
      /\ inc' = inc /\ thunk' = thunk /\ todo' = todo
      /\ phase' = [phase EXCEPT ![n] = "completed"]
  BY DEF Settle
<1>1. NodeInv(n)
  OBVIOUS
<1>2. Cardinality(Holders) \in Nat
  BY HoldersIsFinite, FS_CardinalityType
<1>3. ExecTypeOK' /\ PendingInv'
  <2>1. CASE DropPending(n)
    <3>1. n \in Holders
      BY <2>1 DEF Holders
    <3>2. Holders' = Holders \ {n}
      BY <1>0 DEF Holders, DropPending, Sink, Out, ExecTypeOK
    <3>3. Cardinality(Holders') = Cardinality(Holders) - 1
      BY <3>1, <3>2, HoldersIsFinite, FS_RemoveElement
    <3>4. Cardinality(Holders) # 0
      BY <3>1, HoldersIsFinite, FS_EmptySet
    <3>5. Cardinality(Holders') = 0 <=> Holders' = {}
      BY <3>2, HoldersIsFinite, FS_EmptySet, FS_RemoveElement
    <3>6. execute_event = "pending"
      BY <3>1 DEF PendingInv
    <3>7. /\ pending_nodes' = pending_nodes - 1
          /\ execute_event' = IF pending_nodes = 1
                              THEN IF abort THEN "error" ELSE "ok"
                              ELSE execute_event
      BY <2>1 DEF Settle
    <3>8. PendingInv'
      BY <1>2, <3>3, <3>4, <3>5, <3>6, <3>7 DEF PendingInv
    <3>9. ExecTypeOK'
      BY <1>0, <1>2, <3>4, <3>7 DEF ExecTypeOK, Phase, PendingInv
    <3> QED  BY <3>8, <3>9
  <2>2. CASE ~DropPending(n)
    <3>1. pending_nodes' = pending_nodes /\ execute_event' = execute_event
      BY <2>2 DEF Settle
    <3>2. Holders' = Holders
      BY <1>0, <2>2 DEF Holders, DropPending, Sink, Out, ExecTypeOK
    <3>3. PendingInv'
      BY <3>1, <3>2 DEF PendingInv
    <3>4. ExecTypeOK'
      BY <1>0, <3>1 DEF ExecTypeOK, Phase
    <3> QED  BY <3>3, <3>4
  <2> QED  BY <2>1, <2>2
<1>4. NodeInv(n)'
  BY <1>0, <1>1 DEF NodeInv, ExecTypeOK, Out
<1>5. \A m \in Node : NodeInv(m)'
  BY <1>0, <1>4, OtherNodes DEF ExecTypeOK
<1>6. ASSUME NEW e \in edges  PROVE Open(e)' <=> Open(e)
  BY <1>0, EdgesType DEF Open, ExecTypeOK
<1>7. CounterInv'
  BY <1>0, <1>6, SameCounters DEF ExecTypeOK
<1>8. AbortInv'
  BY <1>0 DEF AbortInv, ExecTypeOK
<1>9. OrderInv'
  BY <1>0, SameOrder
<1> QED  BY <1>3, <1>5, <1>7, <1>8, <1>9

LEMMA DropEdgeInv ==
  ASSUME ExecInv, NEW n \in Node, todo[n] # {}, DropEdge(n),
         phase[n] = "completing" \/ (phase[n] = "scheduling" /\ inc[n])
  PROVE  ExecInv'
<1> USE DEF ExecInv
<1>0. NodeInv(n)
  OBVIOUS
<1>1. PICK e \in todo[n], m \in Node :
        e = NextEdge(n) /\ m = e.to /\ e \in edges /\ e.from = n /\ n < m
  <2>1. NextEdge(n) \in todo[n]
    BY NextEdgeIsLeft DEF ExecTypeOK
  <2>2. NextEdge(n) \in edges /\ NextEdge(n).from = n
    BY <1>0, <2>1 DEF NodeInv, Out
  <2> QED  BY <2>1, <2>2, EdgesType DEF ExecTypeOK
<1>2. /\ edges' = edges /\ pending_nodes' = pending_nodes /\ abort' = abort
      /\ execute_event' = execute_event /\ thunk' = thunk /\ inc' = inc
      /\ counter' = [counter EXCEPT ![m] = counter[m] - 1]
      /\ phase' = IF counter[m] = 1 THEN [phase EXCEPT ![m] = "ready"] ELSE phase
      /\ todo' = [todo EXCEPT ![n] = todo[n] \ {e}]
  BY <1>1 DEF DropEdge, Ready
<1>3. n # m
  BY <1>1 DEF Node
<1>4. Open(e) /\ e \in OpenIn(m) /\ phase[m] = "blocked"
  BY <1>1 DEF Open, OpenIn, In, CounterInv
<1>5. NodeInv(m) /\ todo[m] = {} /\ ~inc[m] /\ thunk[m] = "idle"
  BY <1>1, <1>4 DEF NodeInv
<1>6. counter[m] \in Nat /\ counter[m] # 0
  BY <1>1, <1>4, OpenInIsFinite, FS_EmptySet DEF CounterInv, ExecTypeOK
<1>7. \A k \in Node : phase'[k] = IF k = m /\ counter[m] = 1 THEN "ready" ELSE phase[k]
  BY <1>1, <1>2 DEF ExecTypeOK
<1>8. ExecTypeOK'
  BY <1>1, <1>2, <1>6 DEF ExecTypeOK, Phase
<1>9. \A k \in Node : NodeInv(k)'
  <2>1. NodeInv(n)'
    BY <1>0, <1>2, <1>3, <1>7 DEF NodeInv, ExecTypeOK, Out, Scheduling
  <2>2. NodeInv(m)'
    BY <1>1, <1>2, <1>3, <1>4, <1>5, <1>7 DEF NodeInv, ExecTypeOK, Out, Scheduling
  <2>3. ASSUME NEW k \in Node, k # n, k # m  PROVE NodeInv(k)'
    <3>1. phase'[k] = phase[k] /\ todo'[k] = todo[k]
      BY <1>2, <1>7, <2>3 DEF ExecTypeOK
    <3>2. NodeInv(k)
      OBVIOUS
    <3> QED  BY <1>2, <3>1, <3>2 DEF NodeInv, Out, Scheduling
  <2> QED  BY <2>1, <2>2, <2>3
<1>10. ASSUME NEW f \in edges  PROVE Open(f)' <=> Open(f) /\ f # e
  <2>1. f.from \in Node
    BY EdgesType DEF ExecTypeOK
  <2>2. CASE f = e
    <3>1. phase[n] = "scheduling" => e.kind # "execution"
      BY <1>0, <1>1 DEF NodeInv, Scheduling
    <3> QED  BY <1>1, <1>2, <1>3, <1>7, <2>2, <3>1 DEF Open, ExecTypeOK
  <2>3. CASE f # e
    BY <1>1, <1>2, <1>3, <1>4, <1>7, <2>1, <2>3 DEF Open, ExecTypeOK
  <2> QED  BY <2>2, <2>3
<1>11. CounterInv'
  <2>1. ASSUME NEW k \in Node, k # m
        PROVE  /\ counter'[k] = Cardinality(OpenIn(k)')
               /\ phase'[k] = "blocked" <=> OpenIn(k)' # {}
    <3>1. OpenIn(k)' = OpenIn(k)
      BY <1>1, <1>2, <1>10, <2>1 DEF OpenIn, In
    <3> QED  BY <1>2, <1>7, <2>1, <3>1 DEF CounterInv, ExecTypeOK
  <2>2. OpenIn(m)' = OpenIn(m) \ {e}
    BY <1>2, <1>10 DEF OpenIn, In
  <2>3. IsFiniteSet(OpenIn(m))
    BY OpenInIsFinite DEF ExecTypeOK
  <2>4. IsFiniteSet(OpenIn(m) \ {e})
        /\ Cardinality(OpenIn(m) \ {e}) = Cardinality(OpenIn(m)) - 1
    BY <1>4, <2>3, FS_RemoveElement
  <2>5. Cardinality(OpenIn(m) \ {e}) = counter[m] - 1
    BY <2>4 DEF CounterInv
  <2>6. OpenIn(m) \ {e} = {} <=> counter[m] = 1
    <3>1. OpenIn(m) \ {e} = {} <=> counter[m] - 1 = 0
      BY <2>4, <2>5, FS_EmptySet
    <3> QED  BY <1>6, <3>1
  <2>7. /\ counter'[m] = Cardinality(OpenIn(m)')
        /\ phase'[m] = "blocked" <=> OpenIn(m)' # {}
    BY <1>1, <1>2, <1>4, <1>7, <2>2, <2>5, <2>6 DEF ExecTypeOK
  <2> QED  BY <2>1, <2>7 DEF CounterInv
<1>12. PendingInv'
  BY <1>2, <1>4, <1>7, SamePending
<1>13. AbortInv'
  BY <1>2, <1>4, <1>7 DEF AbortInv
<1>14. OrderInv'
  BY <1>2, SameOrder
<1> QED  BY <1>8, <1>9, <1>11, <1>12, <1>13, <1>14

LEMMA ExecNextInv == ExecInv /\ [ExecNext]_execVars => ExecInv'
<1> SUFFICES ASSUME ExecInv, [ExecNext]_execVars PROVE ExecInv'
  OBVIOUS
<1>1. ASSUME NEW n \in Node, Process(n)  PROVE ExecInv'
  <2>1. CASE phase[n] = "ready" /\ Start(n)
    BY <2>1, StartInv
  <2>2. CASE phase[n] = "running" /\ \E r \in Result : ReturnAvailable(n, r)
    BY <2>2, ReturnAvailableInv
  <2>3. CASE phase[n] = "running" /\ ReturnAsync(n)
    BY <2>3, ReturnAsyncInv
  <2>4. CASE ScheduleEdge(n)
    BY <2>4, IncPendingInv, DropEdgeInv DEF ScheduleEdge
  <2>5. CASE phase[n] = "scheduling" /\ todo[n] = {} /\ Attach(n)
    BY <2>5, AttachInv
  <2>6. CASE /\ phase[n] \in {"scheduling", "async"} /\ thunk[n] = "running"
             /\ \E r \in Result : ThunkDone(n, r)
    BY <2>6, ThunkDoneInv
  <2>7. CASE phase[n] = "async" /\ Finished(n) /\ Continue(n)
    BY <2>7, ContinueInv
  <2>8. CASE phase[n] = "completing" /\ todo[n] # {} /\ DropEdge(n)
    BY <2>8, DropEdgeInv
  <2>9. CASE phase[n] = "completing" /\ todo[n] = {} /\ Settle(n)
    BY <2>9, SettleInv
  <2> QED  BY <1>1, <2>1, <2>2, <2>3, <2>4, <2>5, <2>6, <2>7, <2>8, <2>9
           DEF Process, Result
<1>2. CASE UNCHANGED execVars
  <2>1. /\ edges' = edges /\ counter' = counter /\ pending_nodes' = pending_nodes
        /\ abort' = abort /\ execute_event' = execute_event /\ thunk' = thunk
        /\ phase' = phase /\ todo' = todo /\ inc' = inc
    BY <1>2 DEF execVars
  <2>2. ExecTypeOK' /\ AbortInv'
    BY <2>1 DEF ExecInv, ExecTypeOK, AbortInv
  <2>3. \A n \in Node : NodeInv(n)'
    BY <2>1 DEF ExecInv, NodeInv, Out, Scheduling
  <2>4. CounterInv'
    BY <2>1, SameCounters DEF ExecInv, Open
  <2>5. PendingInv'
    BY <2>1, SamePending DEF ExecInv
  <2>6. OrderInv'
    BY <2>1, SameOrder DEF ExecInv
  <2> QED  BY <2>2, <2>3, <2>4, <2>5, <2>6 DEF ExecInv
<1> QED  BY <1>1, <1>2 DEF ExecNext

THEOREM ExecInvHolds == ExecSpec => []ExecInv
BY InitInv, ExecNextInv, PTL DEF ExecSpec
-----------------------------------------------------------------------------
(* What the invariant is for.                                              *)

\* In every state of every execution the nodes are processed when the event
\* fires: pending_nodes never reaches zero too early.
THEOREM NothingIsLeftAfterEvent == ExecSpec => []NothingLeftAfterEvent
<1>1. ExecInv => NothingLeftAfterEvent
  <2> SUFFICES ASSUME ExecInv, execute_event # "pending", NEW n \in Node
               PROVE  \/ phase[n] = "completed"
                      \/ /\ phase[n] = "completing" /\ todo[n] = {}
                         /\ ~DropPending(n)
    BY DEF NothingLeftAfterEvent
  <2>1. Holders = {}
    BY DEF ExecInv, PendingInv
  <2>2. Quiet(n)
    BY <2>1, AllIsQuiet
  <2> QED  BY <2>1, <2>2 DEF Quiet, Holders
<1> QED  BY <1>1, ExecInvHolds, PTL

\* Thunks on a path that begins with an execution edge never overlap: the
\* thunks that ran only if the first one had finished contain the target of
\* the edge and are closed under out edges, by OrderInv.
THEOREM OrderIsKept == ExecSpec => []OrderedThunksNeverOverlap
<1>1. ExecInv => OrderedThunksNeverOverlap
  <2> SUFFICES ASSUME ExecInv, NEW e \in edges, e.kind = "execution",
                      NEW n \in {e.to} \cup Reachable(e.to), Ran(n)
               PROVE  Finished(e.from)
    BY DEF OrderedThunksNeverOverlap
  <2> DEFINE S == {k \in Node : Ran(k) => Finished(e.from)}
  <2>1. e.to \in S
    BY EdgesType DEF ExecInv, ExecTypeOK, OrderInv, In
  <2>2. ASSUME NEW f \in edges, f.from \in S  PROVE f.to \in S
    <3>1. f.to \in Node /\ f \in In(f.to)
      BY EdgesType DEF ExecInv, ExecTypeOK, In
    <3>2. Ran(f.to) => Ran(f.from)
      BY <3>1 DEF ExecInv, OrderInv
    <3> QED  BY <2>2, <3>1, <3>2
  <2>3. \A f \in Out(e.to) : f.to \in S
    BY <2>1, <2>2 DEF Out
  <2>4. n \in S
    <3>1. S \in SUBSET Node
      OBVIOUS
    <3> HIDE DEF S
    <3> QED  BY <2>1, <2>2, <2>3, <3>1 DEF Reachable
  <2> QED  BY <2>4
<1> QED  BY <1>1, ExecInvHolds, PTL

\* The refinement mapping of Schedule.
Started == {n \in Node : Ran(n)}
Done == {n \in Node : Finished(n)}
Failed == {n \in Node : thunk[n] = "error"}

\* A step that starts and finishes no thunk and does not fire the event is a
\* stuttering step of ThunkSchedule.
LEMMA ScheduleStutters ==
  ASSUME edges' = edges, thunk' = thunk, execute_event' = execute_event
  PROVE  UNCHANGED Schedule!vars
BY DEF Schedule!vars, Ran, Finished

LEMMA StartIsScheduled ==
  ASSUME ExecInv, NEW n \in Node, phase[n] = "ready", Start(n)
  PROVE  [Schedule!Next]_(Schedule!vars)
<1>1. edges' = edges /\ execute_event' = execute_event
  BY DEF Start
<1>2. thunk[n] = "idle" /\ thunk \in [Node -> Status]
  BY DEF ExecInv, NodeInv, ExecTypeOK
<1>3. CASE abort
  <2>1. thunk' = [thunk EXCEPT ![n] = "skipped"]
    BY <1>3 DEF Start
  <2>2. Started' = Started /\ Done' = Done /\ Failed' = Failed
    BY <1>2, <2>1 DEF Started, Done, Failed, Ran, Finished
  <2> QED  BY <1>1, <2>2 DEF Schedule!vars, Started, Done, Failed
<1>4. CASE ~abort
  <2>1. thunk' = [thunk EXCEPT ![n] = "running"]
    BY <1>4 DEF Start
  <2>2. Started' = Started \cup {n} /\ Done' = Done /\ Failed' = Failed
    BY <1>2, <2>1 DEF Started, Done, Failed, Ran, Finished
  <2>3. n \notin Started
    BY <1>2 DEF Started, Ran
  <2>4. execute_event = "pending"
    BY AllIsQuiet DEF ExecInv, PendingInv, Quiet
  <2>5. ASSUME NEW e \in edges, e.to = n
        PROVE  IF e.kind = "execution" THEN e.from \in Done ELSE e.from \in Started
    <3>1. ExecInv'
      BY StartInv
    <3>2. Ran(n)' /\ e \in In(n)'
      BY <1>1, <1>2, <2>1, <2>5 DEF Ran, In
    <3>3. e.from \in Node /\ e.from # n
      BY <2>5, EdgesType DEF ExecInv, ExecTypeOK, Node
    <3>4. Ran(e.from)' /\ (e.kind = "execution" => Finished(e.from)')
      BY <3>1, <3>2 DEF ExecInv, OrderInv
    <3>5. thunk'[e.from] = thunk[e.from]
      BY <1>2, <2>1, <3>3
    <3> QED  BY <3>3, <3>4, <3>5 DEF Started, Done, Ran, Finished
  <2>6. Schedule!Start(n)
    BY <1>1, <2>2, <2>3, <2>4, <2>5 DEF Schedule!Start, Started, Done, Failed
  <2> QED  BY <2>6 DEF Schedule!Next
<1> QED  BY <1>3, <1>4

LEMMA FinishIsScheduled ==
  ASSUME ExecInv, NEW n \in Node, thunk[n] = "running", NEW r \in Result,
         thunk' = [thunk EXCEPT ![n] = r],
         edges' = edges, execute_event' = execute_event
  PROVE  Schedule!Next
<1>1. thunk \in [Node -> Status] /\ r \in {"ok", "error"}
  BY DEF ExecInv, ExecTypeOK, Result
<1>2. Started' = Started /\ Done' = Done \cup {n}
  BY <1>1 DEF Started, Done, Ran, Finished
<1>3. Failed' = IF r = "ok" THEN Failed ELSE Failed \cup {n}
  BY <1>1 DEF Failed
<1>4. n \in Started \ Done
  BY DEF Started, Done, Ran, Finished
<1>5. Schedule!Finish(n, r = "ok")
  BY <1>2, <1>3, <1>4 DEF Schedule!Finish, Started, Done, Failed
<1> QED  BY <1>5 DEF Schedule!Next

Over == Holders = {}
AllQuiet == \A n \in Node : Quiet(n)

LEMMA QuietWhenOver == ExecInv /\ Over => AllQuiet
BY AllIsQuiet DEF Over, AllQuiet

LEMMA SettleIsScheduled ==
  ASSUME ExecInv, NEW n \in Node, phase[n] = "completing", todo[n] = {},
         Settle(n)
  PROVE  [Schedule!Next]_(Schedule!vars)
<1>1. edges' = edges /\ thunk' = thunk /\ abort' = abort
  BY DEF Settle
<1>2. CASE execute_event' = execute_event
  BY <1>1, <1>2, ScheduleStutters
<1>3. CASE execute_event' # execute_event
  <2>1. DropPending(n) /\ execute_event' = IF abort THEN "error" ELSE "ok"
    BY <1>3 DEF Settle
  <2>2. execute_event = "pending"
    BY <2>1 DEF ExecInv, PendingInv, Holders
  <2>3. ExecInv'
    BY SettleInv
  <2>4. Over'
    BY <2>1, <2>3 DEF ExecInv, PendingInv, Over
  <2>5. AllQuiet'
    BY <2>3, <2>4, QuietWhenOver, PTL
  <2>6. ASSUME NEW m \in Node
        PROVE  /\ thunk[m] \in {"ok", "error", "skipped"}
               /\ thunk[m] \in {"error", "skipped"} => abort
    <3>1. Quiet(m)' /\ NodeInv(m)' /\ AbortInv' /\ thunk'[m] \in Status
      BY <2>3, <2>5 DEF ExecInv, ExecTypeOK, AllQuiet
    <3> QED  BY <1>1, <3>1 DEF Quiet, NodeInv, AbortInv, Status
  <2>7. Started = Done
    BY <2>6 DEF Started, Done, Ran, Finished
  <2>8. abort => Failed # {}
    BY DEF ExecInv, AbortInv, Failed
  <2>9. ~abort => Failed = {} /\ Done = Node
    BY <2>6 DEF Failed, Done, Finished
  <2>10. Started' = Started /\ Done' = Done /\ Failed' = Failed
    BY <1>1 DEF Started, Done, Failed, Ran, Finished
  <2>11. Schedule!Complete
    BY <1>1, <2>1, <2>2, <2>7, <2>8, <2>9, <2>10
    DEF Schedule!Complete, Started, Done, Failed, ExecInv, ExecTypeOK
  <2> QED  BY <2>11 DEF Schedule!Next
<1> QED  BY <1>2, <1>3

\* The counters implement the promise of ThunkExecutor::Execute: the event
\* fires with the last pending node, and a node is ready when the order of its
\* in edges is satisfied.
THEOREM CountersKeepSchedule == ExecSpec => KeepsSchedule
<1>1. ExecInit => Schedule!Init
  BY DEF ExecInit, Schedule!Init, Ran, Finished
<1>2. ExecInv /\ [ExecNext]_execVars => [Schedule!Next]_(Schedule!vars)
  <2> SUFFICES ASSUME ExecInv, [ExecNext]_execVars
               PROVE  [Schedule!Next]_(Schedule!vars)
    OBVIOUS
  <2>1. ASSUME NEW n \in Node, Process(n)
        PROVE  [Schedule!Next]_(Schedule!vars)
    <3>1. CASE phase[n] = "ready" /\ Start(n)
      BY <3>1, StartIsScheduled
    <3>2. CASE phase[n] = "running" /\ \E r \in Result : ReturnAvailable(n, r)
      <4>1. thunk[n] = "running"
        BY <3>2 DEF ExecInv, NodeInv
      <4> QED  BY <3>2, <4>1, FinishIsScheduled DEF ReturnAvailable
    <3>3. CASE \/ ReturnAsync(n) \/ IncPending(n) \/ DropEdge(n) \/ Attach(n)
               \/ Continue(n)
      BY <3>3, ScheduleStutters
      DEF ReturnAsync, IncPending, DropEdge, Attach, Continue
    <3>4. CASE /\ thunk[n] = "running"
               /\ \E r \in Result : ThunkDone(n, r)
      BY <3>4, FinishIsScheduled DEF ThunkDone
    <3>5. CASE phase[n] = "completing" /\ todo[n] = {} /\ Settle(n)
      BY <3>5, SettleIsScheduled
    <3> QED  BY <2>1, <3>1, <3>2, <3>3, <3>4, <3>5
             DEF Process, ScheduleEdge, Result
  <2>2. CASE UNCHANGED execVars
    BY <2>2, ScheduleStutters DEF execVars
  <2> QED  BY <2>1, <2>2 DEF ExecNext
<1> QED  BY <1>1, <1>2, ExecInvHolds, PTL DEF ExecSpec, KeepsSchedule, Schedule!Spec
=============================================================================
