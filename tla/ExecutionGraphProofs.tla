------------------------ MODULE ExecutionGraphProofs ------------------------
(***************************************************************************)
(* Proofs about ExecutionGraph, for operation sequences of any length and  *)
(* with any conflicts: the reduction loses no order and leaves no edge     *)
(* that others imply, and the priorities are the numbers of dependents.    *)
(***************************************************************************)
EXTENDS ExecutionGraph, FiniteSetTheorems, WellFoundedInduction, TLAPS

\* Edges go from earlier to later operations.
Forward(E) == \A e \in E : e.from \in Node /\ e.to \in Node /\ e.from < e.to

\* In E, b comes after a; after a has completed if the kind is "execution".
Ordered(E, a, b, kind) ==
  \E f \in Out(E, a) : /\ kind = "execution" => f.kind = "execution"
                       /\ b = f.to \/ b \in Reachable(E, f.to)

\* The sequence s lists the edges of es, by id.
Lists(s, es) ==
  /\ s \in Seq(es)
  /\ \A e \in es : \E i \in DOMAIN s : s[i] = e
  /\ \A i, j \in DOMAIN s : i < j => s[i].to < s[j].to

On(e, s) == \E i \in DOMAIN s : s[i] = e
Leads(s, n) == \E i \in DOMAIN s : s[i].to = n

Shape ==
  /\ source \in -1 .. NumOperations - 1
  /\ edges \subseteq AllEdges
  /\ \A e \in AllEdges : e.from < source => e \in edges
  /\ out_edge \in {"execution", "scheduling"}
  /\ priority \in [Node -> Nat]
  /\ visited \subseteq Node

\* The out edges of the source that were not searched yet are the last ones.
RestInv ==
  /\ rest \in Seq(AllEdges)
  /\ \A i \in DOMAIN rest : rest[i].from = source
  /\ \A i, j \in DOMAIN rest : i < j => rest[i].to < rest[j].to
  /\ \A e \in AllEdges : e.from = source /\ ~On(e, rest) =>
       e.to \in visited /\ \A i \in DOMAIN rest : e.to < rest[i].to

\* The search has come to the edges on the stack along out_edge.
StackInv ==
  /\ stack \in Seq(edges)
  /\ \A i \in DOMAIN stack :
       /\ source < stack[i].from /\ stack[i].to \in visited
       /\ Ordered(edges, source, stack[i].from, out_edge)

\* What is visited comes after the source, and so does what comes after it.
VisitedInv ==
  /\ \A n \in visited : n \in Reachable(edges, source)
  /\ \A e \in edges : e.from \in visited => e.to \in visited \/ Leads(stack, e.from)

\* No longer path leads where e leads.
Needed(E, e) == \A f \in Out(E, e.from) : e.to \notin Reachable(E, f.to)

MinimalInv ==
  (\A e \in AllEdges : e.kind = "execution") =>
    /\ out_edge = "execution"
    /\ \A e \in edges : e.from > source => Needed(edges, e)
    /\ \A e \in edges : e.from = source =>
         IF On(e, rest) THEN e.to \in visited => Leads(stack, e.to) ELSE Needed(edges, e)

GInv ==
  /\ Shape
  /\ RestInv
  /\ StackInv
  /\ VisitedInv
  /\ ConflictsStayOrdered
  /\ PriorityCountsDependents
  /\ MinimalInv
-----------------------------------------------------------------------------
(* Reachability in a graph whose edges go forward.                         *)

LEMMA NodeFacts == Node \in SUBSET Nat /\ \A n \in Node : n < NumOperations
BY NumOperationsAssumption DEF Node

LEMMA LeastNat ==
  ASSUME NEW T \in SUBSET Nat, T # {}
  PROVE  \E x \in T : \A y \in T : x <= y
<1> DEFINE R == {p \in Nat \X Nat : p[1] < p[2]}
<1>1. IsWellFoundedOn(R, Nat)
  BY NatLessThanWellFounded, Zenon DEF OpToRel
<1>2. PICK x \in T : \A y \in T : ~ (<<y, x>> \in R)
  <2> HIDE DEF R
  <2> QED  BY <1>1, WFMin
<1>3. ASSUME NEW y \in T  PROVE x <= y
  BY <1>2, <<y, x>> \in Nat \X Nat
<1> QED  BY <1>3

\* Induction from the last node backwards, as the existence of a last one.
LEMMA LastNode ==
  ASSUME NEW T \in SUBSET Node, T # {}
  PROVE  \E x \in T : \A y \in T : y <= x
<1> DEFINE D == {NumOperations - x : x \in T}
<1>1. \A x \in T : x \in Nat /\ NumOperations - x \in Nat
  BY NumOperationsAssumption, NodeFacts
<1>2. D \in SUBSET Nat /\ D # {}
  BY <1>1
<1>3. PICK d \in D : \A c \in D : d <= c
  <2> HIDE DEF D
  <2> QED  BY <1>2, LeastNat
<1>4. PICK x \in T : d = NumOperations - x
  OBVIOUS
<1>5. ASSUME NEW y \in T  PROVE y <= x
  <2>1. d <= NumOperations - y
    BY <1>3
  <2> QED  BY <1>1, <1>4, <2>1, NumOperationsAssumption
<1> QED  BY <1>5

Closed(E, m, S) == \A e \in E : e.from = m \/ e.from \in S => e.to \in S
Closure(E, m) == {x \in Node : \A S \in SUBSET Node : Closed(E, m, S) => x \in S}

LEMMA ClosureFix ==
  ASSUME NEW E, Forward(E), NEW m \in Node, NEW x
  PROVE  x \in Closure(E, m) <=> \E e \in Out(E, m) : x = e.to \/ x \in Closure(E, e.to)
<1>1. ASSUME NEW e \in Out(E, m)  PROVE e.to \in Closure(E, m)
  BY DEF Closure, Closed, Out, Forward
<1>2. ASSUME NEW e \in Out(E, m), x \in Closure(E, e.to)  PROVE x \in Closure(E, m)
  <2>1. \A S \in SUBSET Node : Closed(E, m, S) => Closed(E, e.to, S)
    BY DEF Closed, Out
  <2> QED  BY <1>2, <2>1 DEF Closure
<1>3. ASSUME x \in Closure(E, m)
      PROVE  \E e \in Out(E, m) : x = e.to \/ x \in Closure(E, e.to)
  <2> DEFINE T == {y \in Node : \E e \in Out(E, m) : y = e.to \/ y \in Closure(E, e.to)}
  <2>1. Closed(E, m, T)
    <3> SUFFICES ASSUME NEW e \in E, e.from = m \/ e.from \in T  PROVE e.to \in T
      BY DEF Closed
    <3>1. CASE e.from = m
      BY <3>1 DEF Out, Forward
    <3>2. CASE e.from \in T
      <4>1. PICK f \in Out(E, m) : e.from = f.to \/ e.from \in Closure(E, f.to)
        BY <3>2
      <4>2. e.to \in Closure(E, f.to)
        BY <4>1 DEF Closure, Closed, Forward
      <4> QED  BY <4>1, <4>2 DEF Forward
    <3> QED  BY <3>1, <3>2
  <2>2. x \in T
    <3>1. T \in SUBSET Node
      OBVIOUS
    <3> HIDE DEF T
    <3> QED  BY <1>3, <2>1, <3>1 DEF Closure
  <2> QED  BY <2>2
<1> QED  BY <1>1, <1>2, <1>3

\* The recursive definition has a solution, so it defines Reachable.
LEMMA ReachFix ==
  ASSUME NEW E, Forward(E), NEW n \in Node, NEW b
  PROVE  b \in Reachable(E, n) <=> \E e \in Out(E, n) : b = e.to \/ b \in Reachable(E, e.to)
<1> DEFINE F(g) == [m \in Node |-> UNION {{e.to} \cup g[e.to] : e \in Out(E, m)}]
           h == [m \in Node |-> Closure(E, m)]
           r == CHOOSE g : g = F(g)
<1>1. \A m \in Node : \A e \in Out(E, m) : e.to \in Node
  BY DEF Forward, Out
<1>2. h = F(h)
  <2>1. ASSUME NEW m \in Node  PROVE h[m] = UNION {{e.to} \cup h[e.to] : e \in Out(E, m)}
    <3>1. ASSUME NEW x
          PROVE  x \in h[m] <=> \E e \in Out(E, m) : x = e.to \/ x \in h[e.to]
      <4>1. h[m] = Closure(E, m) /\ \A e \in Out(E, m) : h[e.to] = Closure(E, e.to)
        BY <1>1
      <4> HIDE DEF h
      <4> QED  BY <4>1, ClosureFix
    <3>2. \A x : x \in UNION {{e.to} \cup h[e.to] : e \in Out(E, m)}
                   <=> \E e \in Out(E, m) : x = e.to \/ x \in h[e.to]
      <4> HIDE DEF h
      <4> QED  OBVIOUS
    <3> HIDE DEF h
    <3> QED  BY <3>1, <3>2
  <2> QED  BY <2>1
<1>3. r = F(r)
  <2> HIDE DEF F, h
  <2> QED  BY <1>2
<1>4. \A m \in Node : Reachable(E, m) = r[m]
  BY DEF Reachable
<1>5. \A e \in Out(E, n) : r[e.to] = Reachable(E, e.to)
  <2> HIDE DEF r
  <2> QED  BY <1>1, <1>4
<1>6. r[n] = UNION {{e.to} \cup r[e.to] : e \in Out(E, n)}
  <2> HIDE DEF r
  <2> QED  BY <1>3
<1> HIDE DEF r
<1>7. b \in r[n] <=> \E e \in Out(E, n) : b = e.to \/ b \in r[e.to]
  BY <1>6
<1> QED  BY <1>4, <1>5, <1>7

LEMMA ReachBounds ==
  ASSUME NEW E, Forward(E), NEW a \in Node, NEW b \in Reachable(E, a)
  PROVE  b \in Node /\ a < b
<1> DEFINE T == {x \in Node : \E y \in Reachable(E, x) : ~(y \in Node /\ x < y)}
<1> SUFFICES ASSUME T # {}  PROVE FALSE
  OBVIOUS
<1>1. PICK x \in T : \A y \in T : y <= x
  <2>1. T \in SUBSET Node
    OBVIOUS
  <2> HIDE DEF T
  <2> QED  BY <2>1, LastNode
<1>2. x \in Node /\ x \in Nat
  BY NodeFacts
<1>3. PICK y \in Reachable(E, x) : ~(y \in Node /\ x < y)
  OBVIOUS
<1>4. PICK e \in Out(E, x) : y = e.to \/ y \in Reachable(E, e.to)
  BY <1>2, <1>3, ReachFix
<1>5. e.to \in Node /\ x < e.to /\ e.to \in Nat
  BY NodeFacts DEF Forward, Out
<1>6. e.to \notin T
  BY <1>1, <1>2, <1>5
<1>7. y \in Reachable(E, e.to) => y \in Node /\ e.to < y
  BY <1>5, <1>6
<1>8. y \in Reachable(E, e.to) => y \in Nat
  BY <1>7, NodeFacts
<1>9. y \in Node /\ x < y
  BY <1>2, <1>4, <1>5, <1>7, <1>8
<1> QED  BY <1>3, <1>9

\* A set that is closed under the edges holds what is reachable.
LEMMA ReachClosed ==
  ASSUME NEW E, Forward(E), NEW a \in Node, NEW S, Closed(E, a, S)
  PROVE  \A b \in Reachable(E, a) : b \in S
<1> DEFINE T == {x \in Node : /\ x = a \/ x \in S
                              /\ \E y \in Reachable(E, x) : y \notin S}
<1> SUFFICES ASSUME T # {}  PROVE FALSE
  OBVIOUS
<1>1. PICK x \in T : \A y \in T : y <= x
  <2>1. T \in SUBSET Node
    OBVIOUS
  <2> HIDE DEF T
  <2> QED  BY <2>1, LastNode
<1>2. x \in Node /\ x \in Nat /\ (x = a \/ x \in S)
  BY NodeFacts
<1>3. PICK y \in Reachable(E, x) : y \notin S
  OBVIOUS
<1>4. PICK e \in Out(E, x) : y = e.to \/ y \in Reachable(E, e.to)
  BY <1>2, <1>3, ReachFix
<1>5. e.to \in Node /\ x < e.to /\ e.to \in Nat /\ e \in E /\ e.from = x
  BY NodeFacts DEF Forward, Out
<1>6. e.to \in S
  BY <1>2, <1>5 DEF Closed
<1>7. e.to \notin T
  BY <1>1, <1>2, <1>5
<1> QED  BY <1>3, <1>4, <1>5, <1>6, <1>7

LEMMA ReachEdge ==
  ASSUME NEW E, Forward(E), NEW e \in E
  PROVE  /\ e.to \in Reachable(E, e.from)
         /\ \A b \in Reachable(E, e.to) : b \in Reachable(E, e.from)
<1>1. e \in Out(E, e.from) /\ e.from \in Node
  BY DEF Out, Forward
<1> QED  BY <1>1, ReachFix

LEMMA ReachTrans ==
  ASSUME NEW E, Forward(E), NEW a \in Node, NEW b \in Reachable(E, a),
         NEW c \in Reachable(E, b)
  PROVE  c \in Reachable(E, a)
<1> DEFINE S == Reachable(E, a)
<1>1. Closed(E, b, S)
  <2> SUFFICES ASSUME NEW e \in E, e.from = b \/ e.from \in S  PROVE e.to \in S
    BY DEF Closed
  <2> DEFINE T == {x \in Node : e.from \in Reachable(E, x) /\ e.to \notin Reachable(E, x)}
  <2>1. T = {}
    <3> SUFFICES ASSUME T # {}  PROVE FALSE
      OBVIOUS
    <3>1. PICK x \in T : \A y \in T : y <= x
      <4>1. T \in SUBSET Node
        OBVIOUS
      <4> HIDE DEF T
      <4> QED  BY <4>1, LastNode
    <3>2. x \in Node /\ x \in Nat
      BY NodeFacts
    <3>3. PICK f \in Out(E, x) : e.from = f.to \/ e.from \in Reachable(E, f.to)
      BY <3>2, ReachFix
    <3>4. f.to \in Node /\ x < f.to /\ f.to \in Nat /\ f \in E /\ f.from = x
      BY NodeFacts DEF Forward, Out
    <3>5. f.to \notin T
      BY <3>1, <3>2, <3>4
    <3>6. e.to \in Reachable(E, f.to)
      BY <3>3, <3>4, <3>5, ReachEdge
    <3>7. e.to \in Reachable(E, f.from)
      BY <3>4, <3>6, ReachEdge
    <3> QED  BY <3>4, <3>7
  <2>2. a \notin T
    BY <2>1
  <2> QED  BY <2>2
<1>2. b \in Node
  BY ReachBounds
<1> HIDE DEF S
<1>3. c \in S
  BY <1>1, <1>2, ReachClosed
<1> QED  BY <1>3 DEF S

LEMMA ReachMono ==
  ASSUME NEW E, Forward(E), NEW G \in SUBSET E, NEW a \in Node
  PROVE  \A b \in Reachable(G, a) : b \in Reachable(E, a)
<1> DEFINE S == Reachable(E, a)
<1>1. Forward(G)
  BY DEF Forward
<1>2. Closed(G, a, S)
  <2> SUFFICES ASSUME NEW e \in G, e.from = a \/ e.from \in S  PROVE e.to \in S
    BY DEF Closed
  <2>1. e \in E
    OBVIOUS
  <2>2. e.to \in Reachable(E, e.from)
    BY <2>1, ReachEdge
  <2> QED  BY <2>2, ReachTrans
<1> HIDE DEF S
<1>3. \A b \in Reachable(G, a) : b \in S
  BY <1>1, <1>2, ReachClosed
<1> QED  BY <1>3 DEF S

\* What is reachable from a node depends on the edges of later nodes only.
LEMMA ReachAbove ==
  ASSUME NEW E, Forward(E), NEW G, Forward(G), NEW s \in Int,
         \A e \in E : e.from > s => e \in G, NEW a \in Node, a > s
  PROVE  \A b \in Reachable(E, a) : b \in Reachable(G, a)
<1> DEFINE S == Reachable(G, a)
<1>1. Closed(E, a, S)
  <2> SUFFICES ASSUME NEW e \in E, e.from = a \/ e.from \in S  PROVE e.to \in S
    BY DEF Closed
  <2>1. e.from > s
    <3>1. CASE e.from = a
      BY <3>1
    <3>2. CASE e.from \in S
      <4>1. a < e.from /\ e.from \in Node
        BY <3>2, ReachBounds
      <4>2. a \in Nat /\ e.from \in Nat
        BY <4>1, NodeFacts
      <4> QED  BY <4>1, <4>2
    <3> QED  BY <3>1, <3>2
  <2>2. e \in G
    BY <2>1
  <2>3. e.to \in Reachable(G, e.from)
    BY <2>2, ReachEdge
  <2> QED  BY <2>3, ReachTrans
<1> HIDE DEF S
<1>2. \A b \in Reachable(E, a) : b \in S
  BY <1>1, ReachClosed
<1> QED  BY <1>2 DEF S
-----------------------------------------------------------------------------
(* Orders, and what an erased edge leaves of them.                         *)

LEMMA OrderedFacts ==
  ASSUME NEW E, Forward(E), NEW a, NEW b, NEW k, Ordered(E, a, b, k)
  PROVE  a \in Node /\ b \in Node /\ a < b /\ b \in Reachable(E, a)
<1>1. PICK f \in Out(E, a) : b = f.to \/ b \in Reachable(E, f.to)
  BY DEF Ordered
<1>2. f \in E /\ f.from = a /\ a \in Node
  BY DEF Out, Forward
<1>3. b \in Reachable(E, a)
  BY <1>1, <1>2, ReachEdge
<1> QED  BY <1>2, <1>3, ReachBounds

LEMMA EdgeOrder ==
  ASSUME NEW E, Forward(E), NEW e, e.from \in Node
  PROVE  Ordered(E, e.from, e.to, e.kind) <=>
           IF e.kind = "execution"
             THEN \E f \in Out(E, e.from) :
                    f.kind = "execution" /\ e.to \in {f.to} \cup Reachable(E, f.to)
             ELSE e.to \in Reachable(E, e.from)
<1>1. CASE e.kind = "execution"
  BY <1>1 DEF Ordered
<1>2. CASE e.kind # "execution"
  <2>1. e.to \in Reachable(E, e.from)
          <=> \E f \in Out(E, e.from) : e.to = f.to \/ e.to \in Reachable(E, f.to)
    BY ReachFix
  <2> QED  BY <1>2, <2>1 DEF Ordered
<1> QED  BY <1>1, <1>2

LEMMA ConflictsAreOrdered ==
  ASSUME Forward(edges), \A e \in AllEdges : e.from \in Node
  PROVE  ConflictsStayOrdered
           <=> \A e \in AllEdges : Ordered(edges, e.from, e.to, e.kind)
BY EdgeOrder DEF ConflictsStayOrdered

\* d is an edge the search has come to along an edge of kind k of node s.  The
\* edges of s to d.to that such a path replaces are erased.
Erased(E, s, d, k) ==
  {e \in E : e.from = s /\ e.to = d.to /\ (e.kind = "execution" => k = "execution")}

LEMMA OrdersSurvive ==
  ASSUME NEW E, Forward(E), NEW s, NEW d \in E, NEW k, Ordered(E, s, d.from, k),
         NEW X \in SUBSET Erased(E, s, d, k), NEW a \in Node, a >= s, NEW b, NEW j,
         Ordered(E, a, b, j)
  PROVE  Ordered(E \ X, a, b, j)
<1> DEFINE G == E \ X
<1>1. s \in Node /\ d.from \in Node /\ s < d.from /\ d.to \in Node /\ d.from < d.to
  BY OrderedFacts DEF Forward
<1>2. s \in Nat /\ d.from \in Nat /\ d.to \in Nat /\ a \in Nat
  BY <1>1, NodeFacts
<1>3. Forward(G) /\ \A e \in E : e.from > s => e \in G
  BY <1>2 DEF Forward, Erased
<1>4. ASSUME NEW n \in Node, n > s  PROVE \A y \in Reachable(E, n) : y \in Reachable(G, n)
  <2> HIDE DEF G
  <2> QED  BY <1>2, <1>3, <1>4, ReachAbove
<1>5. PICK f \in Out(E, a) : /\ j = "execution" => f.kind = "execution"
                             /\ b = f.to \/ b \in Reachable(E, f.to)
  BY DEF Ordered
<1>6. f \in E /\ f.from = a /\ f.to \in Node /\ f.to \in Nat /\ f.to > a
  BY NodeFacts DEF Out, Forward
<1>7. CASE f \notin X
  <2>1. f \in Out(G, a)
    BY <1>6, <1>7 DEF Out
  <2>2. b = f.to \/ b \in Reachable(G, f.to)
    BY <1>2, <1>4, <1>5, <1>6
  <2> HIDE DEF G
  <2>3. Ordered(G, a, b, j)
    BY <1>5, <2>1, <2>2 DEF Ordered
  <2> QED  BY <2>3 DEF G
<1>8. CASE f \in X
  <2>1. a = s /\ f.to = d.to /\ (f.kind = "execution" => k = "execution")
    BY <1>6, <1>8 DEF Erased
  <2>2. PICK g \in Out(E, s) : /\ k = "execution" => g.kind = "execution"
                               /\ d.from = g.to \/ d.from \in Reachable(E, g.to)
    BY DEF Ordered
  <2>3. g \in E /\ g.from = s /\ g.to \in Node /\ g.to \in Nat /\ g.to > s
    BY NodeFacts DEF Out, Forward
  <2>4. g.to < d.to
    <3>1. d.from \in Reachable(E, g.to) => g.to < d.from
      BY <2>3, ReachBounds
    <3> QED  BY <1>1, <1>2, <2>2, <2>3, <3>1
  <2>5. g \notin X
    BY <1>2, <2>3, <2>4 DEF Erased
  <2>6. d.to \in Reachable(E, g.to)
    <3>1. d.to \in Reachable(E, d.from)
      BY ReachEdge
    <3> QED  BY <2>2, <2>3, <3>1, ReachTrans
  <2>7. b \in Reachable(E, g.to)
    BY <1>5, <2>1, <2>3, <2>6, ReachTrans
  <2>8. b \in Reachable(G, g.to)
    BY <1>4, <2>3, <2>7
  <2>9. g \in Out(G, a)
    BY <2>1, <2>3, <2>5 DEF Out
  <2> HIDE DEF G
  <2>10. Ordered(G, a, b, j)
    BY <1>5, <2>1, <2>2, <2>8, <2>9 DEF Ordered
  <2> QED  BY <2>10 DEF G
<1> QED  BY <1>7, <1>8

\* A graph in which every edge of A is ordered reaches as far as A.
LEMMA SameReach ==
  ASSUME NEW A, Forward(A), NEW E \in SUBSET A, NEW n \in Node,
         \A e \in A : e.to \in Reachable(E, e.from)
  PROVE  Reachable(E, n) = Reachable(A, n)
<1>1. Forward(E)
  BY DEF Forward
<1>2. \A b \in Reachable(E, n) : b \in Reachable(A, n)
  BY ReachMono
<1> DEFINE S == Reachable(E, n)
<1>3. Closed(A, n, S)
  <2> SUFFICES ASSUME NEW e \in A, e.from = n \/ e.from \in S  PROVE e.to \in S
    BY DEF Closed
  <2>1. e.to \in Reachable(E, e.from)
    OBVIOUS
  <2> QED  BY <1>1, <2>1, ReachTrans
<1> HIDE DEF S
<1>4. \A b \in Reachable(A, n) : b \in S
  BY <1>3, ReachClosed
<1> QED  BY <1>2, <1>4 DEF S
-----------------------------------------------------------------------------
(* Edges listed by id.                                                     *)

\* Edges of one node: forward and one for every other node.
Bundle(es) ==
  /\ IsFiniteSet(es)
  /\ \A e \in es : e.to \in Node
  /\ \A e, f \in es : e.to = f.to => e = f

Sorted(s) == \A i, j \in DOMAIN s : i < j => s[i].to < s[j].to

LEMMA SortedExists ==
  ASSUME NEW es, Bundle(es)
  PROVE  \E s \in [1 .. Cardinality(es) -> es] : Sorted(s)
<1> DEFINE Good(U) == \E s \in [1 .. Cardinality(U) -> U] : Sorted(s)
           T == {n \in Nat : \E U \in SUBSET es : Cardinality(U) = n /\ ~Good(U)}
<1>1. ASSUME NEW U \in SUBSET es  PROVE IsFiniteSet(U) /\ Cardinality(U) \in Nat
  BY FS_Subset, FS_CardinalityType DEF Bundle
<1>2. SUFFICES ASSUME T # {}  PROVE FALSE
  <2>1. Cardinality(es) \notin T
    BY <1>2
  <2>2. es \in SUBSET es /\ Cardinality(es) \in Nat
    BY <1>1
  <2>3. Good(es)
    <3> HIDE DEF Good
    <3> QED  BY <2>1, <2>2
  <2> QED  BY <2>3
<1>3. PICK n \in T : \A y \in T : n <= y
  <2>1. T \in SUBSET Nat
    OBVIOUS
  <2> HIDE DEF T
  <2> QED  BY <1>2, <2>1, LeastNat
<1>4. PICK U \in SUBSET es : Cardinality(U) = n /\ ~Good(U)
  <2> HIDE DEF Good
  <2> QED  OBVIOUS
<1>5. n \in Nat /\ IsFiniteSet(U)
  BY <1>1
<1>6. CASE n = 0
  <2>1. U = {}
    BY <1>4, <1>5, <1>6, FS_EmptySet
  <2>2. <<>> \in [1 .. Cardinality(U) -> U] /\ Sorted(<<>>)
    BY <1>4, <1>6, <2>1 DEF Sorted
  <2> QED  BY <1>4, <2>2
<1>7. CASE n # 0
  <2> DEFINE N == {e.to : e \in U}
  <2>1. U # {}
    BY <1>4, <1>7, FS_EmptySet
  <2>2. N \in SUBSET Node /\ N # {}
    BY <2>1 DEF Bundle
  <2>3. PICK m \in N : \A y \in N : y <= m
    <3> HIDE DEF N
    <3> QED  BY <2>2, LastNode
  <2>4. PICK x \in U : x.to = m
    OBVIOUS
  <2>5. PICK V : V = U \ {x}
    OBVIOUS
  <2>6. V \in SUBSET es /\ Cardinality(V) = n - 1
    <3>1. Cardinality(V) = Cardinality(U) - 1
      BY ONLY <1>5, <2>4, <2>5, FS_RemoveElement
    <3> QED  BY <1>4, <2>5, <3>1
  <2>7. n - 1 \notin T /\ n - 1 \in Nat
    BY <1>3, <1>5, <1>7
  <2>8. Good(V)
    <3> HIDE DEF Good
    <3> QED  BY <2>6, <2>7
  <2>9. PICK s \in [1 .. n - 1 -> V] : Sorted(s)
    BY <2>6, <2>8
  <2>10. \A e \in V : e \in U /\ e.to < x.to
    <3> SUFFICES ASSUME NEW e \in V  PROVE e \in U /\ e.to < x.to
      OBVIOUS
    <3>1. e \in U /\ e # x /\ e \in es /\ x \in es
      BY <2>5
    <3>2. e.to <= x.to /\ e.to # x.to
      BY <2>3, <2>4, <3>1 DEF Bundle
    <3>3. e.to \in Nat /\ x.to \in Nat
      BY <3>1, NodeFacts DEF Bundle
    <3> QED  BY <3>1, <3>2, <3>3
  <2> DEFINE r == [i \in 1 .. n |-> IF i = n THEN x ELSE s[i]]
  <2>11. r \in [1 .. n -> U]
    BY <1>5, <1>7, <2>4, <2>9, <2>10
  <2>12. Sorted(r)
    <3> SUFFICES ASSUME NEW i \in 1 .. n, NEW j \in 1 .. n, i < j  PROVE r[i].to < r[j].to
      BY DEF Sorted
    <3>1. i \in 1 .. n - 1 /\ r[i] = s[i] /\ s[i] \in V
      BY <1>5, <2>9
    <3>2. CASE j = n
      BY <2>10, <3>1, <3>2
    <3>3. CASE j # n
      <4>1. j \in 1 .. n - 1 /\ r[j] = s[j]
        BY <1>5, <3>3
      <4> QED  BY <2>9, <3>1, <4>1 DEF Sorted
    <3> QED  BY <3>2, <3>3
  <2> HIDE DEF r
  <2> QED  BY <1>4, <2>11, <2>12
<1> QED  BY <1>6, <1>7

LEMMA ByIdLists ==
  ASSUME NEW es, Bundle(es)
  PROVE  Lists(ById(es), es)
<1> DEFINE s == ById(es)
           n == Cardinality(es)
<1>1. s \in [1 .. n -> es] /\ Sorted(s)
  <2>1. \E r \in [1 .. n -> es] : \A i, j \in DOMAIN r : i < j => r[i].to < r[j].to
    BY SortedExists DEF Sorted
  <2>2. s \in [1 .. n -> es] /\ \A i, j \in DOMAIN s : i < j => s[i].to < s[j].to
    <3> HIDE DEF n
    <3> QED  BY <2>1 DEF ById, n
  <2> HIDE DEF s
  <2> QED  BY <2>2 DEF Sorted
<1>2. IsFiniteSet(es) /\ n \in Nat
  BY FS_CardinalityType DEF Bundle
<1> HIDE DEF s, n
<1>3. \A i, j \in 1 .. n : s[i] = s[j] => i = j
  <2> SUFFICES ASSUME NEW i \in 1 .. n, NEW j \in 1 .. n, s[i] = s[j], i # j  PROVE FALSE
    OBVIOUS
  <2>1. s[i].to \in Nat /\ s[j].to \in Nat
    BY <1>1, NodeFacts DEF Bundle
  <2>2. i < j => s[i].to < s[j].to
    BY <1>1 DEF Sorted
  <2>3. j < i => s[j].to < s[i].to
    BY <1>1 DEF Sorted
  <2> QED  BY <1>2, <2>1, <2>2, <2>3
<1>4. s \in Injection(1 .. n, es)
  BY <1>1, <1>3 DEF Injection, IsInjective
<1>5. Cardinality(1 .. n) = n
  BY <1>2, FS_Interval
<1>6. s \in Surjection(1 .. n, es)
  BY <1>2, <1>4, <1>5, FS_Injection DEF n
<1>7. \A e \in es : \E i \in 1 .. n : s[i] = e
  BY <1>6 DEF Surjection
<1>8. s \in Seq(es) /\ DOMAIN s = 1 .. n
  BY <1>1, <1>2
<1>9. Lists(s, es)
  BY <1>1, <1>7, <1>8 DEF Lists, Sorted
<1> QED  BY <1>9 DEF s
-----------------------------------------------------------------------------
(* The edges of a program.                                                 *)

LEMMA AllEdgesFacts ==
  /\ Forward(AllEdges)
  /\ \A e \in AllEdges : e.kind \in {"execution", "scheduling"}
  /\ \A e, f \in AllEdges : e.from = f.from /\ e.to = f.to => e = f
  /\ IsFiniteSet(AllEdges)
<1> DEFINE Q == {q \in Node \X Node : q[1] < q[2] /\ Conflict(q[1], q[2])}
           g == [q \in Q |-> EdgeBetween(q[1], q[2])]
<1>1. ASSUME NEW e \in AllEdges
      PROVE  /\ \E q \in Q : e = EdgeBetween(q[1], q[2])
             /\ e.from \in Node /\ e.to \in Node /\ e.from < e.to
             /\ e.kind \in {"execution", "scheduling"} /\ e = EdgeBetween(e.from, e.to)
  <2>1. PICK q \in Q : e = EdgeBetween(q[1], q[2])
    BY DEF AllEdges
  <2>2. e.from = q[1] /\ e.to = q[2]
    BY <2>1 DEF EdgeBetween
  <2>3. e.kind \in {"execution", "scheduling"}
    BY <2>1 DEF EdgeBetween, EdgeKind
  <2> QED  BY <2>1, <2>2, <2>3
<1>2. IsFiniteSet(Q)
  <2>1. IsFiniteSet(Node)
    BY NumOperationsAssumption, FS_Interval DEF Node
  <2>2. IsFiniteSet(Node \X Node)
    BY <2>1, FS_Product
  <2>3. Q \in SUBSET (Node \X Node)
    OBVIOUS
  <2> HIDE DEF Q
  <2> QED  BY <2>2, <2>3, FS_Subset
<1>3. g \in Surjection(Q, AllEdges)
  <2>1. \A q \in Q : g[q] \in AllEdges
    BY DEF AllEdges
  <2>2. \A e \in AllEdges : \E q \in Q : g[q] = e
    BY <1>1
  <2> HIDE DEF Q
  <2> QED  BY <2>1, <2>2 DEF Surjection
<1>4. IsFiniteSet(AllEdges)
  <2> HIDE DEF g, Q
  <2> QED  BY <1>2, <1>3, FS_Surjection
<1> QED  BY <1>1, <1>4 DEF Forward

LEMMA OutBundle ==
  ASSUME NEW E \in SUBSET AllEdges, NEW n, NEW es \in SUBSET Out(E, n)
  PROVE  Bundle(es)
<1>1. es \in SUBSET AllEdges /\ \A e \in es : e.from = n
  BY DEF Out
<1>2. IsFiniteSet(es)
  BY <1>1, AllEdgesFacts, FS_Subset
<1> QED  BY <1>1, <1>2, AllEdgesFacts DEF Bundle, Forward

\* What is on the stack after a push.
LEMMA PushFacts ==
  ASSUME NEW E \in SUBSET AllEdges, NEW s \in Seq(E), NEW n, NEW seen, NEW p,
         p = PushToStack(s, seen, Out(E, n))
  PROVE  /\ p \in Seq(E)
         /\ \A i \in DOMAIN p : On(p[i], s) \/ (p[i] \in Out(E, n) /\ p[i].to \notin seen)
         /\ \A i \in DOMAIN s : Leads(p, s[i].to)
         /\ \A e \in Out(E, n) : e.to \in seen \/ Leads(p, e.to)
<1> DEFINE es == {e \in Out(E, n) : e.to \notin seen}
<1>1. PICK r : r = ById(es)
  OBVIOUS
<1>2. p = s \o r
  BY <1>1 DEF PushToStack
<1>4. Lists(r, es) /\ es \subseteq E
  <2>1. es \in SUBSET Out(E, n)
    OBVIOUS
  <2> HIDE DEF es
  <2>2. Lists(r, es)
    BY <1>1, <2>1, OutBundle, ByIdLists
  <2> QED  BY <2>1, <2>2 DEF Out
<1>5. r \in Seq(E) /\ \A i \in DOMAIN r : r[i] \in es
  <2> HIDE DEF es
  <2> QED  BY <1>4 DEF Lists
<1>6. p \in Seq(E)
  BY <1>2, <1>5
<1>7. /\ DOMAIN s = 1 .. Len(s) /\ Len(s) \in Nat /\ DOMAIN r = 1 .. Len(r) /\ Len(r) \in Nat
      /\ DOMAIN p = 1 .. Len(s) + Len(r)
      /\ \A i \in 1 .. Len(s) : p[i] = s[i]
      /\ \A i \in 1 .. Len(r) : p[Len(s) + i] = r[i]
  BY <1>2, <1>5
<1>8. ASSUME NEW i \in DOMAIN p
      PROVE  On(p[i], s) \/ (p[i] \in Out(E, n) /\ p[i].to \notin seen)
  <2>1. CASE i \in 1 .. Len(s)
    BY <1>7, <2>1 DEF On
  <2>2. CASE i \notin 1 .. Len(s)
    <3>1. i - Len(s) \in 1 .. Len(r) /\ i = Len(s) + (i - Len(s))
      BY <1>7, <2>2
    <3>2. p[i] = r[i - Len(s)]
      BY <1>7, <3>1
    <3> QED  BY <1>5, <1>7, <3>1, <3>2
  <2> QED  BY <2>1, <2>2
<1>9. ASSUME NEW i \in DOMAIN s  PROVE Leads(p, s[i].to)
  <2>1. i \in DOMAIN p /\ p[i] = s[i]
    BY <1>7
  <2> QED  BY <2>1 DEF Leads
<1>10. ASSUME NEW e \in Out(E, n), e.to \notin seen  PROVE Leads(p, e.to)
  <2>1. PICK i \in DOMAIN r : r[i] = e
    BY <1>4, <1>10 DEF Lists
  <2>2. Len(s) + i \in DOMAIN p /\ p[Len(s) + i] = e
    BY <1>7, <2>1
  <2> QED  BY <2>2 DEF Leads
<1> QED  BY <1>6, <1>8, <1>9, <1>10

LEMMA InvFacts ==
  ASSUME GInv
  PROVE  /\ Forward(edges) /\ edges \in SUBSET AllEdges /\ source \in Int
         /\ \A e \in AllEdges : Ordered(edges, e.from, e.to, e.kind)
<1>1. Forward(AllEdges) /\ edges \in SUBSET AllEdges /\ source \in Int
  BY AllEdgesFacts, NumOperationsAssumption DEF GInv, Shape
<1>2. Forward(edges) /\ \A e \in AllEdges : e.from \in Node
  BY <1>1 DEF Forward
<1> QED  BY <1>1, <1>2, ConflictsAreOrdered DEF GInv

LEMMA OrderedStep ==
  ASSUME NEW E, Forward(E), NEW s, NEW d \in E, NEW k, Ordered(E, s, d.from, k)
  PROVE  Ordered(E, s, d.to, k)
<1>1. PICK f \in Out(E, s) : /\ k = "execution" => f.kind = "execution"
                             /\ d.from = f.to \/ d.from \in Reachable(E, f.to)
  BY DEF Ordered
<1>2. f.to \in Node /\ d.to \in Reachable(E, d.from)
  BY ReachEdge DEF Out, Forward
<1>3. d.to \in Reachable(E, f.to)
  BY <1>1, <1>2, ReachTrans
<1> QED  BY <1>1, <1>3 DEF Ordered

LEMMA OrderedReach ==
  ASSUME NEW E, Forward(E), NEW s \in Node, NEW b
  PROVE  b \in Reachable(E, s) <=> Ordered(E, s, b, "scheduling")
BY ReachFix DEF Ordered

\* An edge that is needed remains so when others are erased.
LEMMA NeededStays ==
  ASSUME NEW E, Forward(E), NEW G \in SUBSET E, NEW e, Needed(E, e)
  PROVE  Needed(G, e)
<1> SUFFICES ASSUME NEW f \in Out(G, e.from), e.to \in Reachable(G, f.to)  PROVE FALSE
  BY DEF Needed
<1>1. f \in Out(E, e.from) /\ f.to \in Node
  BY DEF Out, Forward
<1>2. e.to \in Reachable(E, f.to)
  BY <1>1, ReachMono
<1> QED  BY <1>1, <1>2 DEF Needed
-----------------------------------------------------------------------------
(* The steps of the reduction.                                             *)

LEMMA InitGInv == Init => GInv
<1> SUFFICES ASSUME Init PROVE GInv
  OBVIOUS
<1>1. /\ edges = AllEdges /\ priority = [n \in Node |-> 0] /\ source = NumOperations - 1
      /\ rest = ById(Out(edges, source)) /\ out_edge = "execution" /\ stack = <<>>
      /\ visited = {}
  BY DEF Init
<1>2. Forward(edges) /\ \A e \in AllEdges : e.from \in Node
  BY <1>1, AllEdgesFacts DEF Forward
<1>3. Shape
  BY <1>1, NumOperationsAssumption DEF Shape
<1>4. Lists(rest, Out(edges, source))
  BY <1>1, OutBundle, ByIdLists
<1>5. RestInv
  <2>1. Out(edges, source) \subseteq AllEdges /\ \A e \in Out(edges, source) : e.from = source
    BY <1>1 DEF Out
  <2>2. \A e \in AllEdges : e.from = source => On(e, rest)
    BY <1>1, <1>4 DEF Lists, On, Out
  <2> QED  BY <1>4, <2>1, <2>2 DEF RestInv, Lists
<1>6. StackInv /\ VisitedInv
  BY <1>1 DEF StackInv, VisitedInv
<1>7. ConflictsStayOrdered
  <2>1. \A e \in AllEdges : Ordered(edges, e.from, e.to, e.kind)
    BY <1>1 DEF Ordered, Out
  <2> QED  BY <1>2, <2>1, ConflictsAreOrdered
<1>8. PriorityCountsDependents
  BY <1>1, NodeFacts, NumOperationsAssumption DEF PriorityCountsDependents
<1>9. MinimalInv
  <2>1. ASSUME NEW e \in edges  PROVE ~(e.from > source)
    <3>1. e.from \in Nat /\ e.from < NumOperations
      BY <1>1, <1>2, NodeFacts
    <3> QED  BY <1>1, <3>1, NumOperationsAssumption
  <2>2. \A e \in edges : e.from = source => On(e, rest)
    BY <1>4 DEF Lists, On, Out
  <2> QED  BY <1>1, <2>1, <2>2 DEF MinimalInv
<1> QED  BY <1>3, <1>5, <1>6, <1>7, <1>8, <1>9 DEF GInv

LEMMA SameEdges ==
  ASSUME ops' = ops
  PROVE  AllEdges' = AllEdges
BY DEF AllEdges, EdgeBetween, Conflict, BufferConflict, ResourceConflicts

LEMMA SearchOutEdgeInv ==
  ASSUME GInv, SearchOutEdge
  PROVE  GInv'
<1>1. /\ source >= 0 /\ stack = <<>> /\ rest # <<>> /\ rest' = Tail(rest)
      /\ ops' = ops /\ edges' = edges /\ priority' = priority /\ source' = source
  BY DEF SearchOutEdge
<1>2. PICK e, E : e = Head(rest) /\ E = edges
  OBVIOUS
<1>3. PICK A : A = AllEdges
  OBVIOUS
<1>4. AllEdges' = A
  BY <1>1, <1>3, SameEdges
<1>5. PICK seen : seen = visited \cup {e.to}
  OBVIOUS
<1>6. /\ out_edge' = e.kind /\ visited' = seen \cup Targets(Out(E, e.to))
      /\ stack' = PushToStack(<<>>, seen, Out(E, e.to))
  BY <1>1, <1>2, <1>5 DEF SearchOutEdge
<1>7. /\ Shape /\ RestInv /\ VisitedInv /\ Forward(E) /\ E \in SUBSET A /\ Forward(A)
      /\ \A f \in A : f.kind \in {"execution", "scheduling"}
      /\ \A f, g \in A : f.from = g.from /\ f.to = g.to => f = g
      /\ \A f \in A : Ordered(E, f.from, f.to, f.kind)
  BY <1>2, <1>3, InvFacts, AllEdgesFacts DEF GInv
<1>8. /\ rest \in Seq(A) /\ rest[1] = e /\ 1 \in DOMAIN rest /\ e \in A /\ e.from = source
      /\ DOMAIN rest = 1 .. Len(rest) /\ Len(rest) \in Nat
  <2>1. rest \in Seq(A) /\ rest # <<>>
    BY <1>1, <1>3, <1>7 DEF RestInv
  <2>2. rest[1] = e /\ 1 \in DOMAIN rest /\ e \in A /\ DOMAIN rest = 1 .. Len(rest)
        /\ Len(rest) \in Nat
    BY <1>2, <2>1
  <2> QED  BY <1>7, <2>1, <2>2 DEF RestInv
<1>9. /\ rest' \in Seq(A) /\ DOMAIN rest' = 1 .. Len(rest) - 1
      /\ \A i \in DOMAIN rest' : i + 1 \in DOMAIN rest /\ rest'[i] = rest[i + 1]
  BY <1>1, <1>8
<1>10. /\ e.to \in Node /\ e.to \in Nat /\ source \in Node /\ source < e.to /\ source \in Nat
       /\ Ordered(E, source, e.to, e.kind) /\ e.to \in Reachable(E, source)
  <2>1. Ordered(E, source, e.to, e.kind)
    BY <1>7, <1>8
  <2> QED  BY <1>7, <2>1, OrderedFacts, NodeFacts
<1>11. \A f \in Out(E, e.to) : /\ f \in E /\ f.from = e.to /\ f.to \in Node /\ f.to > e.to
                               /\ f.to \in visited'
  BY <1>6, <1>7 DEF Out, Forward, Targets
<1>12. /\ stack' \in Seq(E)
       /\ \A i \in DOMAIN stack' : stack'[i] \in Out(E, e.to) /\ stack'[i].to \notin seen
       /\ \A f \in Out(E, e.to) : f.to \in seen \/ Leads(stack', f.to)
  <2>1. PICK s : s = <<>>
    OBVIOUS
  <2>2. s \in Seq(E) /\ (\A f : ~On(f, s)) /\ E \in SUBSET AllEdges
    BY <1>3, <1>7, <2>1 DEF On
  <2>3. PICK n, p : n = e.to /\ p = PushToStack(s, seen, Out(E, n))
    OBVIOUS
  <2>4. /\ p \in Seq(E)
        /\ \A i \in DOMAIN p : On(p[i], s) \/ (p[i] \in Out(E, n) /\ p[i].to \notin seen)
        /\ \A f \in Out(E, n) : f.to \in seen \/ Leads(p, f.to)
    BY ONLY <2>2, <2>3, PushFacts
  <2> QED  BY <1>6, <2>1, <2>2, <2>3, <2>4
<1>13. Shape'
  <2>1. visited' \subseteq Node
    BY <1>5, <1>6, <1>7, <1>10, <1>11 DEF Shape, Targets
  <2>2. out_edge' \in {"execution", "scheduling"}
    BY <1>6, <1>7, <1>8
  <2> QED  BY <1>1, <1>2, <1>3, <1>4, <1>7, <2>1, <2>2 DEF Shape
<1>14. ASSUME NEW f \in A, f.from = source, ~On(f, rest')
       PROVE  f.to \in visited' /\ \A i \in DOMAIN rest' : f.to < rest'[i].to
  <2>1. CASE On(f, rest)
    <3>1. PICK i \in DOMAIN rest : rest[i] = f
      BY <2>1 DEF On
    <3>2. i = 1
      <4> SUFFICES ASSUME i # 1  PROVE FALSE
        OBVIOUS
      <4>1. i - 1 \in DOMAIN rest' /\ (i - 1) + 1 = i
        BY <1>8, <1>9
      <4>2. rest'[i - 1] = f
        BY <1>9, <3>1, <4>1
      <4> QED  BY <1>14, <4>1, <4>2 DEF On
    <3>3. f = e
      BY <1>8, <3>1, <3>2
    <3>4. \A j \in DOMAIN rest' : 1 < j + 1
      BY <1>8, <1>9
    <3> QED  BY <1>5, <1>6, <1>7, <1>8, <1>9, <3>3, <3>4 DEF RestInv
  <2>2. CASE ~On(f, rest)
    BY <1>3, <1>5, <1>6, <1>7, <1>9, <1>14, <2>2 DEF RestInv
  <2> QED  BY <2>1, <2>2
<1>15. RestInv'
  <2>1. \A i, j \in DOMAIN rest' : i < j => rest'[i].to < rest'[j].to
    <3> SUFFICES ASSUME NEW i \in DOMAIN rest', NEW j \in DOMAIN rest', i < j
                 PROVE  rest'[i].to < rest'[j].to
      OBVIOUS
    <3>1. i + 1 < j + 1
      BY <1>8, <1>9
    <3> QED  BY <1>7, <1>9, <3>1 DEF RestInv
  <2>2. \A i \in DOMAIN rest' : rest'[i].from = source'
    BY <1>1, <1>7, <1>9 DEF RestInv
  <2> QED  BY <1>1, <1>4, <1>9, <1>14, <2>1, <2>2 DEF RestInv
<1>16. StackInv'
  BY <1>1, <1>2, <1>6, <1>10, <1>11, <1>12 DEF StackInv
<1>17. VisitedInv'
  <2>1. \A n \in visited' : n \in Reachable(E, source)
    <3>1. \A n \in visited : n \in Reachable(E, source)
      BY <1>2, <1>7 DEF VisitedInv
    <3>2. \A f \in Out(E, e.to) : f.to \in Reachable(E, source)
      BY <1>7, <1>10, <1>11, ReachEdge, ReachTrans
    <3> QED  BY <1>5, <1>6, <1>10, <3>1, <3>2 DEF Targets
  <2>2. ASSUME NEW f \in E, f.from \in visited'  PROVE f.to \in visited' \/ Leads(stack', f.from)
    <3>1. CASE f.from \in visited
      <4>1. ~Leads(stack, f.from)
        BY <1>1 DEF Leads
      <4> QED  BY <1>2, <1>5, <1>6, <1>7, <3>1, <4>1 DEF VisitedInv
    <3>2. CASE f.from = e.to
      BY <1>11, <3>2 DEF Out
    <3>3. CASE f.from \notin visited /\ f.from # e.to
      <4>1. PICK g \in Out(E, e.to) : f.from = g.to
        BY <1>5, <1>6, <2>2, <3>3 DEF Targets
      <4> QED  BY <1>5, <1>12, <3>3, <4>1
    <3> QED  BY <3>1, <3>2, <3>3
  <2> QED  BY <1>1, <1>2, <2>1, <2>2 DEF VisitedInv
<1>18. ConflictsStayOrdered'
  <2>1. \A f \in AllEdges' : Ordered(edges', f.from, f.to, f.kind)
    BY <1>1, <1>2, <1>4, <1>7
  <2>2. Forward(edges') /\ \A f \in AllEdges' : f.from \in Node
    BY <1>1, <1>2, <1>4, <1>7 DEF Forward
  <2> QED  BY <1>1, <1>3, <1>4 DEF ConflictsStayOrdered, GInv
<1>19. PriorityCountsDependents'
  BY <1>1, <1>3, <1>4 DEF PriorityCountsDependents, GInv
<1>20. MinimalInv'
  <2> SUFFICES ASSUME \A f \in A : f.kind = "execution"
               PROVE  /\ out_edge' = "execution"
                      /\ \A f \in E : f.from > source => Needed(E, f)
                      /\ \A f \in E : f.from = source =>
                           IF On(f, rest') THEN f.to \in visited' => Leads(stack', f.to)
                                           ELSE Needed(E, f)
    BY <1>1, <1>2, <1>4 DEF MinimalInv
  <2>1. out_edge' = "execution" /\ \A f \in E : f.from > source => Needed(E, f)
    BY <1>2, <1>3, <1>6, <1>8 DEF MinimalInv, GInv
  <2>2. \A f \in E : f.from = source =>
          IF On(f, rest) THEN f.to \notin visited ELSE Needed(E, f)
    <3>1. \A n : ~Leads(stack, n)
      BY <1>1 DEF Leads
    <3> QED  BY <1>2, <1>3, <3>1 DEF MinimalInv, GInv
  <2>3. \A f \in A : On(f, rest') => On(f, rest) /\ f # e
    <3> SUFFICES ASSUME NEW f \in A, NEW i \in DOMAIN rest', rest'[i] = f
                 PROVE  On(f, rest) /\ f # e
      BY DEF On
    <3>1. i + 1 \in DOMAIN rest /\ rest[i + 1] = f /\ 1 < i + 1
      BY <1>8, <1>9
    <3>2. rest[1].to < rest[i + 1].to
      BY <1>7, <1>8, <3>1 DEF RestInv
    <3> QED  BY <1>8, <1>10, <3>1, <3>2 DEF On
  <2>4. ASSUME NEW f \in E, f.from = source, On(f, rest'), f.to \in visited'
        PROVE  Leads(stack', f.to)
    <3>1. f \in A /\ On(f, rest) /\ f # e
      BY <1>7, <2>3, <2>4
    <3>2. f.to \notin visited /\ f.to # e.to
      BY <1>7, <1>8, <2>2, <2>4, <3>1
    <3>3. PICK g \in Out(E, e.to) : f.to = g.to
      BY <1>5, <1>6, <2>4, <3>2 DEF Targets
    <3> QED  BY <1>5, <1>12, <3>2, <3>3
  <2>5. ASSUME NEW f \in E, f.from = source, ~On(f, rest')  PROVE Needed(E, f)
    <3>1. CASE ~On(f, rest)
      BY <2>2, <2>5, <3>1
    <3>2. CASE On(f, rest)
      <4>1. f = e
        <5>1. PICK i \in DOMAIN rest : rest[i] = f
          BY <3>2 DEF On
        <5>2. i = 1
          <6> SUFFICES ASSUME i # 1  PROVE FALSE
            OBVIOUS
          <6>1. i - 1 \in DOMAIN rest' /\ (i - 1) + 1 = i
            BY <1>8, <1>9
          <6>2. rest'[i - 1] = f
            BY <1>9, <5>1, <6>1
          <6> QED  BY <2>5, <6>1, <6>2 DEF On
        <5> QED  BY <1>8, <5>1, <5>2
      <4>2. e.to \notin visited
        BY <2>2, <2>5, <3>2, <4>1
      <4>3. ASSUME NEW g \in Out(E, source), e.to \in Reachable(E, g.to)  PROVE FALSE
        <5>1. g \in A /\ g \in E /\ g.from = source /\ g.to \in Node /\ g.to < e.to /\ g.to \in Nat
          <6>1. g \in A /\ g \in E /\ g.from = source /\ g.to \in Node
            BY <1>7 DEF Out, Forward
          <6> QED  BY <1>7, <4>3, <6>1, ReachBounds, NodeFacts
        <5>2. ~On(g, rest)
          <6> SUFFICES ASSUME NEW i \in DOMAIN rest, rest[i] = g  PROVE FALSE
            BY DEF On
          <6>1. i = 1 \/ 1 < i
            BY <1>8
          <6>2. 1 < i => rest[1].to < rest[i].to
            BY <1>7, <1>8 DEF RestInv
          <6> QED  BY <1>8, <1>10, <5>1, <6>1, <6>2
        <5>3. g.to \in visited
          BY <1>3, <1>7, <5>1, <5>2 DEF RestInv
        <5>4. Closed(E, g.to, visited)
          <6>1. \A n : ~Leads(stack, n)
            BY <1>1 DEF Leads
          <6> QED  BY <1>2, <1>7, <5>3, <6>1 DEF Closed, VisitedInv
        <5>5. e.to \in visited
          BY <1>7, <4>3, <5>1, <5>4, ReachClosed
        <5> QED  BY <4>2, <5>5
      <4> QED  BY <1>8, <4>1, <4>3 DEF Needed
    <3> QED  BY <3>1, <3>2
  <2> QED  BY <2>1, <2>4, <2>5
<1> QED  BY <1>13, <1>15, <1>16, <1>17, <1>18, <1>19, <1>20 DEF GInv

LEMMA VisitNodeInv ==
  ASSUME GInv, VisitNode
  PROVE  GInv'
<1>1. /\ stack # <<>> /\ ops' = ops /\ priority' = priority /\ source' = source
      /\ rest' = rest /\ out_edge' = out_edge
  BY DEF VisitNode
<1>2. PICK E, A, V, d, left, k : /\ E = edges /\ A = AllEdges /\ V = visited /\ d = Last(stack)
                                 /\ left = Front(stack) /\ k = out_edge
  OBVIOUS
<1>3. PICK X : X = EraseEdge(source, d.to, ErasableKind(d, left))
  OBVIOUS
<1>4. PICK G : G = E \ X
  OBVIOUS
<1>5. /\ edges' = G /\ stack' = PushToStack(left, V, Out(E, d.to))
      /\ visited' = V \cup Targets(Out(E, d.to))
  BY <1>2, <1>3, <1>4 DEF VisitNode
<1>6. AllEdges' = A
  BY <1>1, <1>2, SameEdges
<1>7. /\ Shape /\ RestInv /\ VisitedInv /\ StackInv /\ Forward(E) /\ E \in SUBSET A /\ Forward(A)
      /\ source \in Int /\ \A f \in A : Ordered(E, f.from, f.to, f.kind)
  BY <1>2, InvFacts, AllEdgesFacts DEF GInv
<1>8. /\ stack \in Seq(E) /\ Len(stack) \in Nat /\ Len(stack) > 0
      /\ DOMAIN stack = 1 .. Len(stack) /\ d = stack[Len(stack)] /\ d \in E
  <2>1. stack \in Seq(E) /\ stack # <<>>
    BY <1>1, <1>2, <1>7 DEF StackInv
  <2> QED  BY <1>2, <2>1 DEF Last
<1>9. /\ left \in Seq(E) /\ DOMAIN left = 1 .. Len(stack) - 1
      /\ \A i \in DOMAIN left : i \in DOMAIN stack /\ left[i] = stack[i]
  <2>1. left = SubSeq(stack, 1, Len(stack) - 1)
    BY <1>2 DEF Front
  <2> QED  BY <1>8, <2>1
<1>10. source < d.from /\ d.to \in V /\ Ordered(E, source, d.from, k)
  BY <1>2, <1>7, <1>8 DEF StackInv
<1>11. /\ source \in Node /\ source \in Nat /\ d.from \in Node /\ d.from \in Nat /\ d.to \in Node
       /\ d.to \in Nat /\ d.from < d.to /\ source < d.to
  <2>1. source \in Node /\ d.from \in Node /\ d.to \in Node /\ d.from < d.to
    BY <1>7, <1>8, <1>10, OrderedFacts DEF Forward
  <2>2. source \in Nat /\ d.from \in Nat /\ d.to \in Nat
    BY <2>1, NodeFacts
  <2> QED  BY <1>10, <2>1, <2>2
<1>12. X \in SUBSET Erased(E, source, d, k)
  <2>1. ErasableKind(d, left) = "execution" => k = "execution"
    BY <1>2, <1>7 DEF ErasableKind, Shape
  <2> QED  BY <1>2, <1>3, <2>1 DEF EraseEdge, Erased
<1>13. /\ G \in SUBSET E /\ G \in SUBSET A /\ Forward(G)
       /\ \A f \in E : f.from # source => f \in G
  BY <1>4, <1>7, <1>12 DEF Erased, Forward
<1>14. ASSUME NEW a \in Node, a >= source, NEW b, NEW j, Ordered(E, a, b, j)
       PROVE  Ordered(G, a, b, j)
  BY <1>4, <1>7, <1>8, <1>10, <1>12, <1>14, OrdersSurvive
<1>15. Out(G, d.to) = Out(E, d.to)
  BY <1>11, <1>13 DEF Out
<1>16. left \in Seq(G) /\ \A i \in DOMAIN left : left[i] \in G
  <2>1. \A i \in DOMAIN left : left[i] \in G
    BY <1>2, <1>7, <1>9, <1>11, <1>13 DEF StackInv
  <2> QED  BY <1>9, <2>1
<1>17. PICK n, p, W : n = d.to /\ p = stack' /\ W = visited'
  OBVIOUS
<1>18. /\ p \in Seq(G)
       /\ \A i \in DOMAIN p : On(p[i], left) \/ (p[i] \in Out(G, n) /\ p[i].to \notin V)
       /\ \A i \in DOMAIN left : Leads(p, left[i].to)
       /\ \A f \in Out(G, n) : f.to \in V \/ Leads(p, f.to)
  <2>1. G \in SUBSET AllEdges /\ p = PushToStack(left, V, Out(G, n))
    BY <1>2, <1>5, <1>13, <1>15, <1>17
  <2> QED  BY ONLY <1>16, <2>1, PushFacts
<1>19. /\ \A x \in V : x \in W
       /\ \A f \in Out(G, n) : /\ f \in G /\ f.from = d.to /\ f.to \in Node /\ f.to \in W
       /\ \A x \in W : x \in V \/ \E f \in Out(G, n) : x = f.to
  BY <1>5, <1>13, <1>15, <1>17 DEF Out, Targets, Forward
<1>20. Shape'
  <2>1. W \subseteq Node
    BY <1>2, <1>7, <1>19 DEF Shape
  <2>2. \A f \in A : f.from < source => f \in G
    BY <1>2, <1>7, <1>11, <1>13 DEF Shape, Forward
  <2> QED  BY <1>1, <1>2, <1>5, <1>6, <1>7, <1>13, <1>17, <2>1, <2>2 DEF Shape
<1>21. RestInv'
  BY <1>1, <1>2, <1>6, <1>7, <1>17, <1>19 DEF RestInv
<1>22. StackInv'
  <2> SUFFICES ASSUME NEW i \in DOMAIN p
               PROVE  /\ source < p[i].from /\ p[i].to \in W
                      /\ Ordered(G, source, p[i].from, k)
    BY <1>1, <1>2, <1>5, <1>17, <1>18 DEF StackInv
  <2>1. CASE On(p[i], left)
    <3>1. PICK j \in DOMAIN left : left[j] = p[i]
      BY <2>1 DEF On
    <3>2. j \in DOMAIN stack /\ stack[j] = p[i]
      BY <1>9, <3>1
    <3>3. source < p[i].from /\ p[i].to \in V /\ Ordered(E, source, p[i].from, k)
      BY <1>2, <1>7, <3>2 DEF StackInv
    <3> QED  BY <1>11, <1>14, <1>19, <3>3
  <2>2. CASE p[i] \in Out(G, n)
    <3>1. Ordered(E, source, d.to, k)
      BY <1>7, <1>8, <1>10, OrderedStep
    <3> QED  BY <1>11, <1>14, <1>19, <2>2, <3>1
  <2> QED  BY <1>18, <2>1, <2>2
<1>23. VisitedInv'
  <2>1. ASSUME NEW x \in V  PROVE x \in Reachable(G, source)
    <3>1. Ordered(E, source, x, "scheduling")
      BY <1>2, <1>7, <1>11, OrderedReach DEF VisitedInv
    <3>2. Ordered(G, source, x, "scheduling")
      BY <1>11, <1>14, <3>1
    <3> QED  BY <1>11, <1>13, <3>2, OrderedReach
  <2>2. ASSUME NEW f \in Out(G, n)  PROVE f.to \in Reachable(G, source)
    <3>1. f.to \in Reachable(G, d.to) /\ d.to \in Reachable(G, source)
      BY <1>10, <1>13, <1>19, <2>1, ReachEdge
    <3> QED  BY <1>11, <1>13, <3>1, ReachTrans
  <2>3. ASSUME NEW f \in G, f.from \in W  PROVE f.to \in W \/ Leads(p, f.from)
    <3>1. CASE f.from \in V
      <4>1. f.to \in V \/ Leads(stack, f.from)
        BY <1>2, <1>7, <1>13, <3>1 DEF VisitedInv
      <4>2. CASE f.to \in V
        BY <1>19, <4>2
      <4>3. CASE Leads(stack, f.from)
        <5>1. PICK i \in DOMAIN stack : stack[i].to = f.from
          BY <4>3 DEF Leads
        <5>2. CASE i = Len(stack)
          BY <1>8, <1>17, <1>19, <5>1, <5>2 DEF Out
        <5>3. CASE i # Len(stack)
          <6>1. i \in DOMAIN left /\ left[i].to = f.from
            BY <1>8, <1>9, <5>1, <5>3
          <6> QED  BY <1>18, <6>1
        <5> QED  BY <5>2, <5>3
      <4> QED  BY <4>1, <4>2, <4>3
    <3>2. CASE f.from \notin V
      BY <1>18, <1>19, <2>3, <3>2
    <3> QED  BY <3>1, <3>2
  <2> QED  BY <1>1, <1>5, <1>17, <1>19, <2>1, <2>2, <2>3 DEF VisitedInv
<1>24. ConflictsStayOrdered'
  <2>1. ASSUME NEW f \in A  PROVE Ordered(G, f.from, f.to, f.kind)
    <3>1. f.from \in Node /\ f.from \in Nat
      BY <1>7, NodeFacts DEF Forward
    <3>2. CASE f.from >= source
      BY <1>7, <1>14, <3>1, <3>2
    <3>3. CASE f.from < source
      <4>1. f \in G
        BY <1>2, <1>7, <1>11, <1>13, <3>1, <3>3 DEF Shape
      <4> QED  BY <4>1 DEF Ordered, Out
    <3> QED  BY <1>11, <3>1, <3>2, <3>3
  <2>2. Forward(G) /\ \A f \in A : f.from \in Node
    BY <1>7, <1>13 DEF Forward
  <2> QED  BY <1>5, <1>6, <2>1, <2>2, EdgeOrder DEF ConflictsStayOrdered
<1>25. PriorityCountsDependents'
  BY <1>1, <1>2, <1>6 DEF PriorityCountsDependents, GInv
<1>26. MinimalInv'
  <2> SUFFICES ASSUME \A f \in A : f.kind = "execution"
               PROVE  /\ k = "execution"
                      /\ \A f \in G : f.from > source => Needed(G, f)
                      /\ \A f \in G : f.from = source =>
                           IF On(f, rest) THEN f.to \in W => Leads(p, f.to) ELSE Needed(G, f)
    BY <1>1, <1>2, <1>5, <1>6, <1>17 DEF MinimalInv
  <2>1. /\ k = "execution"
        /\ \A f \in E : f.from > source => Needed(E, f)
        /\ \A f \in E : f.from = source =>
             IF On(f, rest) THEN f.to \in V => Leads(stack, f.to) ELSE Needed(E, f)
    BY <1>2 DEF MinimalInv, GInv
  <2>2. \A f \in G : Needed(E, f) => Needed(G, f)
    BY <1>7, <1>13, NeededStays
  <2>3. ASSUME NEW f \in G, f.from = source, On(f, rest), f.to \in W  PROVE Leads(p, f.to)
    <3>1. CASE f.to \notin V
      BY <1>18, <1>19, <2>3, <3>1
    <3>2. CASE f.to \in V
      <4>1. PICK i \in DOMAIN stack : stack[i].to = f.to
        BY <1>13, <2>1, <2>3, <3>2 DEF Leads
      <4>2. i # Len(stack)
        <5> SUFFICES ASSUME i = Len(stack)  PROVE FALSE
          OBVIOUS
        <5>1. f.to = d.to /\ f \in E /\ d.kind = "execution"
          BY <1>7, <1>8, <1>13, <4>1
        <5>2. \A j \in DOMAIN left : left[j].kind = "execution"
          BY <1>13, <1>16
        <5>3. ErasableKind(d, left) = "execution"
          BY <1>2, <2>1, <5>1, <5>2 DEF ErasableKind
        <5>4. f \in X
          BY <1>2, <1>3, <2>3, <5>1, <5>3 DEF EraseEdge
        <5> QED  BY <1>4, <5>4
      <4>3. i \in DOMAIN left /\ left[i].to = f.to
        BY <1>8, <1>9, <4>1, <4>2
      <4> QED  BY <1>18, <4>3
    <3> QED  BY <3>1, <3>2
  <2> QED  BY <1>13, <2>1, <2>2, <2>3
<1> QED  BY <1>20, <1>21, <1>22, <1>23, <1>24, <1>25, <1>26 DEF GInv

LEMMA FinishSourceInv ==
  ASSUME GInv, FinishSource
  PROVE  GInv'
<1>1. /\ source >= 0 /\ stack = <<>> /\ rest = <<>> /\ source' = source - 1 /\ visited' = {}
      /\ ops' = ops /\ edges' = edges /\ out_edge' = out_edge /\ stack' = stack
      /\ priority' = [priority EXCEPT ![source] = Cardinality(visited)]
      /\ rest' = ById(Out(edges, source - 1))
  BY DEF FinishSource
<1>2. PICK E, A, s : E = edges /\ A = AllEdges /\ s = source
  OBVIOUS
<1>3. AllEdges' = A
  BY <1>1, <1>2, SameEdges
<1>4. /\ Shape /\ RestInv /\ VisitedInv /\ Forward(E) /\ E \in SUBSET A /\ Forward(A)
      /\ \A f \in A : Ordered(E, f.from, f.to, f.kind)
  BY <1>2, InvFacts, AllEdgesFacts DEF GInv
<1>5. s \in Node /\ s \in Nat /\ s - 1 \in -1 .. NumOperations - 1 /\ s - 1 \in Int
  BY <1>1, <1>2, <1>4, NumOperationsAssumption DEF Shape, Node
<1>6. \A f \in A : f.from \in Node /\ f.from \in Nat
  BY <1>4, NodeFacts DEF Forward
<1>7. (\A f : ~On(f, rest)) /\ \A n : ~Leads(stack, n)
  BY <1>1 DEF On, Leads
<1>8. visited = Reachable(A, s)
  <2>1. Closed(E, s, visited)
    BY <1>2, <1>4, <1>7 DEF Closed, RestInv, VisitedInv
  <2>2. \A x : x \in visited <=> x \in Reachable(E, s)
    BY <1>2, <1>4, <1>5, <2>1, ReachClosed DEF VisitedInv
  <2>3. \A f \in A : f.to \in Reachable(E, f.from)
    BY <1>4, OrderedFacts
  <2>4. Reachable(E, s) = Reachable(A, s)
    BY <1>4, <1>5, <2>3, SameReach
  <2> QED  BY <2>2, <2>4
<1>9. Shape'
  <2>1. Cardinality(visited) \in Nat
    <3>1. IsFiniteSet(Node) /\ visited \in SUBSET Node
      BY <1>4, NumOperationsAssumption, FS_Interval DEF Node, Shape
    <3>2. IsFiniteSet(visited)
      BY <3>1, FS_Subset
    <3> QED  BY <3>2, FS_CardinalityType
  <2>2. priority' \in [Node -> Nat]
    BY <1>1, <1>4, <2>1 DEF Shape
  <2>3. \A f \in A : f.from < s - 1 => f \in E
    BY <1>2, <1>4, <1>5, <1>6 DEF Shape
  <2> QED  BY <1>1, <1>2, <1>3, <1>4, <1>5, <2>2, <2>3 DEF Shape
<1>10. PICK r : r = ById(Out(E, s - 1))
  OBVIOUS
<1>11. Lists(r, Out(E, s - 1))
  <2>1. PICK n : n = s - 1
    OBVIOUS
  <2>2. E \in SUBSET AllEdges /\ Out(E, n) \in SUBSET Out(E, n)
    BY <1>2, <1>4
  <2>3. Bundle(Out(E, n))
    BY ONLY <2>2, OutBundle
  <2> QED  BY <1>10, <2>1, <2>3, ByIdLists
<1>12. \A f \in A : f.from = s - 1 => On(f, r)
  <2>1. \A f \in A : f.from = s - 1 => f \in Out(E, s - 1)
    BY <1>2, <1>4, <1>5, <1>6 DEF Shape, Out
  <2> QED  BY <1>11, <2>1 DEF Lists, On
<1>13. RestInv'
  <2>1. r \in Seq(A) /\ \A i \in DOMAIN r : r[i].from = s - 1
    <3>1. Out(E, s - 1) \subseteq A /\ \A f \in Out(E, s - 1) : f.from = s - 1
      BY <1>4 DEF Out
    <3> QED  BY <1>11, <3>1 DEF Lists
  <2>2. \A i, j \in DOMAIN r : i < j => r[i].to < r[j].to
    BY <1>11 DEF Lists
  <2> QED  BY <1>1, <1>2, <1>3, <1>10, <1>12, <2>1, <2>2 DEF RestInv
<1>14. StackInv' /\ VisitedInv'
  BY <1>1 DEF StackInv, VisitedInv
<1>15. ConflictsStayOrdered'
  BY <1>1, <1>2, <1>3 DEF ConflictsStayOrdered, GInv
<1>16. PriorityCountsDependents'
  <2> SUFFICES ASSUME NEW n \in Node, n > s - 1
               PROVE  priority'[n] = Cardinality(Reachable(A, n))
    BY <1>1, <1>2, <1>3 DEF PriorityCountsDependents
  <2>1. n \in Nat /\ priority \in [Node -> Nat]
    BY <1>4, NodeFacts DEF Shape
  <2>2. CASE n = s
    BY <1>1, <1>2, <1>5, <1>8, <2>1, <2>2
  <2>3. CASE n # s
    <3>1. n > s
      BY <1>5, <2>1, <2>3
    <3>2. priority[n] = Cardinality(Reachable(A, n))
      BY <1>2, <3>1 DEF PriorityCountsDependents, GInv
    <3> QED  BY <1>1, <1>2, <1>5, <2>1, <2>3, <3>2
  <2> QED  BY <2>2, <2>3
<1>17. MinimalInv'
  <2> SUFFICES ASSUME \A f \in A : f.kind = "execution"
               PROVE  /\ out_edge = "execution"
                      /\ \A f \in E : f.from > s - 1 => Needed(E, f)
                      /\ \A f \in E : f.from = s - 1 => On(f, r)
    BY <1>1, <1>2, <1>3, <1>10 DEF MinimalInv
  <2>1. /\ out_edge = "execution"
        /\ \A f \in E : f.from > s => Needed(E, f)
        /\ \A f \in E : f.from = s => Needed(E, f)
    BY <1>2, <1>7 DEF MinimalInv, GInv
  <2>2. \A f \in E : f.from \in Nat /\ (f.from > s - 1 => f.from = s \/ f.from > s)
    BY <1>4, <1>5, <1>6
  <2> QED  BY <1>4, <1>12, <2>1, <2>2
<1> QED  BY <1>9, <1>13, <1>14, <1>15, <1>16, <1>17 DEF GInv

LEMMA NextGInv == GInv /\ [Next]_vars => GInv'
<1> SUFFICES ASSUME GInv, [Next]_vars  PROVE GInv'
  OBVIOUS
<1>1. CASE SearchOutEdge
  BY <1>1, SearchOutEdgeInv
<1>2. CASE VisitNode
  BY <1>2, VisitNodeInv
<1>3. CASE FinishSource
  BY <1>3, FinishSourceInv
<1>4. CASE UNCHANGED vars
  <2>1. /\ ops' = ops /\ edges' = edges /\ priority' = priority /\ source' = source
        /\ rest' = rest /\ out_edge' = out_edge /\ stack' = stack /\ visited' = visited
    BY <1>4 DEF vars
  <2>2. AllEdges' = AllEdges
    BY <2>1, SameEdges
  <2>3. Shape' /\ RestInv' /\ StackInv' /\ VisitedInv'
    BY <2>1, <2>2 DEF GInv, Shape, RestInv, StackInv, VisitedInv
  <2>4. ConflictsStayOrdered' /\ PriorityCountsDependents' /\ MinimalInv'
    BY <2>1, <2>2 DEF GInv, ConflictsStayOrdered, PriorityCountsDependents, MinimalInv
  <2> QED  BY <2>3, <2>4 DEF GInv
<1> QED  BY <1>1, <1>2, <1>3, <1>4 DEF Next

LEMMA Invariance == Spec => []GInv
BY InitGInv, NextGInv, PTL DEF Spec
-----------------------------------------------------------------------------
\* Whatever the operations and their conflicts, no edge that VisitNode erases
\* loses an order: two operations with a conflict stay connected by a path, that
\* begins with an execution edge where they must not overlap.
THEOREM ReductionKeepsOrder == Spec => []ConflictsStayOrdered
<1>1. GInv => ConflictsStayOrdered
  BY DEF GInv
<1> QED  BY <1>1, Invariance, PTL

\* FinishSource gives a node the number of the nodes that can be reached from it
\* before the reduction: the search visits each of them, once, although it runs
\* on a graph from which edges are already erased.
THEOREM PrioritiesCorrect == Spec => []PriorityCountsDependents
<1>1. GInv => PriorityCountsDependents
  BY DEF GInv
<1> QED  BY <1>1, Invariance, PTL

\* When the reduction of a program with execution edges only is done, no edge is
\* left whose order a longer path implies.
THEOREM ReductionMinimal == Spec => []ReductionIsMinimal
<1>1. GInv => ReductionIsMinimal
  <2> SUFFICES ASSUME GInv, source = -1, \A e \in AllEdges : e.kind = "execution",
                      NEW e \in edges, e.to \in Reachable(edges \ {e}, e.from)
               PROVE  FALSE
    BY DEF ReductionIsMinimal
  <2>1. Forward(edges) /\ edges \in SUBSET AllEdges
    BY InvFacts
  <2>2. PICK E : E = edges
    OBVIOUS
  <2>3. PICK G : G = E \ {e}
    OBVIOUS
  <2>4. e.from \in Node /\ e.from > -1 /\ e \in AllEdges /\ Forward(E) /\ Forward(G) /\ G \in SUBSET E
    <3>1. e.from \in Node /\ Forward(E) /\ Forward(G) /\ e \in AllEdges /\ G \in SUBSET E
      BY <2>1, <2>2, <2>3 DEF Forward
    <3>2. e.from \in Nat
      BY <3>1, NodeFacts
    <3> QED  BY <3>1, <3>2
  <2>5. Needed(E, e)
    BY <2>2, <2>4 DEF GInv, MinimalInv
  <2>6. PICK f \in Out(G, e.from) : e.to = f.to \/ e.to \in Reachable(G, f.to)
    BY <2>2, <2>3, <2>4, ReachFix
  <2>7. f \in E /\ f \in AllEdges /\ f # e /\ f.from = e.from /\ f.to \in Node
    BY <2>1, <2>2, <2>3, <2>4, <2>6 DEF Out, Forward
  <2>8. CASE e.to = f.to
    BY <2>4, <2>7, <2>8, AllEdgesFacts
  <2>9. CASE e.to \in Reachable(G, f.to)
    <3>1. e.to \in Reachable(E, f.to)
      BY <2>4, <2>7, <2>9, ReachMono
    <3> QED  BY <2>5, <2>7, <3>1 DEF Needed, Out
  <2> QED  BY <2>6, <2>8, <2>9
<1> QED  BY <1>1, Invariance, PTL
=============================================================================
