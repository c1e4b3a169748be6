------------------------ MODULE ThunkExecutorProofs ------------------------
(***************************************************************************)
(* The tasks of ThunkExecutor implement ExecuteState, for every graph,     *)
(* queue type, split threshold and number of workers.                      *)
(***************************************************************************)
EXTENDS ThunkExecutor, ExecuteStateProofs, SequenceTheorems

Place == {"loop", "splitting", "joining", "popped", "running", "scheduling",
          "completing"}
Task == [node : Node \cup {NoNode}, at : Place, queue : Seq(Node), lock : BOOLEAN]

Queued(t) == {t.queue[i] : i \in DOMAIN t.queue}
Owned(t) == Queued(t) \cup ({t.node} \ {NoNode})

\* The phase of the node a task works on.
PhaseAt(p) == IF p \in {"splitting", "joining", "popped"} THEN "ready" ELSE p

\* A task works on a node in the phase its place in the loop says, and its
\* queue holds other nodes that are ready, once each.
TaskOK(t) ==
  /\ t \in Task
  /\ t.at \in {"loop", "splitting", "joining"} => t.queue # <<>>
  /\ IF t.at = "loop" THEN t.node = NoNode
                      ELSE t.node \in Node /\ phase[t.node] = PhaseAt(t.at)
  /\ t.node \notin Queued(t)
  /\ \A n \in Queued(t) : phase[n] = "ready"
  /\ \A i, j \in DOMAIN t.queue : t.queue[i] = t.queue[j] => i = j

\* No node is in the hands of two tasks.
TasksInv ==
  /\ options.queue \in {"fifo", "lifo", "priority"}
  /\ \A t \in tasks : TaskOK(t)
  /\ \A t, u \in tasks : t # u => Owned(t) \cap Owned(u) = {}
-----------------------------------------------------------------------------
(* Facts about the queues.                                                 *)

LEMMA QueueFacts ==
  ASSUME NEW q \in Seq(Node)
  PROVE  /\ DOMAIN q = 1 .. Len(q) /\ Len(q) \in Nat
         /\ \A i \in DOMAIN q : q[i] \in Node
         /\ q # <<>> <=> Len(q) > 0
OBVIOUS

\* Pop takes the node at one position, the others stay once each.
LEMMA RemoveAtFacts ==
  ASSUME NEW q \in Seq(Node), NEW i \in 1 .. Len(q)
  PROVE  /\ RemoveAt(q, i) \in Seq(Node)
         /\ Len(RemoveAt(q, i)) = Len(q) - 1
         /\ \A k \in 1 .. Len(q) - 1 :
              RemoveAt(q, i)[k] = IF k < i THEN q[k] ELSE q[k + 1]
<1> DEFINE a == SubSeq(q, 1, i - 1)
           b == SubSeq(q, i + 1, Len(q))
<1>1. a \in Seq(Node) /\ Len(a) = i - 1 /\ \A k \in 1 .. i - 1 : a[k] = q[k]
  OBVIOUS
<1>2. b \in Seq(Node) /\ Len(b) = Len(q) - i /\ \A k \in 1 .. Len(q) - i : b[k] = q[k + i]
  OBVIOUS
<1> HIDE DEF a, b
<1>3. /\ a \o b \in Seq(Node) /\ Len(a \o b) = Len(a) + Len(b)
      /\ \A k \in 1 .. Len(a) + Len(b) :
           (a \o b)[k] = IF k <= Len(a) THEN a[k] ELSE b[k - Len(a)]
  BY <1>1, <1>2, ConcatProperties, Zenon
<1>4. Len(q) \in Nat /\ i \in Nat /\ 1 <= i /\ i <= Len(q)
  OBVIOUS
<1>5. Len(a \o b) = Len(q) - 1
  BY <1>1, <1>2, <1>3, <1>4
<1>6. ASSUME NEW k \in 1 .. Len(q) - 1
      PROVE  (a \o b)[k] = IF k < i THEN q[k] ELSE q[k + 1]
  <2>1. (a \o b)[k] = IF k <= i - 1 THEN a[k] ELSE b[k - (i - 1)]
    BY <1>1, <1>2, <1>3, <1>4
  <2>2. CASE k < i
    BY <1>1, <1>4, <2>1, <2>2
  <2>3. CASE ~(k < i)
    <3>1. k - (i - 1) \in 1 .. Len(q) - i
      BY <1>4, <2>3
    <3>2. b[k - (i - 1)] = q[k - (i - 1) + i]
      BY <1>2, <3>1
    <3> QED  BY <1>4, <2>1, <2>3, <3>2
  <2> QED  BY <2>2, <2>3
<1>7. RemoveAt(q, i) = a \o b
  BY DEF RemoveAt, a, b
<1> QED  BY <1>3, <1>5, <1>6, <1>7

\* The nodes at the positions in I, once each.
LEMMA AtFacts ==
  ASSUME NEW q \in Seq(Node), NEW I \in SUBSET DOMAIN q, NEW s \in At(q, I),
         \A i, j \in DOMAIN q : q[i] = q[j] => i = j
  PROVE  /\ s \in Seq(Node)
         /\ \A i, j \in DOMAIN s : s[i] = s[j] => i = j
         /\ \A k \in DOMAIN s : \E i \in I : s[k] = q[i]
         /\ I # {} => s # <<>>
<1>1. PICK p \in Increasing(I) : s = [k \in DOMAIN p |-> q[p[k]]]
  BY DEF At
<1>2. IsFiniteSet(I) /\ Cardinality(I) \in Nat
  <2>1. DOMAIN q = 1 .. Len(q) /\ Len(q) \in Int
    OBVIOUS
  <2>2. IsFiniteSet(1 .. Len(q))
    BY <2>1, FS_Interval
  <2>3. IsFiniteSet(I)
    BY <2>1, <2>2, FS_Subset
  <2> QED  BY <2>3, FS_CardinalityType
<1>3. p \in [1 .. Cardinality(I) -> I]
      /\ \A a, b \in 1 .. Cardinality(I) : a < b => p[a] < p[b]
  BY <1>1 DEF Increasing
<1>4. I \subseteq Nat
  OBVIOUS
<1>5. \A a, b \in 1 .. Cardinality(I) : p[a] = p[b] => a = b
  BY <1>2, <1>3, <1>4
<1>6. s \in [1 .. Cardinality(I) -> Node] /\ DOMAIN s = 1 .. Cardinality(I)
  BY <1>1, <1>3
<1>7. s \in Seq(Node) /\ Len(s) = Cardinality(I)
  BY <1>2, <1>6
<1>8. I # {} => Cardinality(I) # 0
  BY <1>2, FS_EmptySet
<1>9. \A i, j \in DOMAIN s : s[i] = s[j] => i = j
  BY <1>1, <1>3, <1>5, <1>6
<1>10. \A k \in DOMAIN s : \E i \in I : s[k] = q[i]
  BY <1>1, <1>3, <1>6
<1> QED  BY <1>7, <1>8, <1>9, <1>10

\* PopHalf gives away at least one node.
LEMMA KeptFacts ==
  ASSUME TasksInv, NEW q \in Seq(Node), q # <<>>, NEW I \in KeptPositions(q)
  PROVE  I \in SUBSET DOMAIN q /\ DOMAIN q \ I # {}
<1>1. DOMAIN q = 1 .. Len(q) /\ Len(q) \in Nat /\ Len(q) > 0
  OBVIOUS
<1>2. CASE options.queue = "fifo"
  <2>1. I = 1 .. Len(q) \div 2
    BY <1>2 DEF KeptPositions
  <2>2. Len(q) \div 2 < Len(q) /\ Len(q) \div 2 \in Nat
    BY <1>1
  <2>3. Len(q) \in DOMAIN q \ I
    BY <1>1, <2>1, <2>2
  <2> QED  BY <1>1, <2>1, <2>2, <2>3
<1>3. CASE options.queue = "lifo"
  <2>1. I = Len(q) \div 2 + 2 .. Len(q)
    BY <1>3 DEF KeptPositions
  <2>2. Len(q) \div 2 \in Nat
    BY <1>1
  <2>3. 1 \in DOMAIN q \ I
    BY <1>1, <2>1, <2>2
  <2> QED  BY <1>1, <2>1, <2>2, <2>3
<1>4. CASE options.queue = "priority"
  <2>1. I \in SUBSET DOMAIN q /\ Cardinality(I) = Len(q) \div 2
    BY <1>4 DEF KeptPositions
  <2>2. Cardinality(DOMAIN q) = Len(q)
    BY <1>1, FS_Interval
  <2>3. \A k \in Nat : k > 0 => k \div 2 < k
    OBVIOUS
  <2>4. Cardinality(I) # Cardinality(DOMAIN q)
    BY <1>1, <2>1, <2>2, <2>3
  <2>5. I # DOMAIN q
    BY <2>4
  <2> QED  BY <2>1, <2>5
<1> QED  BY <1>2, <1>3, <1>4 DEF TasksInv

\* Pop takes a node of the queue.
LEMMA PopFacts ==
  ASSUME TasksInv, NEW q \in Seq(Node), q # <<>>, NEW i \in PopPositions(q)
  PROVE  i \in 1 .. Len(q)
<1>1. DOMAIN q = 1 .. Len(q) /\ Len(q) \in Nat /\ Len(q) > 0
  OBVIOUS
<1> QED  BY <1>1 DEF TasksInv, PopPositions
-----------------------------------------------------------------------------
(* The tasks in R are replaced by those in N.                              *)

LEMMA OwnedWithNode ==
  ASSUME NEW t, t.node \in Node
  PROVE  Owned(t) = Queued(t) \cup {t.node}
BY DEF Owned, NoNode, Node

LEMMA OwnedPhase ==
  ASSUME NEW t, TaskOK(t), NEW n \in Owned(t)
  PROVE  n \in Node /\ phase[n] \notin {"blocked", "async"}
<1>1. n \in Node
  BY QueueFacts DEF TaskOK, Task, Owned, Queued
<1>2. CASE n \in Queued(t)
  BY <1>1, <1>2 DEF TaskOK
<1>3. CASE n = t.node /\ n # NoNode
  BY <1>1, <1>3, NumThunksAssumption DEF TaskOK, Task, Place, PhaseAt
<1> QED  BY <1>1, <1>2, <1>3 DEF Owned

Replaces(R, N) ==
  /\ options' = options
  /\ R \subseteq tasks /\ tasks' = (tasks \ R) \cup N
  /\ \A u \in N : TaskOK(u)'
  /\ \A u, v \in N : u # v => Owned(u) \cap Owned(v) = {}
  /\ \A u \in N : \A n \in Owned(u) :
       (\E t \in R : n \in Owned(t)) \/ phase[n] \in {"blocked", "async"}
  /\ \A n \in Node : \/ phase'[n] = phase[n]
                     \/ phase[n] \in {"blocked", "async"}
                     \/ \E t \in R : n \in Owned(t)

LEMMA Replace ==
  ASSUME TasksInv, NEW R, NEW N, Replaces(R, N)
  PROVE  TasksInv'
<1> USE DEF Replaces
<1>1. ASSUME NEW v \in tasks \ R, NEW n \in Owned(v)
      PROVE  /\ phase'[n] = phase[n]
             /\ \A u \in N : n \notin Owned(u)
  <2>1. n \in Node /\ phase[n] \notin {"blocked", "async"}
    BY OwnedPhase DEF TasksInv
  <2>2. \A t \in R : n \notin Owned(t)
    BY DEF TasksInv
  <2> QED  BY <2>1, <2>2
<1>2. ASSUME NEW v \in tasks \ R  PROVE TaskOK(v)'
  <2>1. TaskOK(v)
    BY DEF TasksInv
  <2>2. \A n \in Queued(v) : phase'[n] = phase[n]
    BY <1>1 DEF Owned
  <2>3. v.at # "loop" => phase'[v.node] = phase[v.node]
    BY <1>1, <2>1, NumThunksAssumption DEF Owned, TaskOK, NoNode, Node
  <2> QED  BY <2>1, <2>2, <2>3 DEF TaskOK
<1>3. ASSUME NEW u \in tasks', NEW v \in tasks', u # v
      PROVE  Owned(u) \cap Owned(v) = {}
  BY <1>1, <1>3 DEF TasksInv
<1> QED  BY <1>2, <1>3 DEF TasksInv

LEMMA NewTaskOK ==
  ASSUME NEW q \in Seq(Node), q # <<>>, NEW l \in BOOLEAN,
         \A i, j \in DOMAIN q : q[i] = q[j] => i = j,
         \A i \in DOMAIN q : phase'[q[i]] = "ready"
  PROVE  /\ TaskOK(NewTask(q, l))'
         /\ Owned(NewTask(q, l)) = {q[i] : i \in DOMAIN q}
<1> DEFINE u == NewTask(q, l)
<1>1. u.node = NoNode /\ u.at = "loop" /\ u.queue = q /\ u.lock = l /\ u \in Task
  BY DEF NewTask, Task, Place
<1>2. Queued(u) = {q[i] : i \in DOMAIN q}
  BY <1>1 DEF Queued
<1>3. NoNode \notin Queued(u)
  BY <1>2, QueueFacts DEF NoNode, Node
<1> HIDE DEF u
<1>4. TaskOK(u)'
  BY <1>1, <1>2, <1>3 DEF TaskOK
<1> QED  BY <1>1, <1>2, <1>4 DEF Owned, u

\* A task goes on with the node it has.
LEMMA MovesOn ==
  ASSUME TasksInv, options' = options, NEW t \in tasks, t.at # "loop",
         NEW p \in Place \ {"loop"},
         p \in {"splitting", "joining"} => t.queue # <<>>,
         Goes(t, [t EXCEPT !.at = p]), phase'[t.node] = PhaseAt(p),
         \A n \in Node \ {t.node} : phase'[n] = phase[n]
  PROVE  TasksInv'
<1>1. TaskOK(t) /\ t.node \in Node
  BY DEF TasksInv, TaskOK
<1>2. PICK u : u = [t EXCEPT !.at = p]
  OBVIOUS
<1>3. u \in Task /\ u.at = p /\ u.node = t.node /\ u.queue = t.queue
  BY <1>1, <1>2 DEF TaskOK, Task
<1>4. Queued(u) = Queued(t) /\ Owned(u) = Owned(t)
  BY <1>3 DEF Queued, Owned
<1>5. ASSUME NEW n \in Queued(u)  PROVE phase'[n] = "ready"
  <2>1. n \in Queued(t) /\ n # t.node /\ phase[n] = "ready"
    BY <1>1, <1>4 DEF TaskOK
  <2>2. n \in Node
    BY <1>1, <2>1, QueueFacts DEF TaskOK, Task, Queued
  <2> QED  BY <2>1, <2>2
<1>6. TaskOK(u)'
  BY <1>1, <1>3, <1>4, <1>5 DEF TaskOK
<1>7. t.node \in Owned(t)
  BY <1>1 DEF Owned, NoNode, Node
<1>8. tasks' = (tasks \ {t}) \cup {u}
  BY <1>2 DEF Goes
<1>9. Replaces({t}, {u})
  BY <1>4, <1>6, <1>7, <1>8 DEF Replaces
<1> QED  BY <1>9, Replace

\* A task is done with the node it has.
LEMMA LoopsOn ==
  ASSUME TasksInv, options' = options, NEW t \in tasks, t.at # "loop",
         Loops(t), \A n \in Node \ {t.node} : phase'[n] = phase[n]
  PROVE  TasksInv'
<1>1. TaskOK(t) /\ t.node \in Node /\ t.node \in Owned(t)
  BY DEF TasksInv, TaskOK, Owned, NoNode, Node
<1>2. CASE t.queue = <<>>
  <2>1. Replaces({t}, {})
    BY <1>1, <1>2 DEF Replaces, Loops
  <2> QED  BY <2>1, Replace
<1>3. CASE t.queue # <<>>
  <2>1. PICK u : u = NewTask(t.queue, t.lock)
    OBVIOUS
  <2>2. /\ t.queue \in Seq(Node) /\ t.lock \in BOOLEAN
        /\ \A i, j \in DOMAIN t.queue : t.queue[i] = t.queue[j] => i = j
    BY <1>1 DEF TaskOK, Task
  <2>3. \A i \in DOMAIN t.queue : phase'[t.queue[i]] = "ready"
    BY <1>1, <2>2, QueueFacts DEF TaskOK, Queued
  <2>4. TaskOK(u)' /\ Owned(u) = Queued(t)
    BY <1>3, <2>1, <2>2, <2>3, NewTaskOK DEF Queued
  <2>5. Replaces({t}, {u})
    BY <1>1, <1>3, <2>1, <2>4 DEF Replaces, Loops, Goes, Owned
  <2> QED  BY <2>5, Replace
<1> QED  BY <1>2, <1>3

\* The tasks stay as they are.
LEMMA TasksStay ==
  ASSUME TasksInv, options' = options, tasks' = tasks,
         \A n \in Node : phase'[n] = phase[n] \/ phase[n] \in {"blocked", "async"}
  PROVE  TasksInv'
<1>1. Replaces({}, {})
  BY DEF Replaces
<1> QED  BY <1>1, Replace
-----------------------------------------------------------------------------
(* The actions of a task.                                                  *)

LEMMA PopInv ==
  ASSUME TasksInv, NEW t \in tasks, Pop(t)
  PROVE  TasksInv'
<1>1. /\ TaskOK(t) /\ t \in Task /\ t.at = "loop" /\ t.node = NoNode
      /\ t.queue \in Seq(Node) /\ t.queue # <<>>
      /\ phase' = phase /\ options' = options
  BY DEF TasksInv, TaskOK, Task, Pop, execVars
<1>2. PICK i \in PopPositions(t.queue) :
        LET r == RemoveAt(t.queue, i)
        IN  Goes(t, [t EXCEPT !.node = t.queue[i], !.at = Popped(r), !.queue = r])
  BY DEF Pop
<1>3. PICK q : q = t.queue
  OBVIOUS
<1>4. PICK r : r = RemoveAt(q, i)
  OBVIOUS
<1>5. PICK u : u = [t EXCEPT !.node = q[i], !.at = Popped(r), !.queue = r]
  OBVIOUS
<1>6. q \in Seq(Node) /\ q # <<>> /\ i \in 1 .. Len(q) /\ DOMAIN q = 1 .. Len(q)
  BY <1>1, <1>3, PopFacts
<1>7. /\ r \in Seq(Node) /\ Len(r) = Len(q) - 1 /\ DOMAIN r = 1 .. Len(q) - 1
      /\ \A k \in DOMAIN r : r[k] = IF k < i THEN q[k] ELSE q[k + 1]
  <2>1. /\ r \in Seq(Node) /\ Len(r) = Len(q) - 1
        /\ \A k \in 1 .. Len(q) - 1 : r[k] = IF k < i THEN q[k] ELSE q[k + 1]
    BY <1>4, <1>6, RemoveAtFacts
  <2>2. DOMAIN r = 1 .. Len(q) - 1
    BY <2>1
  <2> QED  BY <2>1, <2>2
<1>8. \A k, j \in DOMAIN q : q[k] = q[j] => k = j
  BY <1>1, <1>3 DEF TaskOK
<1>9. ASSUME NEW k \in DOMAIN r
      PROVE  \E j \in DOMAIN q : j # i /\ r[k] = q[j]
  BY <1>6, <1>7, QueueFacts
<1>10. ASSUME NEW k \in DOMAIN r, NEW j \in DOMAIN r, r[k] = r[j]  PROVE k = j
  BY <1>6, <1>7, <1>8, <1>10, QueueFacts
<1>11. q[i] \in Node /\ q[i] \in Queued(t) /\ phase[q[i]] = "ready"
  BY <1>1, <1>3, <1>6, QueueFacts DEF TaskOK, Queued
<1>12. Popped(r) \in {"splitting", "popped"}
       /\ (Popped(r) = "splitting" => r # <<>>)
  BY <1>7, SessionAssumption DEF Popped, Splits
<1>13. u \in Task /\ u.node = q[i] /\ u.at = Popped(r) /\ u.queue = r
  BY <1>1, <1>5, <1>7, <1>11, <1>12 DEF Task, Place
<1>14. Queued(u) = {r[k] : k \in DOMAIN r}
  BY <1>13 DEF Queued
<1>15. Queued(u) \subseteq Queued(t) /\ q[i] \notin Queued(u)
  <2>1. Queued(t) = {q[k] : k \in DOMAIN q}
    BY <1>3 DEF Queued
  <2>2. Queued(u) \subseteq Queued(t)
    BY <1>9, <1>14, <2>1
  <2>3. \A k \in DOMAIN r : r[k] # q[i]
    BY <1>6, <1>8, <1>9
  <2> QED  BY <1>14, <2>2, <2>3
<1>16. TaskOK(u)'
  BY <1>1, <1>10, <1>11, <1>12, <1>13, <1>15 DEF TaskOK, PhaseAt
<1>17. Replaces({t}, {u})
  BY <1>1, <1>2, <1>3, <1>4, <1>5, <1>11, <1>13, <1>15, <1>16
  DEF Replaces, Goes, Owned
<1> QED  BY <1>17, Replace

LEMMA TryJoinInv ==
  ASSUME TasksInv, NEW t \in tasks, TryJoin(t)
  PROVE  TasksInv'
<1>1. /\ TaskOK(t) /\ t.at = "splitting" /\ phase' = phase /\ options' = options
  BY DEF TasksInv, TryJoin, execVars
<1>2. PICK p \in {"joining", "popped"} : Goes(t, [t EXCEPT !.at = p])
  BY DEF TryJoin
<1>3. phase'[t.node] = PhaseAt(p) /\ t.queue # <<>>
  BY <1>1 DEF TaskOK, PhaseAt
<1>4. p \in Place \ {"loop"}
  BY DEF Place
<1> QED  BY <1>1, <1>2, <1>3, <1>4, MovesOn

LEMMA SplitReadyQueueInv ==
  ASSUME TasksInv, NEW t \in tasks, SplitReadyQueue(t)
  PROVE  TasksInv'
<1>1. /\ TaskOK(t) /\ t \in Task /\ t.at = "joining" /\ t.node \in Node
      /\ phase' = phase /\ options' = options
  BY DEF TasksInv, TaskOK, SplitReadyQueue, execVars
<1>2. PICK q : q = t.queue
  OBVIOUS
<1>3. /\ q \in Seq(Node) /\ q # <<>>
      /\ \A i, j \in DOMAIN q : q[i] = q[j] => i = j
      /\ \A i \in DOMAIN q : q[i] # t.node /\ phase[q[i]] = "ready"
  BY <1>1, <1>2 DEF TaskOK, Task, Queued
<1>4. PICK I \in KeptPositions(q) :
        \E kept \in At(q, I), given \in At(q, DOMAIN q \ I) :
          tasks' = (tasks \ {t}) \cup
                     {[t EXCEPT !.queue = kept, !.at = Popped(kept)],
                      NewTask(given, TRUE)}
  BY <1>2 DEF SplitReadyQueue
<1>5. PICK kept \in At(q, I), given \in At(q, DOMAIN q \ I) :
        tasks' = (tasks \ {t}) \cup
                   {[t EXCEPT !.queue = kept, !.at = Popped(kept)],
                    NewTask(given, TRUE)}
  BY <1>4
<1>6. I \in SUBSET DOMAIN q /\ DOMAIN q \ I # {}
  BY <1>3, KeptFacts
<1>7. /\ kept \in Seq(Node)
      /\ \A i, j \in DOMAIN kept : kept[i] = kept[j] => i = j
      /\ \A k \in DOMAIN kept : \E i \in I : kept[k] = q[i]
  BY <1>3, <1>6, AtFacts
<1>8. /\ given \in Seq(Node) /\ given # <<>>
      /\ \A i, j \in DOMAIN given : given[i] = given[j] => i = j
      /\ \A k \in DOMAIN given : \E i \in DOMAIN q \ I : given[k] = q[i]
  <2>1. DOMAIN q \ I \in SUBSET DOMAIN q
    OBVIOUS
  <2> QED  BY <1>3, <1>6, <2>1, AtFacts
<1>9. PICK u, v : /\ u = [t EXCEPT !.queue = kept, !.at = Popped(kept)]
                  /\ v = NewTask(given, TRUE)
  OBVIOUS
<1>10. Popped(kept) \in {"splitting", "popped"}
       /\ (Popped(kept) = "splitting" => kept # <<>>)
  BY <1>7, SessionAssumption DEF Popped, Splits
<1>11. u \in Task /\ u.node = t.node /\ u.at = Popped(kept) /\ u.queue = kept
  BY <1>1, <1>7, <1>9, <1>10 DEF Task, Place
<1>12. /\ Queued(u) = {kept[k] : k \in DOMAIN kept}
       /\ Owned(u) = Queued(u) \cup {t.node}
  BY <1>1, <1>11, NumThunksAssumption DEF Queued, Owned, NoNode, Node
<1>13. TaskOK(u)'
  BY <1>1, <1>3, <1>6, <1>7, <1>10, <1>11, <1>12 DEF TaskOK, PhaseAt
<1>14. TaskOK(v)' /\ Owned(v) = {given[k] : k \in DOMAIN given}
  <2>1. \A k \in DOMAIN given : phase'[given[k]] = "ready"
    BY <1>1, <1>3, <1>8
  <2> QED  BY <1>8, <1>9, <2>1, NewTaskOK
<1>15. Owned(u) \cap Owned(v) = {}
  BY <1>3, <1>6, <1>7, <1>8, <1>12, <1>14
<1>16. Owned(u) \subseteq Owned(t) /\ Owned(v) \subseteq Owned(t)
  <2>1. Queued(t) = {q[i] : i \in DOMAIN q}
    BY <1>2 DEF Queued
  <2>2. Owned(t) = Queued(t) \cup {t.node}
    BY <1>1, OwnedWithNode
  <2>3. Queued(u) \subseteq Queued(t)
    BY <1>6, <1>7, <1>12, <2>1
  <2>4. Owned(v) \subseteq Queued(t)
    BY <1>8, <1>14, <2>1
  <2> QED  BY <1>12, <2>2, <2>3, <2>4
<1>17. Replaces({t}, {u, v})
  BY <1>1, <1>5, <1>9, <1>13, <1>14, <1>15, <1>16 DEF Replaces
<1> QED  BY <1>17, Replace

LEMMA OffloadBlockingInv ==
  ASSUME TasksInv, NEW t \in tasks, OffloadBlocking(t)
  PROVE  TasksInv'
<1>1. /\ TaskOK(t) /\ t \in Task /\ t.at = "popped" /\ t.node \in Node
      /\ phase[t.node] = "ready" /\ t.queue # <<>>
      /\ phase' = phase /\ options' = options
  BY DEF TasksInv, TaskOK, OffloadBlocking, MustOffload, execVars, PhaseAt
<1>2. PICK q, l, s : q = t.queue /\ l = t.lock /\ s = <<t.node>>
  OBVIOUS
<1>3. PICK u, v : u = NewTask(q, l) /\ v = NewTask(s, TRUE)
  OBVIOUS
<1>4. /\ q \in Seq(Node) /\ q # <<>> /\ l \in BOOLEAN
      /\ \A i, j \in DOMAIN q : q[i] = q[j] => i = j
      /\ \A i \in DOMAIN q : q[i] # t.node /\ phase'[q[i]] = "ready"
  BY <1>1, <1>2 DEF TaskOK, Task, Queued
<1>5. TaskOK(u)' /\ Owned(u) = {q[i] : i \in DOMAIN q}
  BY <1>3, <1>4, NewTaskOK
<1>6. s \in Seq(Node) /\ s # <<>> /\ DOMAIN s = {1} /\ s[1] = t.node
  BY <1>1, <1>2
<1>7. TaskOK(v)' /\ Owned(v) = {t.node}
  <2>1. /\ \A i, j \in DOMAIN s : s[i] = s[j] => i = j
        /\ \A i \in DOMAIN s : phase'[s[i]] = "ready"
    BY <1>1, <1>6
  <2>2. TaskOK(v)' /\ Owned(v) = {s[i] : i \in DOMAIN s}
    BY <1>3, <1>6, <2>1, NewTaskOK
  <2> QED  BY <1>6, <2>2
<1>8. Owned(t) = Owned(u) \cup Owned(v) /\ Owned(u) \cap Owned(v) = {}
  <2>1. Queued(t) = {q[i] : i \in DOMAIN q}
    BY <1>2 DEF Queued
  <2>2. Owned(t) = Queued(t) \cup {t.node}
    BY <1>1, OwnedWithNode
  <2> QED  BY <1>4, <1>5, <1>7, <2>1, <2>2
<1>9. Replaces({t}, {u, v})
  BY <1>1, <1>2, <1>3, <1>5, <1>7, <1>8 DEF Replaces, OffloadBlocking
<1> QED  BY <1>9, Replace

\* The steps on the popped node are the steps of ExecuteState on a node in the
\* phase they ask for.
LEMMA StartThunkStep ==
  ASSUME ExecInv, TasksInv, NEW t \in tasks, StartThunk(t)
  PROVE  ExecNext /\ TasksInv'
<1>1. /\ TaskOK(t) /\ t.at = "popped" /\ t.node \in Node
      /\ phase[t.node] = "ready" /\ Start(t.node) /\ options' = options
  BY DEF TasksInv, TaskOK, StartThunk, PhaseAt
<1>2. ExecNext
  BY <1>1 DEF ExecNext, Process
<1>3. PICK p \in {"completing", "running"} :
        p = (IF abort THEN "completing" ELSE "running")
        /\ Goes(t, [t EXCEPT !.at = p])
  BY DEF StartThunk
<1>4. phase' = [phase EXCEPT ![t.node] = p]
  BY <1>1, <1>3 DEF Start, Enter
<1>5. phase'[t.node] = PhaseAt(p) /\ \A n \in Node \ {t.node} : phase'[n] = phase[n]
  BY <1>1, <1>4 DEF PhaseAt, ExecInv, ExecTypeOK
<1>6. p \in Place \ {"loop"} /\ p \notin {"splitting", "joining"}
  BY DEF Place
<1> QED  BY <1>1, <1>2, <1>3, <1>5, <1>6, MovesOn

LEMMA ThunkReturnsStep ==
  ASSUME ExecInv, TasksInv, NEW t \in tasks, ThunkReturns(t)
  PROVE  ExecNext /\ TasksInv'
<1>1. /\ TaskOK(t) /\ t.at = "running" /\ t.node \in Node
      /\ phase[t.node] = "running" /\ options' = options
  BY DEF TasksInv, TaskOK, ThunkReturns, PhaseAt
<1>2. ExecNext
  BY <1>1 DEF ExecNext, Process, ThunkReturns
<1>3. PICK p \in {"completing", "scheduling"} :
        Goes(t, [t EXCEPT !.at = p]) /\ phase' = [phase EXCEPT ![t.node] = p]
  BY DEF ThunkReturns, ReturnAvailable, ReturnAsync, Enter
<1>4. phase'[t.node] = PhaseAt(p) /\ \A n \in Node \ {t.node} : phase'[n] = phase[n]
  BY <1>1, <1>3 DEF PhaseAt, ExecInv, ExecTypeOK
<1>5. p \in Place \ {"loop"} /\ p \notin {"splitting", "joining"}
  BY DEF Place
<1> QED  BY <1>1, <1>2, <1>3, <1>4, <1>5, MovesOn

\* The target of an edge that is left waits for it.
LEMMA NextIsBlocked ==
  ASSUME ExecInv, NEW n \in Node, todo[n] # {}
  PROVE  NextEdge(n).to \in Node /\ phase[NextEdge(n).to] = "blocked"
<1>1. NextEdge(n) \in todo[n] /\ NodeInv(n)
  BY NextEdgeIsLeft DEF ExecInv, ExecTypeOK
<1>2. NextEdge(n) \in edges /\ NextEdge(n).from = n
  BY <1>1 DEF NodeInv, Out
<1>3. NextEdge(n).to \in Node
  BY <1>2, EdgesType DEF ExecInv, ExecTypeOK
<1>4. NextEdge(n) \in OpenIn(NextEdge(n).to)
  BY <1>1, <1>2 DEF OpenIn, Open, In
<1> QED  BY <1>3, <1>4 DEF ExecInv, CounterInv

LEMMA DropEdgeOfInv ==
  ASSUME ExecInv, TasksInv, NEW t \in tasks, DropEdgeOf(t),
         t.at \in {"scheduling", "completing"}
  PROVE  TasksInv'
<1>1. /\ TaskOK(t) /\ t \in Task /\ t.node \in Node /\ phase[t.node] = t.at
      /\ todo[t.node] # {} /\ DropEdge(t.node) /\ options' = options
  BY DEF TasksInv, TaskOK, DropEdgeOf, PhaseAt
<1>2. PICK m \in Node : m = NextEdge(t.node).to /\ phase[m] = "blocked"
  BY <1>1, NextIsBlocked
<1>3. CASE ~Ready(t.node)
  <2>1. tasks' = tasks /\ phase' = phase
    BY <1>3 DEF DropEdgeOf, DropEdge
  <2> QED  BY <1>1, <2>1, TasksStay
<1>4. CASE Ready(t.node)
  <2>1. phase' = [phase EXCEPT ![m] = "ready"]
    BY <1>1, <1>2, <1>4 DEF DropEdge
  <2>2. \A n \in Node : phase'[n] = IF n = m THEN "ready" ELSE phase[n]
    BY <2>1 DEF ExecInv, ExecTypeOK
  <2>3. PICK q, r, u : /\ q = t.queue /\ r = Append(q, m)
                       /\ u = [t EXCEPT !.queue = r]
    OBVIOUS
  <2>4. tasks' = (tasks \ {t}) \cup {u}
    BY <1>2, <1>4, <2>3 DEF DropEdgeOf, Goes
  <2>5. /\ q \in Seq(Node) /\ DOMAIN q = 1 .. Len(q) /\ Len(q) \in Nat
        /\ \A i, j \in DOMAIN q : q[i] = q[j] => i = j
        /\ \A i \in DOMAIN q : /\ q[i] \in Node /\ q[i] # t.node
                               /\ phase[q[i]] = "ready" /\ q[i] # m
    BY <1>1, <1>2, <2>3, QueueFacts DEF TaskOK, Task, Queued
  <2>6. /\ r \in Seq(Node) /\ DOMAIN r = 1 .. Len(q) + 1
        /\ \A i \in DOMAIN r : r[i] = IF i \in DOMAIN q THEN q[i] ELSE m
        /\ \A i \in DOMAIN r : i \notin DOMAIN q => i = Len(q) + 1
    BY <2>3, <2>5
  <2>7. \A i, j \in DOMAIN r : r[i] = r[j] => i = j
    BY <2>5, <2>6
  <2>8. u \in Task /\ u.node = t.node /\ u.at = t.at /\ u.queue = r
    BY <1>1, <2>3, <2>6 DEF Task
  <2>9. Queued(u) = {r[i] : i \in DOMAIN r} /\ Queued(t) = {q[i] : i \in DOMAIN q}
    BY <2>3, <2>8 DEF Queued
  <2>10. Queued(u) \subseteq Queued(t) \cup {m}
    BY <2>6, <2>9
  <2>11. m # t.node
    BY <1>1, <1>2
  <2>12. \A n \in Queued(u) : n # t.node /\ phase'[n] = "ready"
    BY <2>2, <2>5, <2>9, <2>10, <2>11
  <2>13. phase'[t.node] = phase[t.node]
    BY <1>1, <2>2, <2>11
  <2>14. TaskOK(u)'
    BY <1>1, <2>7, <2>8, <2>12, <2>13 DEF TaskOK, PhaseAt
  <2>15. Owned(u) = Queued(u) \cup {t.node} /\ Owned(t) = Queued(t) \cup {t.node}
    BY <1>1, <2>8, OwnedWithNode
  <2>16. \A n \in Owned(u) : n \in Owned(t) \/ phase[n] = "blocked"
    BY <1>2, <2>10, <2>15
  <2>17. Replaces({t}, {u})
    BY <1>1, <1>2, <2>2, <2>4, <2>14, <2>16 DEF Replaces
  <2> QED  BY <2>17, Replace
<1> QED  BY <1>3, <1>4

LEMMA ProcessScheduledStep ==
  ASSUME ExecInv, TasksInv, NEW t \in tasks, ProcessScheduledOutEdges(t)
  PROVE  ExecNext /\ TasksInv'
<1>1. /\ t.at = "scheduling" /\ t.node \in Node /\ phase[t.node] = "scheduling"
  BY DEF TasksInv, TaskOK, ProcessScheduledOutEdges, PhaseAt
<1>2. CASE /\ todo[t.node] # {} /\ ~inc[t.node] /\ IncPending(t.node)
           /\ UNCHANGED taskVars
  <2>1. ExecNext
    BY <1>1, <1>2 DEF ExecNext, Process, ScheduleEdge
  <2>2. tasks' = tasks /\ options' = options /\ phase' = phase
    BY <1>2 DEF taskVars, IncPending
  <2> QED  BY <2>1, <2>2, TasksStay
<1>3. CASE inc[t.node] /\ DropEdgeOf(t)
  <2>1. ExecNext
    BY <1>1, <1>3 DEF ExecNext, Process, ScheduleEdge, DropEdgeOf
  <2> QED  BY <1>1, <1>3, <2>1, DropEdgeOfInv
<1>4. CASE AttachContinuation(t)
  <2>1. ExecNext
    BY <1>1, <1>4 DEF ExecNext, Process, AttachContinuation
  <2>2. /\ options' = options /\ Loops(t)
        /\ phase' = [phase EXCEPT ![t.node] = "async"]
    BY <1>4 DEF AttachContinuation, Attach
  <2>3. \A n \in Node \ {t.node} : phase'[n] = phase[n]
    BY <2>2 DEF ExecInv, ExecTypeOK
  <2> QED  BY <1>1, <2>1, <2>2, <2>3, LoopsOn
<1> QED  BY <1>2, <1>3, <1>4 DEF ProcessScheduledOutEdges

LEMMA ProcessCompletedStep ==
  ASSUME ExecInv, TasksInv, NEW t \in tasks, ProcessCompletedOutEdges(t)
  PROVE  ExecNext /\ TasksInv'
<1>1. /\ t.at = "completing" /\ t.node \in Node /\ phase[t.node] = "completing"
  BY DEF TasksInv, TaskOK, ProcessCompletedOutEdges, PhaseAt
<1>2. CASE DropEdgeOf(t)
  <2>1. ExecNext
    BY <1>1, <1>2 DEF ExecNext, Process, DropEdgeOf
  <2> QED  BY <1>1, <1>2, <2>1, DropEdgeOfInv
<1>3. CASE todo[t.node] = {} /\ Settle(t.node) /\ Loops(t) /\ options' = options
  <2>1. ExecNext
    BY <1>1, <1>3 DEF ExecNext, Process
  <2>2. phase' = [phase EXCEPT ![t.node] = "completed"]
    BY <1>3 DEF Settle
  <2>3. \A n \in Node \ {t.node} : phase'[n] = phase[n]
    BY <2>2 DEF ExecInv, ExecTypeOK
  <2> QED  BY <1>1, <1>3, <2>1, <2>3, LoopsOn
<1> QED  BY <1>2, <1>3 DEF ProcessCompletedOutEdges

LEMMA ResumeThunkStep ==
  ASSUME ExecInv, TasksInv, NEW n \in Node, ResumeThunk(n)
  PROVE  ExecNext /\ TasksInv'
<1>1. phase[n] = "async" /\ Finished(n) /\ Continue(n) /\ options' = options
  BY DEF ResumeThunk
<1>2. ExecNext
  BY <1>1 DEF ExecNext, Process
<1>3. PICK u : u = [NewTask(<<>>, n \in joined) EXCEPT !.node = n, !.at = "completing"]
  OBVIOUS
<1>4. u = [node |-> n, at |-> "completing", queue |-> <<>>, lock |-> n \in joined]
  BY <1>3 DEF NewTask
<1>5. u \in Task /\ u.node = n /\ u.at = "completing" /\ u.queue = <<>>
  BY <1>4 DEF Task, Place
<1>6. Queued(u) = {} /\ Owned(u) = {n}
  <2>1. Queued(u) = {}
    BY <1>5 DEF Queued
  <2> QED  BY <1>5, <2>1, OwnedWithNode
<1>7. \A m \in Node : phase'[m] = IF m = n THEN "completing" ELSE phase[m]
  BY <1>1 DEF Continue, Enter, ExecInv, ExecTypeOK
<1>8. TaskOK(u)'
  BY <1>5, <1>6, <1>7 DEF TaskOK, PhaseAt
<1>9. Replaces({}, {u})
  BY <1>1, <1>3, <1>6, <1>7, <1>8 DEF Replaces, ResumeThunk
<1> QED  BY <1>2, <1>9, Replace

LEMMA CompleteThunkStep ==
  ASSUME ExecInv, TasksInv, NEW n \in Node, CompleteThunk(n)
  PROVE  ExecNext /\ TasksInv'
<1>1. ExecNext
  BY DEF CompleteThunk, ExecNext, Process
<1>2. tasks' = tasks /\ options' = options /\ phase' = phase
  BY DEF CompleteThunk, taskVars, ThunkDone
<1> QED  BY <1>1, <1>2, TasksStay

LEMMA TasksInit == Init => TasksInv
<1> SUFFICES ASSUME Init PROVE TasksInv
  OBVIOUS
<1>1. ExecInit /\ options.queue \in {"fifo", "lifo", "priority"}
  BY QueueTypesAssumption DEF Init
<1>2. PICK q \in Increasing(Source) : tasks = {NewTask(q, FALSE)}
  BY DEF Init
<1>3. 0 \in Source
  <2>1. 0 \in Node
    BY NumThunksAssumption DEF Node
  <2>2. ASSUME NEW e \in edges  PROVE e.to # 0
    BY <1>1, EdgesType, NumThunksAssumption DEF ExecInit, Node
  <2> QED  BY <2>1, <2>2 DEF Source, In
<1>4. IsFiniteSet(Source) /\ Cardinality(Source) \in Nat /\ Cardinality(Source) # 0
  <2>1. Source \in SUBSET Node
    BY DEF Source
  <2>2. IsFiniteSet(Source)
    BY <2>1, NodeIsFinite, FS_Subset
  <2> QED  BY <1>3, <2>2, FS_CardinalityType, FS_EmptySet
<1>5. PICK S, k : /\ S = Source /\ k = Cardinality(Source)
                  /\ S \subseteq Node /\ k \in Nat /\ k > 0
                  /\ q \in [1 .. k -> S]
                  /\ \A a, b \in 1 .. k : a < b => q[a] < q[b]
  <2>1. PICK S, k : S = Source /\ k = Cardinality(Source)
    OBVIOUS
  <2>2. S \subseteq Node
    BY <2>1 DEF Source
  <2>3. k \in Nat /\ k > 0
    BY <1>4, <2>1
  <2>4. q \in [1 .. k -> S] /\ \A a, b \in DOMAIN q : a < b => q[a] < q[b]
    BY <2>1 DEF Increasing
  <2>5. DOMAIN q = 1 .. k
    BY <2>4
  <2> QED  BY <2>1, <2>2, <2>3, <2>4, <2>5
<1>6. q \in Seq(Node) /\ q # <<>> /\ DOMAIN q = 1 .. k /\ \A a \in 1 .. k : q[a] \in S
  <2>1. q \in [1 .. k -> Node] /\ DOMAIN q = 1 .. k
    BY <1>5
  <2>2. q \in Seq(Node) /\ Len(q) = k
    BY <1>5, <2>1
  <2> QED  BY <1>5, <2>1, <2>2
<1>7. \A a, b \in DOMAIN q : q[a] = q[b] => a = b
  <2>1. \A a \in 1 .. k : q[a] \in Int
    BY <1>5, <1>6, NumThunksAssumption DEF Node
  <2> QED  BY <1>5, <1>6, <2>1
<1>8. PICK u : u = NewTask(q, FALSE)
  OBVIOUS
<1>9. u.node = NoNode /\ u.at = "loop" /\ u.queue = q /\ u \in Task
  BY <1>6, <1>8 DEF NewTask, Task, Place
<1>10. NoNode \notin Queued(u) /\ \A n \in Queued(u) : phase[n] = "ready"
  <2>1. Queued(u) \subseteq S
    BY <1>6, <1>9 DEF Queued
  <2>2. \A n \in S : n \in Node /\ phase[n] = "ready"
    BY <1>1, <1>5 DEF ExecInit
  <2>3. NoNode \notin Node
    BY NumThunksAssumption DEF NoNode, Node
  <2> QED  BY <2>1, <2>2, <2>3
<1>11. TaskOK(u)
  BY <1>6, <1>7, <1>9, <1>10 DEF TaskOK
<1> QED  BY <1>1, <1>2, <1>8, <1>11 DEF TasksInv

LEMMA TasksNext ==
  ExecInv /\ TasksInv /\ [Next]_vars => [ExecNext]_execVars /\ TasksInv'
<1> SUFFICES ASSUME ExecInv, TasksInv, [Next]_vars
             PROVE  [ExecNext]_execVars /\ TasksInv'
  OBVIOUS
<1>1. ASSUME NEW t \in tasks, Execute(t)
      PROVE  [ExecNext]_execVars /\ TasksInv'
  <2>1. CASE Pop(t)
    BY <2>1, PopInv DEF Pop
  <2>2. CASE TryJoin(t)
    BY <2>2, TryJoinInv DEF TryJoin
  <2>3. CASE SplitReadyQueue(t)
    BY <2>3, SplitReadyQueueInv DEF SplitReadyQueue
  <2>4. CASE OffloadBlocking(t)
    BY <2>4, OffloadBlockingInv DEF OffloadBlocking
  <2>5. CASE StartThunk(t)
    BY <2>5, StartThunkStep
  <2>6. CASE ThunkReturns(t)
    BY <2>6, ThunkReturnsStep
  <2>7. CASE ProcessScheduledOutEdges(t)
    BY <2>7, ProcessScheduledStep
  <2>8. CASE ProcessCompletedOutEdges(t)
    BY <2>8, ProcessCompletedStep
  <2> QED  BY <1>1, <2>1, <2>2, <2>3, <2>4, <2>5, <2>6, <2>7, <2>8 DEF Execute
<1>2. ASSUME NEW n \in Node, CompleteThunk(n) \/ ResumeThunk(n)
      PROVE  [ExecNext]_execVars /\ TasksInv'
  BY <1>2, CompleteThunkStep, ResumeThunkStep
<1>3. CASE UNCHANGED vars
  <2>1. UNCHANGED execVars /\ tasks' = tasks /\ options' = options
    BY <1>3 DEF vars, taskVars
  <2>2. phase' = phase
    BY <2>1 DEF execVars
  <2> QED  BY <2>1, <2>2, TasksStay
<1> QED  BY <1>1, <1>2, <1>3 DEF Next

\* Every execution by tasks is an execution of the node counters: whatever the
\* queue type, the splits and the offloaded thunks, no node is given to two
\* tasks or executed before its counter is zero.
THEOREM TasksFollowState == Spec => QueuesFollowState
<1>1. Init => ExecInit /\ ExecInv /\ TasksInv
  BY InitInv, TasksInit DEF Init
<1>2. ExecInv /\ TasksInv /\ [Next]_vars
        => ExecInv' /\ TasksInv' /\ [ExecNext]_execVars
  BY TasksNext, ExecNextInv
<1> QED  BY <1>1, <1>2, PTL DEF Spec, QueuesFollowState, ExecSpec

\* The executor keeps the promise of ThunkSchedule.
THEOREM ExecutorKeepsSchedule == Spec => KeepsSchedule
BY TasksFollowState, CountersKeepSchedule DEF QueuesFollowState

\* In the executor, thunks that are ordered by the graph never overlap.
THEOREM ExecutorKeepsOrder == Spec => []OrderedThunksNeverOverlap
BY TasksFollowState, OrderIsKept DEF QueuesFollowState

\* In the executor, every node is processed when the event fires.
THEOREM ExecutorLeavesNothing == Spec => []NothingLeftAfterEvent
BY TasksFollowState, NothingIsLeftAfterEvent DEF QueuesFollowState
-----------------------------------------------------------------------------
(* After the event.                                                        *)

\* Only continuations that are still to run hold a session lock.
JoinedInv == \A n \in joined : n \in Node /\ phase[n] = "async"

LEMMA JoinedNext ==
  ExecInv /\ TasksInv /\ JoinedInv /\ [Next]_vars => JoinedInv'
<1> SUFFICES ASSUME ExecInv, TasksInv, JoinedInv, [Next]_vars PROVE JoinedInv'
  OBVIOUS
<1>1. phase \in [Node -> Phase]
  BY DEF ExecInv, ExecTypeOK
<1>2. ASSUME NEW t \in tasks, Execute(t)  PROVE JoinedInv'
  <2>1. t.at # "loop" => t.node \in Node /\ phase[t.node] = PhaseAt(t.at)
    BY DEF TasksInv, TaskOK
  <2>2. CASE Pop(t) \/ TryJoin(t) \/ SplitReadyQueue(t) \/ OffloadBlocking(t)
    BY <2>2 DEF Pop, TryJoin, SplitReadyQueue, OffloadBlocking, execVars, JoinedInv
  <2>3. CASE StartThunk(t)
    BY <1>1, <2>1, <2>3 DEF StartThunk, Start, Enter, JoinedInv, PhaseAt
  <2>4. CASE ThunkReturns(t)
    BY <1>1, <2>1, <2>4
    DEF ThunkReturns, ReturnAvailable, ReturnAsync, Enter, JoinedInv, PhaseAt
  <2>5. CASE DropEdgeOf(t) /\ t.at \in {"scheduling", "completing"}
    <3>1. joined' = joined /\ phase' \in {phase, [phase EXCEPT ![NextEdge(t.node).to] = "ready"]}
      BY <2>5 DEF DropEdgeOf, DropEdge
    <3>2. PICK m : m = NextEdge(t.node).to /\ phase[m] = "blocked"
      BY <2>1, <2>5, NextIsBlocked DEF PhaseAt, DropEdgeOf
    <3> QED  BY <1>1, <3>1, <3>2 DEF JoinedInv
  <2>6. CASE AttachContinuation(t) /\ t.at = "scheduling"
    BY <1>1, <2>1, <2>6 DEF AttachContinuation, Attach, JoinedInv
  <2>7. CASE Settle(t.node) /\ t.at = "completing" /\ joined' = joined
    BY <1>1, <2>1, <2>7 DEF Settle, JoinedInv, PhaseAt
  <2>8. CASE IncPending(t.node) /\ UNCHANGED taskVars
    BY <2>8 DEF IncPending, taskVars, JoinedInv
  <2> QED  BY <1>2, <2>2, <2>3, <2>4, <2>5, <2>6, <2>7, <2>8
           DEF Execute, ProcessScheduledOutEdges, ProcessCompletedOutEdges
<1>3. ASSUME NEW n \in Node, CompleteThunk(n)  PROVE JoinedInv'
  BY <1>3 DEF CompleteThunk, ThunkDone, taskVars, JoinedInv
<1>4. ASSUME NEW n \in Node, ResumeThunk(n)  PROVE JoinedInv'
  BY <1>1, <1>4 DEF ResumeThunk, Continue, Enter, JoinedInv
<1>5. CASE UNCHANGED vars
  BY <1>5 DEF vars, taskVars, execVars, JoinedInv
<1> QED  BY <1>2, <1>3, <1>4, <1>5 DEF Next

\* When the event fires no task can touch the session, the parameters or the
\* executor any more: all nodes are quiet, so no node is queued or attached.
THEOREM ExecutorIsReleased == Spec => []NothingUsedAfterEvent
<1>1. Init => ExecInv /\ TasksInv /\ JoinedInv
  BY InitInv, TasksInit DEF Init, JoinedInv
<1>2. ExecInv /\ TasksInv /\ JoinedInv /\ [Next]_vars
        => ExecInv' /\ TasksInv' /\ JoinedInv'
  BY TasksNext, ExecNextInv, JoinedNext
<1>3. ExecInv /\ TasksInv /\ JoinedInv => NothingUsedAfterEvent
  <2> SUFFICES ASSUME ExecInv, TasksInv, JoinedInv, execute_event # "pending"
               PROVE  /\ joined = {}
                      /\ \A t \in tasks : /\ t.queue = <<>> /\ t.at = "completing"
                                          /\ todo[t.node] = {}
    BY DEF NothingUsedAfterEvent
  <2>1. \A n \in Node : Quiet(n)
    BY AllIsQuiet DEF ExecInv, PendingInv
  <2>2. joined = {}
    BY <2>1 DEF JoinedInv, Quiet
  <2>3. ASSUME NEW t \in tasks
        PROVE  t.queue = <<>> /\ t.at = "completing" /\ todo[t.node] = {}
    <3>1. TaskOK(t) /\ t.queue \in Seq(Node) /\ t.at \in Place
      BY DEF TasksInv, TaskOK, Task
    <3>2. t.queue = <<>>
      <4>1. SUFFICES ASSUME t.queue # <<>> PROVE FALSE
        OBVIOUS
      <4>2. 1 \in DOMAIN t.queue /\ t.queue[1] \in Node
        BY <3>1, <4>1, QueueFacts
      <4>3. phase[t.queue[1]] = "ready"
        BY <3>1, <4>2 DEF TaskOK, Queued
      <4> QED  BY <2>1, <4>2, <4>3 DEF Quiet
    <3>3. t.at # "loop" /\ t.node \in Node /\ phase[t.node] = PhaseAt(t.at)
      BY <3>1, <3>2 DEF TaskOK
    <3> QED  BY <2>1, <3>1, <3>2, <3>3 DEF Quiet, PhaseAt, Place
  <2> QED  BY <2>2, <2>3
<1> QED  BY <1>1, <1>2, <1>3, PTL DEF Spec
-----------------------------------------------------------------------------
(* The types.                                                              *)

\* A node has at most one in edge from every other node, so that a counter
\* never exceeds the number of thunks.
LEMMA FewInEdges ==
  ASSUME edges \in Graphs, NEW n \in Node
  PROVE  Cardinality(OpenIn(n)) \in 0 .. NumThunks
<1> DEFINE f == [e \in OpenIn(n) |-> e.from]
<1>1. f \in Injection(OpenIn(n), Node)
  <2>1. \A e \in OpenIn(n) : e \in edges /\ e.to = n /\ e.from \in Node
    BY EdgesType DEF OpenIn, In
  <2>2. f \in [OpenIn(n) -> Node]
    BY <2>1
  <2>3. ASSUME NEW a \in OpenIn(n), NEW b \in OpenIn(n), f[a] = f[b]  PROVE a = b
    BY <2>1, <2>3, OneEdgeAssumption
  <2> HIDE DEF f
  <2> QED  BY <2>2, <2>3 DEF Injection, IsInjective
<1>2. Cardinality(OpenIn(n)) <= Cardinality(Node)
  <2> HIDE DEF f
  <2> QED  BY <1>1, NodeIsFinite, FS_Injection
<1>3. Cardinality(Node) = NumThunks
  BY FS_Interval, NumThunksAssumption DEF Node
<1>4. Cardinality(OpenIn(n)) \in Nat
  BY OpenInIsFinite, FS_CardinalityType
<1> QED  BY <1>2, <1>3, <1>4, NumThunksAssumption

LEMMA FewHolders == Cardinality(Holders) \in 0 .. NumThunks
<1>1. Holders \in SUBSET Node
  BY DEF Holders
<1>2. Cardinality(Holders) <= Cardinality(Node) /\ Cardinality(Holders) \in Nat
  BY <1>1, NodeIsFinite, HoldersIsFinite, FS_Subset, FS_CardinalityType
<1>3. Cardinality(Node) = NumThunks
  BY FS_Interval, NumThunksAssumption DEF Node
<1> QED  BY <1>2, <1>3, NumThunksAssumption

LEMMA OptionsStay == [Next]_vars => options' = options
<1> SUFFICES ASSUME [Next]_vars PROVE options' = options
  OBVIOUS
<1>1. ASSUME NEW t \in tasks, Execute(t)  PROVE options' = options
  BY <1>1, Zenon DEF Execute, Pop, TryJoin, SplitReadyQueue, OffloadBlocking,
      StartThunk, ThunkReturns, ProcessScheduledOutEdges, ProcessCompletedOutEdges,
      AttachContinuation, DropEdgeOf, taskVars
<1>2. ASSUME NEW n \in Node, CompleteThunk(n) \/ ResumeThunk(n)
      PROVE  options' = options
  BY <1>2 DEF CompleteThunk, ResumeThunk, taskVars
<1> QED  BY <1>1, <1>2 DEF Next, vars, taskVars

OptionsOK == options \in [queue : QueueTypes, runner : Runners]

\* Every reachable state of the executor is well typed; in particular the
\* counters of the nodes and of the pending nodes stay within the number of
\* thunks, they never wrap below zero, and no task has an empty queue at the
\* head of its loop.
THEOREM ExecutorTypeCorrect == Spec => []TypeOK
<1>1. Init => ExecInv /\ TasksInv /\ OptionsOK
  BY InitInv, TasksInit DEF Init, OptionsOK
<1>2. ExecInv /\ TasksInv /\ OptionsOK /\ [Next]_vars
        => ExecInv' /\ TasksInv' /\ OptionsOK'
  BY TasksNext, ExecNextInv, OptionsStay DEF OptionsOK
<1>3. ExecInv /\ TasksInv /\ OptionsOK => TypeOK
  <2> SUFFICES ASSUME ExecInv, TasksInv, OptionsOK PROVE TypeOK
    OBVIOUS
  <2>1. edges \in Graphs /\ execute_event \in {"pending", "ok", "error"}
    BY DEF ExecInv, ExecTypeOK
  <2>2. counter \in [Node -> 0 .. NumThunks]
    <3>1. counter \in [Node -> Nat] /\ \A n \in Node : counter[n] = Cardinality(OpenIn(n))
      BY DEF ExecInv, ExecTypeOK, CounterInv
    <3>2. \A n \in Node : counter[n] \in 0 .. NumThunks
      BY <2>1, <3>1, FewInEdges
    <3> QED  BY <3>1, <3>2
  <2>3. pending_nodes \in 0 .. NumThunks
    BY FewHolders DEF ExecInv, PendingInv
  <2>4. ASSUME NEW t \in tasks
        PROVE  /\ IF t.at = "loop" THEN t.node = NoNode /\ t.queue # <<>>
                                   ELSE t.node \in Node
               /\ Range(t.queue) \subseteq Node
               /\ t.lock \in BOOLEAN
    <3>1. TaskOK(t) /\ t.queue \in Seq(Node) /\ t.lock \in BOOLEAN
      BY DEF TasksInv, TaskOK, Task
    <3>2. Range(t.queue) \subseteq Node
      BY <3>1, QueueFacts DEF Range
    <3> QED  BY <3>1, <3>2 DEF TaskOK
  <2> QED  BY <2>1, <2>2, <2>3, <2>4 DEF TypeOK, OptionsOK
<1> QED  BY <1>1, <1>2, <1>3, PTL DEF Spec
=============================================================================
