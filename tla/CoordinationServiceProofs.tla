--------------------- MODULE CoordinationServiceProofs ---------------------
(***************************************************************************)
(* Proofs about CoordinationService, for every set of tasks and barriers   *)
(* and every bound.                                                        *)
(*                                                                         *)
(* Every handler ends in Settle(d), where d is the record of what it does  *)
(* itself.  The proofs are organized in the same way: Proper(d) is what    *)
(* Settle needs to know of d, SettleKeeps shows once and for all that      *)
(* Settle(d) then keeps the inductive invariant, and what is left for each *)
(* handler is to show that its record is proper.                           *)
(***************************************************************************)
EXTENDS CoordinationService, FiniteSetTheorems, TLAPS

ReplySet == [to : Task, of : BarrierId \cup {"poll"},
             st : {"none", "ok", "cancelled", "failed", "exists"}]

EffectType(d) ==
    /\ d.errs \subseteq Task /\ d.conn \subseteq Task
    /\ d.disc \subseteq Task /\ d.leave \subseteq Task
    /\ d.kind \in {"other", "unavailable"} /\ d.propagate \in BOOLEAN
    /\ d.pass \subseteq BarrierId /\ d.start \subseteq BarrierId
    /\ d.res \in {"none", "ok", "cancelled", "failed"}
    /\ d.wait \in [BarrierId -> SUBSET Task]
    /\ d.at \in [BarrierId -> SUBSET Task]
    /\ d.inc \in [BarrierId -> [Task -> Incarnation]]
    /\ d.answers \subseteq ReplySet

\* A handler starts only barriers that are not ongoing, leaves the members of
\* an ongoing one alone, stores a callback for exactly the tasks it counts,
\* and passes a barrier that everybody has reached.
Proper(d) ==
    /\ EffectType(d)
    /\ stopped' \in BOOLEAN /\ polling' \in BOOLEAN
    /\ incarnation' \in [Task -> Incarnation]
    /\ members' \in [BarrierId -> SUBSET Task]
    /\ counter' \in [BarrierId -> Nat]
    /\ \A b \in BarrierId \ d.start : counter'[b] = counter[b]
    /\ counter'[Register] = 0 /\ counter'[Shutdown] = 0
    /\ d.start \cap ongoing = {}
    /\ \A b \in ongoing : members'[b] = members[b]
    /\ \A b \in BarrierId \ d.pass :
         /\ b \notin ongoing \cup d.start => d.wait[b] = {} /\ d.at[b] = {}
         /\ b \in ongoing \cup d.start => /\ d.wait[b] = d.at[b]
                                          /\ d.at[b] \subseteq members'[b]
                                          /\ members'[b] \ d.at[b] # {}
         /\ b \in ongoing => reached[b] \subseteq d.at[b]

\* What Bookkeeping needs to be inductive: a barrier that is not ongoing holds
\* no arrivals, one that has never been used has counter 0 (so that a call
\* that is not for a new instance and not for a passed one is for an ongoing
\* one), and the service's own two barriers only ever have counter 0.
Idle ==
    /\ \A b \in BarrierId \ ongoing :
         /\ pending[b] = 0 /\ reached[b] = {}
         /\ ~passed[b] => counter[b] = 0
    /\ counter[Register] = 0 /\ counter[Shutdown] = 0

\* The register barrier: it has all tasks as members once it is in use, is used
\* only if the configuration asks for it, and has passed when a task polls for
\* errors (which the agent does after its registration has been confirmed).
Registering ==
    /\ \A b \in BarrierId : result[b] = "ok" => passed[b]
    /\ Register \in ongoing \/ passed[Register] => members[Register] = Task
    /\ members[Register] \in {{}, Task}
    /\ ~RegisterWithBarrier => Register \notin ongoing
    /\ polls # {} => polling /\ (RegisterWithBarrier => result[Register] = "ok")

\* Only a task in error has an error, so that a connected task may not register.
StatusMeansError == \A t \in Task : status[t] # "ok" => state[t] = "ERROR"

IInv == /\ TypeOK /\ Bookkeeping /\ Idle /\ Registering /\ StatusMeansError
        /\ NoBarrierWaitsForFailedTask /\ WaitingRegistrationIsCurrent

\* An answer that is the outcome of a call, not its replacement by a newer one.
Definite(r) == r.st \notin {"cancelled", "exists"}

\* What the handlers take care of beyond Proper(d): a task's error comes with
\* PropagateError, no barrier is started for a task in error, calls stay stored
\* until Settle answers them or the handler replaces and answers them, the
\* incarnation of a connected task is replaced only if the task leaves its
\* barriers, a barrier passes with OK when all members wait in it, a
\* call that is answered at once is not stored, an instance follows the one that
\* has passed, and whatever changes a task is counted as an update.
Careful(d) ==
    /\ ~stopped /\ stopped' = stopped /\ polling' = polling
    /\ \A b \in ongoing : calls[b] \subseteq d.wait[b]
    /\ \A b \in BarrierId : \A t \in calls[b] :
         d.inc[b][t] = callInc[b][t] \/ \E r \in d.answers : r.to = t /\ r.of = b
    /\ d.errs # {} => d.propagate
    /\ d.start # {} => d.leave = {}
    /\ d.start \ d.pass # {} => /\ d.errs = {} /\ d.disc = {} /\ d.pass = {} /\ ~d.propagate
    /\ d.conn # {} => /\ d.errs = {} /\ d.disc = {} /\ ~d.propagate
                      /\ d.pass = {} \/ d.res = "ok"
    /\ ~Recoverable => \A b \in d.start \ d.pass : \A m \in members'[b] : state[m] # "ERROR"
    /\ Register \in d.start \cup d.pass =>
         RegisterWithBarrier /\ ~passed[Register] /\ members'[Register] = Task
    /\ Register \notin d.start => members'[Register] = members[Register]
    /\ \A t \in d.wait[Register] : \/ d.inc[Register][t] = incarnation'[t]
                                   \/ Recoverable /\ t \in d.leave /\ Register \notin d.pass
    /\ \A t \in Task : \/ incarnation'[t] = incarnation[t]
                       \/ Recoverable /\ t \in d.leave
                       \/ state[t] # "CONNECTED"
    /\ d.res = "ok" => \A b \in d.pass : d.wait[b] = members'[b] /\ d.errs = {} /\ d.late = {}
    /\ \A r \in d.answers : r.st = "ok" => /\ passed[r.of] /\ result[r.of] = "ok"
                                           /\ counter'[r.of] = counter[r.of]
    /\ \A r \in d.answers : Definite(r) =>
         /\ r.of \notin ongoing /\ (r.of \in d.pass => d.wait[r.of] = {})
         /\ \A q \in d.answers : Definite(q) => q = r
    /\ \A b \in d.start : counter'[b] = IF passed[b] THEN counter[b] + 1 ELSE counter[b]
    /\ d.updates \in Nat
    /\ d.updates = 0 => d.conn = {} /\ d.disc = {} /\ incarnation' = incarnation

Handled(d) == Proper(d) /\ Careful(d)

-----------------------------------------------------------------------------
(* Counting *)

\* A set of tasks is finite, and counts as many as it has.
LEMMA TaskSets ==
    ASSUME NEW S, S \subseteq Task
    PROVE  /\ IsFiniteSet(S) /\ Cardinality(S) \in Nat
           /\ S # {} => Cardinality(S) > 0
           /\ Cardinality(S) = Cardinality(Task) => S = Task
  <1>1. S \in SUBSET Task /\ IsFiniteSet(Task)
    BY TaskAssumption
  <1>2. IsFiniteSet(S) /\ (Cardinality(Task) = Cardinality(S) => Task = S)
    BY <1>1, FS_Subset
  <1>3. Cardinality(S) \in Nat
    BY <1>2, FS_CardinalityType
  <1>4. Cardinality(S) = 0 <=> S = {}
    BY <1>2, FS_EmptySet
  <1> QED BY <1>2, <1>3, <1>4

\* The size of a union of disjoint sets of tasks.
LEMMA DisjointUnion ==
    ASSUME NEW S, NEW T, S \subseteq Task, T \subseteq Task, S \cap T = {}
    PROVE  Cardinality(S \cup T) = Cardinality(S) + Cardinality(T)
  <1>1. IsFiniteSet(S) /\ IsFiniteSet(T) /\ Cardinality(S) \in Nat /\ Cardinality(T) \in Nat
    BY TaskSets
  <1>2. Cardinality(S \cup T) = Cardinality(S) + Cardinality(T) - Cardinality(S \cap T)
    BY <1>1, FS_Union
  <1>3. Cardinality(S \cap T) = 0
    BY FS_EmptySet
  <1> QED BY ONLY <1>1, <1>2, <1>3

\* A handler's updates of the cluster state.
LEMMA UpdatesCounted ==
    ASSUME NEW n \in Nat, NEW S, NEW T, S \subseteq Task, T \subseteq Task, NEW u,
           u = n + Cardinality(S) + Cardinality(T)
    PROVE  u \in Nat /\ (u = 0 => n = 0 /\ S = {} /\ T = {})
  <1>1. Cardinality(S) \in Nat /\ (S # {} => Cardinality(S) > 0)
    BY TaskSets
  <1>2. Cardinality(T) \in Nat /\ (T # {} => Cardinality(T) > 0)
    BY TaskSets
  <1> QED BY <1>1, <1>2

\* One more task of M at the barrier.
LEMMA OneMore ==
    ASSUME NEW M, M \subseteq Task, NEW A, A \subseteq M, NEW t, t \in M, t \notin A,
           Cardinality(M \ A) # 1
    PROVE  M \ (A \cup {t}) # {}
  <1> SUFFICES ASSUME M \ (A \cup {t}) = {} PROVE FALSE
    OBVIOUS
  <1>1. M \ A = {t}
    OBVIOUS
  <1> QED BY <1>1, FS_Singleton

-----------------------------------------------------------------------------
(* Settle *)

\* The parameters that Settle computes.
LEMMA SettleParameters ==
    ASSUME NEW d, TypeOK, EffectType(d)
    PROVE  /\ Errors(d) \subseteq Task
           /\ Passed(d, Errors(d)) \subseteq BarrierId
           /\ d.pass \subseteq Passed(d, Errors(d))
           /\ [b \in BarrierId |-> Left(b, d, Errors(d))] \in [BarrierId -> SUBSET Task]
  BY DEF TypeOK, EffectType, Errors, NotInError, Passed, BarriersOf, Left

LEMMA AnswerType ==
    ASSUME NEW b \in BarrierId, NEW t \in Task, NEW i, NEW j,
           NEW st \in {"none", "ok", "cancelled", "failed"}
    PROVE  Answer(b, t, st, i, j) \in ReplySet
  BY DEF Answer, Reply, ReplySet

\* The incarnations play a part in what is answered, not in who is answered.
LEMMA AnswerFields ==
    ASSUME NEW b, NEW t, NEW st, NEW i, NEW j
    PROVE  /\ Answer(b, t, st, i, j).to = t /\ Answer(b, t, st, i, j).of = b
           /\ Answer(b, t, st, i, j).st = "ok" => st = "ok"
           /\ i = j \/ b # Register => (st = "ok" => Answer(b, t, st, i, j) = Reply(t, b, "ok"))
  BY DEF Answer, Reply

LEMMA AnswersType ==
    ASSUME NEW d, TypeOK, EffectType(d), NEW fin, fin \subseteq BarrierId,
           NEW left, left \in [BarrierId -> SUBSET Task]
    PROVE  RepliesSent(d, fin, left) \subseteq ReplySet
  <1> DEFINE called == UNION {Called(d, b, d.wait[b] \ left[b], Outcome(b, d)) : b \in fin}
  <1>1. called \subseteq ReplySet
    BY AnswerType DEF Called, Outcome, EffectType
  <1>2. CancelledCalls(d, left) \subseteq ReplySet
    BY AnswerType DEF CancelledCalls, Called, EffectType
  <1>3. PollAnswers(d, fin) \subseteq ReplySet
    BY DEF PollAnswers, Reply, ReplySet, TypeOK
  <1>4. RepliesSent(d, fin, left) = d.answers \cup called \cup CancelledCalls(d, left) \cup PollAnswers(d, fin)
    BY DEF RepliesSent
  <1> HIDE DEF called
  <1> QED BY <1>1, <1>2, <1>3, <1>4 DEF EffectType

LEMMA RefreshType ==
    ASSUME NEW d, TypeOK, NEW err, NEW inc, inc \in [Task -> Incarnation],
           RefreshAliveness(d, err, inc)
    PROVE  /\ aliveCalls' \in [AliveArgs -> SUBSET (Task \X Incarnation)]
           /\ aliveReplies' \subseteq [set : AliveArgs, alive : SUBSET (Task \X Incarnation)]
  <1>1. aliveCalls' \in [AliveArgs -> SUBSET (Task \X Incarnation)]
    BY DEF RefreshAliveness, TypeOK
  <1>2. ASSUME NEW S \in AliveArgs PROVE AliveTasks(S, state') \subseteq Task /\ InBarrier(S) \subseteq Task
    BY InputAssumption DEF AliveTasks, InBarrier, TypeOK
  <1>3. ASSUME NEW r \in aliveReplies'
        PROVE  r \in [set : AliveArgs, alive : SUBSET (Task \X Incarnation)]
    <2> DEFINE over == {S \in AliveArgs : /\ RefreshNeeded(d, err)
                                          /\ aliveCalls[S] # {}
                                          /\ AllAliveAreIn(S, state', InBarrier(S))}
               gone == {t \in err \cup d.disc : over # {} /\ state[t] = "CONNECTED"}
               named(S, L) == {<<t, inc[t]>> : t \in AliveTasks(S, state') \cup (L \cap InBarrier(S))}
    <2>1. PICK late \in [over -> SUBSET gone] :
            aliveReplies' = {[set |-> S, alive |-> named(S, late[S])] : S \in over}
      BY DEF RefreshAliveness
    <2> HIDE DEF over, gone, named
    <2>2. PICK S \in over : r = [set |-> S, alive |-> named(S, late[S])]
      BY <1>3, <2>1
    <2>3. S \in AliveArgs
      BY DEF over
    <2>4. named(S, late[S]) \subseteq Task \X Incarnation
      BY <1>2, <2>3 DEF named
    <2> QED BY <2>2, <2>3, <2>4
  <1> QED BY <1>1, <1>3

LEMMA SettleType ==
    ASSUME NEW d, TypeOK, Proper(d), Settle(d)
    PROVE  TypeOK'
  <1> DEFINE err == Errors(d)
             fin == Passed(d, err)
             left == [b \in BarrierId |-> Left(b, d, err)]
  <1>1. /\ err \subseteq Task /\ fin \subseteq BarrierId
        /\ left \in [BarrierId -> SUBSET Task]
    BY SettleParameters DEF Proper
  <1>2. Consequences(d, err, fin, left)
    BY DEF Settle
  <1> HIDE DEF err, fin, left
  <1>3. /\ state' \in [Task -> TaskStates]
        /\ status' \in [Task -> {"ok", "unavailable", "other"}]
        /\ stale' \subseteq Task /\ grace' \subseteq Task
    BY <1>1, <1>2 DEF Consequences, SettleTasks, TypeOK, Proper, EffectType, TaskStates
  <1>4. /\ ongoing' \subseteq BarrierId /\ overdue' \subseteq ongoing'
        /\ passed' \in [BarrierId -> BOOLEAN]
        /\ joined' \in [Task -> SUBSET BarrierId]
        /\ calls' \in [BarrierId -> SUBSET Task]
        /\ reached' \in [BarrierId -> SUBSET Task]
    BY <1>1, <1>2
       DEF Consequences, SettleBarriers, Ongoing, Overdue, TypeOK, Proper, EffectType
  <1>5. result' \in [BarrierId -> {"none", "ok", "cancelled", "failed"}]
    BY <1>1, <1>2 DEF Consequences, SettleBarriers, Outcome, TypeOK, Proper, EffectType
  <1>6. pending' \in [BarrierId -> Int]
    <2> SUFFICES ASSUME NEW b \in BarrierId PROVE pending'[b] \in Int
      BY <1>2 DEF Consequences, SettleBarriers
    <2>1. /\ Cardinality(members'[b]) \in Nat
          /\ Cardinality(d.at[b] \ (IF b \in d.start THEN {} ELSE reached[b])) \in Nat
          /\ Cardinality(d.at[b] \cap left[b]) \in Nat
      BY TaskSets, <1>1 DEF Proper, EffectType
    <2> QED BY <1>2, <2>1 DEF Consequences, SettleBarriers, Returned, TypeOK
  <1>7. callInc' \in [BarrierId -> [Task -> Incarnation]]
    BY <1>2, InputAssumption
       DEF Consequences, SettleBarriers, TypeOK, Proper, EffectType, Incarnation
  <1>8. responded' \in BOOLEAN /\ polls' \subseteq Task
    BY <1>2 DEF Consequences, SettlePolls, TypeOK, Responds
  <1>9. /\ aliveCalls' \in [AliveArgs -> SUBSET (Task \X Incarnation)]
        /\ aliveReplies' \subseteq [set : AliveArgs, alive : SUBSET (Task \X Incarnation)]
    BY <1>2, RefreshType DEF Consequences, Proper
  <1>10. known' \in [Watcher -> JobState \cup {Behind}] /\ watching' \subseteq Watcher
    <2>1. JobNow' \in JobState
      BY <1>3 DEF JobNow, JobState, Proper
    <2> QED BY <1>2, <2>1 DEF Consequences, ClusterStateUpdated, watchVars, TypeOK
  <1>11. replies' \subseteq ReplySet
    BY <1>1, <1>2, AnswersType DEF Consequences, SettleReplies, Proper
  <1> QED BY <1>3, <1>4, <1>5, <1>6, <1>7, <1>8, <1>9, <1>10, <1>11
          DEF TypeOK, Proper, ReplySet

LEMMA SettleBooks ==
    ASSUME NEW d, IInv, Proper(d), Settle(d)
    PROVE  Bookkeeping' /\ Idle'
  <1> DEFINE err == Errors(d)
             fin == Passed(d, err)
             left == [b \in BarrierId |-> Left(b, d, err)]
  <1>1. /\ err \subseteq Task /\ fin \subseteq BarrierId /\ d.pass \subseteq fin
        /\ left \in [BarrierId -> SUBSET Task]
    BY SettleParameters DEF Proper, IInv
  <1>2. SettleBarriers(d, fin, left)
    BY DEF Settle, Consequences
  <1> HIDE DEF err, fin, left
  <1>3. ASSUME NEW b \in ongoing' PROVE
          /\ ~passed'[b] /\ pending'[b] > 0
          /\ calls'[b] = reached'[b] /\ reached'[b] \subseteq members'[b]
          /\ pending'[b] = Cardinality(members'[b] \ reached'[b])
    <2>1. b \in BarrierId /\ b \in ongoing \cup d.start /\ b \notin fin /\ b \notin d.pass
      BY <1>1, <1>2, <1>3 DEF SettleBarriers, Ongoing, IInv, TypeOK, Proper, EffectType
    <2>2. /\ d.wait[b] = d.at[b] /\ d.at[b] \subseteq members'[b]
          /\ members'[b] \ d.at[b] # {} /\ members'[b] \subseteq Task
      BY <2>1 DEF Proper
    <2>3. ~passed'[b]
      BY <1>2, <2>1 DEF SettleBarriers, IInv, Bookkeeping, Proper
    <2>4. calls'[b] = d.at[b] \ left[b] /\ reached'[b] = d.at[b] \ left[b]
      BY <1>2, <2>1, <2>2 DEF SettleBarriers
    <2> DEFINE R == IF b \in d.start THEN {} ELSE reached[b]
    <2>5. R \subseteq d.at[b]
      BY <2>1 DEF Proper
    <2>6. pending'[b] = Cardinality(members'[b] \ R)
                        - Cardinality(d.at[b] \ R) + Cardinality(d.at[b] \cap left[b])
      <3>1. pending'[b] = (IF b \in d.start THEN Cardinality(members'[b]) ELSE pending[b])
                        - Cardinality(d.at[b] \ R) + Cardinality(d.at[b] \cap left[b])
        BY <1>2, <2>1 DEF SettleBarriers, Returned
      <3>2. CASE b \in d.start
        <4>1. members'[b] \ R = members'[b]
          BY <3>2
        <4> QED BY <3>1, <3>2, <4>1
      <3>3. CASE b \notin d.start
        <4>1. pending[b] = Cardinality(members[b] \ reached[b]) /\ members'[b] = members[b]
          BY <2>1, <3>3 DEF IInv, Bookkeeping, Proper
        <4>2. members'[b] \ R = members[b] \ reached[b]
          BY <3>3, <4>1
        <4> HIDE DEF R
        <4> QED BY <3>1, <3>3, <4>1, <4>2
      <3> QED BY <3>2, <3>3
    <2> HIDE DEF R
    <2>7. pending'[b] = Cardinality(members'[b] \ reached'[b])
      <3> DEFINE MA == members'[b] \ d.at[b]
                 AR == d.at[b] \ R
                 AL == d.at[b] \cap left[b]
      <3>1. /\ members'[b] \ R = MA \cup AR /\ members'[b] \ reached'[b] = MA \cup AL
            /\ MA \cap AR = {} /\ MA \cap AL = {}
            /\ MA \subseteq Task /\ AR \subseteq Task /\ AL \subseteq Task
        BY <2>2, <2>4, <2>5
      <3>2. pending'[b] = Cardinality(members'[b] \ R) - Cardinality(AR) + Cardinality(AL)
        BY <2>6
      <3> HIDE DEF MA, AR, AL
      <3>3. Cardinality(MA \cup AR) = Cardinality(MA) + Cardinality(AR)
        BY <3>1, DisjointUnion
      <3>4. Cardinality(MA \cup AL) = Cardinality(MA) + Cardinality(AL)
        BY <3>1, DisjointUnion
      <3>5. Cardinality(MA) \in Nat /\ Cardinality(AR) \in Nat /\ Cardinality(AL) \in Nat
        BY <3>1, TaskSets
      <3>6. /\ Cardinality(members'[b] \ R) = Cardinality(MA \cup AR)
            /\ Cardinality(members'[b] \ reached'[b]) = Cardinality(MA \cup AL)
        BY ONLY <3>1
      <3> QED BY ONLY <3>2, <3>3, <3>4, <3>5, <3>6
    <2>8. pending'[b] > 0
      <3>1. members'[b] \ reached'[b] # {} /\ members'[b] \ reached'[b] \subseteq Task
        BY <2>2, <2>4
      <3> QED BY <2>7, <3>1, TaskSets
    <2> QED BY <2>2, <2>3, <2>4, <2>7, <2>8
  <1>4. ASSUME NEW b \in BarrierId, b \notin ongoing' PROVE
          /\ calls'[b] = {} /\ reached'[b] = {} /\ pending'[b] = 0
          /\ ~passed'[b] => counter'[b] = 0
    <2>1. CASE b \in fin
      BY <1>2, <2>1 DEF SettleBarriers
    <2>2. CASE b \notin fin
      <3>1. b \notin ongoing /\ b \notin d.start /\ b \notin d.pass
        BY <1>1, <1>2, <1>4, <2>2 DEF SettleBarriers, Ongoing
      <3>2. d.wait[b] = {} /\ d.at[b] = {} /\ pending[b] = 0
        BY <3>1 DEF Proper, IInv, Idle
      <3>3. calls'[b] = {} /\ reached'[b] = {}
        BY <1>2, <2>2, <3>2 DEF SettleBarriers
      <3>4. pending'[b] = 0
        <4>1. pending'[b] = pending[b] - Cardinality(d.at[b] \ reached[b])
                              + Cardinality(d.at[b] \cap left[b])
          BY <1>2, <2>2, <3>1 DEF SettleBarriers, Returned
        <4>2. d.at[b] \ reached[b] = {} /\ d.at[b] \cap left[b] = {}
          BY <3>2
        <4>3. Cardinality(d.at[b] \ reached[b]) = 0 /\ Cardinality(d.at[b] \cap left[b]) = 0
          BY <4>2, FS_EmptySet
        <4> QED BY <3>2, <4>1, <4>3
      <3>5. ~passed'[b] => counter'[b] = 0
        BY <1>2, <2>2, <3>1 DEF SettleBarriers, Proper, IInv, Idle
      <3> QED BY <3>3, <3>4, <3>5
    <2> QED BY <2>1, <2>2
  <1>5. \A t \in Task : joined'[t] = {b \in ongoing' : t \in members'[b]}
    BY <1>1, <1>2
       DEF SettleBarriers, Ongoing, IInv, Bookkeeping, Proper, EffectType, TypeOK
  <1>6. counter'[Register] = 0 /\ counter'[Shutdown] = 0
    BY DEF Proper
  <1> QED BY <1>3, <1>4, <1>5, <1>6 DEF Bookkeeping, Idle

\* A barrier that goes on waits for its members to call: a handler that starts
\* one does nothing that fails a task, and one that was ongoing would have
\* failed with, or been left by, the task.
LEMMA OngoingSurvives ==
    ASSUME NEW d, IInv, Handled(d), Settle(d), NEW b \in ongoing', NEW t \in members'[b],
           t \in Errors(d) \cup d.disc
    PROVE  /\ Recoverable
           /\ t \in Left(b, d, Errors(d)) /\ b \in ongoing
  <1> DEFINE err == Errors(d)
             fin == Passed(d, err)
             left == [x \in BarrierId |-> Left(x, d, err)]
  <1>1. SettleBarriers(d, fin, left) /\ EffectType(d) /\ d.pass \subseteq fin
    BY SettleParameters DEF Settle, Consequences, Handled, Proper, IInv
  <1>2. b \in ongoing \cup d.start /\ b \notin fin /\ b \in BarrierId
    BY <1>1 DEF SettleBarriers, Ongoing, IInv, TypeOK, EffectType
  <1>3. b \notin d.start
    <2> SUFFICES ASSUME b \in d.start PROVE FALSE
      OBVIOUS
    <2>1. d.errs = {} /\ d.disc = {} /\ d.pass = {} /\ ~d.propagate
      BY <1>1, <1>2 DEF Handled, Careful
    <2>2. Hit(d) = {}
      BY <2>1 DEF Hit, BarriersOf
    <2>3. err = {}
      BY <2>1, <2>2 DEF Errors, AllFail
    <2> QED BY <2>1, <2>3
  <1>4. b \in ongoing /\ b \notin d.pass /\ members'[b] = members[b]
    BY <1>1, <1>2, <1>3 DEF Handled, Proper
  <1>5. t \in Task /\ b \in joined[t]
    BY <1>2, <1>4 DEF IInv, TypeOK, Bookkeeping
  <1>6. Recoverable
    BY <1>2, <1>4, <1>5 DEF Passed, BarriersOf
  <1> QED BY <1>4, <1>5, <1>6 DEF Left

\* A call that waits after Settle is one of the handler's record, at a barrier
\* that has not passed, and its task has neither failed nor disconnected nor
\* left the barrier.
LEMMA WaitingAfter ==
    ASSUME NEW d, IInv, Handled(d), Settle(d), NEW b \in BarrierId, NEW t \in calls'[b]
    PROVE  /\ b \in ongoing' /\ t \in members'[b] /\ t \in Task /\ t \in d.wait[b]
           /\ callInc'[b][t] = d.inc[b][t]
           /\ t \notin Left(b, d, Errors(d)) /\ b \notin d.pass
           /\ ~(Recoverable /\ t \in d.leave)
           /\ t \notin Errors(d) \cup d.disc
  <1> DEFINE err == Errors(d)
             fin == Passed(d, err)
             left == [x \in BarrierId |-> Left(x, d, err)]
  <1>1. SettleBarriers(d, fin, left) /\ EffectType(d) /\ d.pass \subseteq fin
    BY SettleParameters DEF Settle, Consequences, Handled, Proper, IInv
  <1>2. Bookkeeping' /\ TypeOK'
    BY SettleBooks, SettleType DEF Handled, IInv
  <1>3. b \in ongoing' /\ t \in members'[b] /\ t \in Task
    BY <1>2 DEF Bookkeeping, TypeOK
  <1>4. b \notin fin /\ t \in d.wait[b] /\ t \notin Left(b, d, err)
    BY <1>1 DEF SettleBarriers
  <1>5. callInc'[b][t] = d.inc[b][t]
    BY <1>1, <1>3 DEF SettleBarriers
  <1>6. b \notin d.pass
    BY <1>1, <1>4
  <1>7. t \notin err \cup d.disc
    BY <1>3, <1>4, OngoingSurvives
  <1>8. ~(Recoverable /\ t \in d.leave)
    <2> SUFFICES ASSUME Recoverable, t \in d.leave PROVE FALSE
      OBVIOUS
    <2>1. b \in ongoing /\ members'[b] = members[b]
      BY <1>1, <1>3 DEF SettleBarriers, Ongoing, Handled, Careful, Proper
    <2>2. b \in joined[t]
      BY <1>3, <2>1 DEF IInv, Bookkeeping
    <2> QED BY <1>3, <1>4, <1>6, <2>2 DEF Left
  <1> QED BY <1>3, <1>4, <1>5, <1>6, <1>7, <1>8

LEMMA SettleCalls ==
    ASSUME NEW d, IInv, Handled(d), Settle(d)
    PROVE  NoBarrierWaitsForFailedTask' /\ WaitingRegistrationIsCurrent' /\ StatusMeansError'
  <1> DEFINE err == Errors(d)
             fin == Passed(d, err)
             left == [x \in BarrierId |-> Left(x, d, err)]
  <1>1. /\ SettleBarriers(d, fin, left) /\ SettleTasks(d, err)
        /\ EffectType(d) /\ d.pass \subseteq fin
    BY SettleParameters DEF Settle, Consequences, Handled, Proper, IInv
  <1>2. Bookkeeping' /\ TypeOK'
    BY SettleBooks, SettleType DEF Handled, IInv
  <1>3. ASSUME ~Recoverable, NEW b \in ongoing', NEW t \in members'[b]
        PROVE  state'[t] # "ERROR"
    <2>1. t \notin err /\ t \notin d.disc
      BY <1>3, OngoingSurvives
    <2>2. b \in BarrierId /\ t \in Task /\ (b \in ongoing \cup d.start /\ b \notin fin)
      BY <1>1, <1>2 DEF TypeOK, SettleBarriers, Ongoing
    <2>3. state[t] # "ERROR"
      <3>1. CASE b \in ongoing
        <4>1. members'[b] = members[b]
          BY <3>1 DEF Handled, Proper
        <4> QED BY <1>3, <3>1, <4>1 DEF IInv, NoBarrierWaitsForFailedTask
      <3>2. CASE b \in d.start
        BY <1>1, <1>3, <2>2, <3>2 DEF Handled, Careful
      <3> QED BY <2>2, <3>1, <3>2
    <2> QED BY <1>1, <2>1, <2>2, <2>3 DEF SettleTasks
  <1>4. WaitingRegistrationIsCurrent'
    <2>1. Register \in BarrierId
      BY DEF BarrierId
    <2>2. ASSUME NEW t \in calls'[Register] PROVE callInc'[Register][t] = incarnation'[t]
      <3>1. /\ t \in d.wait[Register] /\ callInc'[Register][t] = d.inc[Register][t]
            /\ ~(Recoverable /\ t \in d.leave)
        BY <2>1, <2>2, WaitingAfter
      <3> QED BY <3>1 DEF Handled, Careful
    <2> QED BY <2>2 DEF WaitingRegistrationIsCurrent
  <1>5. ASSUME NEW t \in Task, status'[t] # "ok" PROVE state'[t] = "ERROR"
    BY <1>1, <1>5 DEF SettleTasks, IInv, StatusMeansError
  <1>6. StatusMeansError'
    BY <1>5 DEF StatusMeansError
  <1>7. NoBarrierWaitsForFailedTask'
    BY <1>3 DEF NoBarrierWaitsForFailedTask
  <1> QED BY <1>4, <1>6, <1>7

LEMMA SettleRegistering ==
    ASSUME NEW d, IInv, Handled(d), Settle(d)
    PROVE  Registering'
  <1> DEFINE err == Errors(d)
             fin == Passed(d, err)
             left == [x \in BarrierId |-> Left(x, d, err)]
  <1>1. /\ SettleBarriers(d, fin, left) /\ SettlePolls(d, fin)
        /\ EffectType(d) /\ d.pass \subseteq fin /\ Register \in BarrierId
    BY SettleParameters DEF Settle, Consequences, Handled, Proper, IInv, BarrierId
  <1>2. Register \in fin => Register \in ongoing \/ Register \in d.pass
    BY DEF Passed, BarriersOf
  <1> HIDE DEF err, fin, left
  <1>3. \A b \in BarrierId : result'[b] = "ok" => passed'[b]
    BY <1>1 DEF SettleBarriers, IInv, Registering
  <1>4. Register \in ongoing' \/ passed'[Register] => members'[Register] = Task
    <2>1. CASE Register \in d.start \cup d.pass
      BY <2>1 DEF Handled, Careful
    <2>2. CASE Register \notin d.start \cup d.pass
      BY <1>1, <1>2, <2>2 DEF Handled, Careful, SettleBarriers, Ongoing, IInv, Registering
    <2> QED BY <2>1, <2>2
  <1>5. members'[Register] \in {{}, Task}
    BY DEF Handled, Careful, IInv, Registering
  <1>6. ~RegisterWithBarrier => Register \notin ongoing'
    BY <1>1 DEF SettleBarriers, Ongoing, Handled, Careful, IInv, Registering
  <1>7. ASSUME polls' # {}
        PROVE  polling' /\ (RegisterWithBarrier => result'[Register] = "ok")
    <2>1. polls # {} /\ polling' = polling
      BY <1>1, <1>7 DEF SettlePolls, Handled, Careful
    <2>2. ASSUME RegisterWithBarrier PROVE result'[Register] = "ok"
      <3>1. result[Register] = "ok" /\ passed[Register]
        BY <1>1, <2>1, <2>2 DEF IInv, Registering
      <3>2. Register \notin ongoing /\ Register \notin d.pass /\ Register \notin d.start
        BY <1>1, <3>1 DEF IInv, Bookkeeping, Handled, Careful
      <3> QED BY <1>1, <1>2, <3>1, <3>2 DEF SettleBarriers
    <2> QED BY <2>1, <2>2 DEF IInv, Registering
  <1> QED BY <1>3, <1>4, <1>5, <1>6, <1>7 DEF Registering

LEMMA SettleKeeps ==
    ASSUME NEW d, IInv, Handled(d), Settle(d)
    PROVE  IInv'
  BY SettleType, SettleBooks, SettleCalls, SettleRegistering DEF IInv, Handled

-----------------------------------------------------------------------------
(* The handlers *)

\* An ongoing barrier waits for someone.
LEMMA OngoingWaits ==
    ASSUME IInv, NEW b \in ongoing
    PROVE  members[b] \ reached[b] # {}
  <1> SUFFICES ASSUME members[b] \ reached[b] = {} PROVE FALSE
    OBVIOUS
  <1>1. pending[b] > 0 /\ pending[b] = Cardinality(members[b] \ reached[b])
    BY DEF IInv, Bookkeeping, TypeOK
  <1>2. Cardinality(members[b] \ reached[b]) = 0
    BY FS_EmptySet
  <1> QED BY <1>1, <1>2

\* A task's incarnation is replaced only when it has no calls made by the old
\* one, or leaves the barriers these are for.
Reincarnates(d) ==
    \A t \in Task : \/ incarnation'[t] = incarnation[t]
                    \/ Recoverable /\ t \in d.leave
                    \/ state[t] # "CONNECTED" /\ calls[Register] = {}

\* A handler that neither starts a barrier nor stores a call.
Simple(d) ==
    /\ EffectType(d)
    /\ d.start = {} /\ d.wait = calls /\ d.at = reached /\ d.inc = callInc
    /\ members' = members /\ counter' = counter
    /\ ~stopped /\ stopped' = stopped /\ polling' = polling
    /\ incarnation' \in [Task -> Incarnation]
    /\ Reincarnates(d)
    /\ d.errs # {} => d.propagate
    /\ d.res = "ok" => d.pass = {}
    /\ d.leave # {} => d.pass = {}
    /\ d.conn # {} => d.errs = {} /\ d.disc = {} /\ d.pass = {} /\ ~d.propagate
    /\ Register \in d.pass => Register \in ongoing
    /\ \A r \in d.answers : r.st = "ok" => passed[r.of] /\ result[r.of] = "ok"
    /\ \A r \in d.answers : Definite(r) => /\ r.of \notin ongoing \cup d.pass
                                           /\ \A q \in d.answers : Definite(q) => q = r
    /\ d.updates \in Nat
    /\ d.updates = 0 => d.conn = {} /\ d.disc = {} /\ incarnation' = incarnation

LEMMA SimpleHandled ==
    ASSUME NEW d, IInv, Simple(d)
    PROVE  Handled(d)
  <1> USE DEF Simple
  <1>1. Proper(d)
    BY OngoingWaits DEF Proper, IInv, TypeOK, Bookkeeping, Idle
  <1>2. Register \in d.pass => RegisterWithBarrier /\ ~passed[Register] /\ members'[Register] = Task
    BY DEF IInv, Registering, Bookkeeping, BarrierId
  <1>3. ASSUME NEW t \in d.wait[Register]
        PROVE  \/ d.inc[Register][t] = incarnation'[t]
               \/ Recoverable /\ t \in d.leave /\ Register \notin d.pass
    <2>1. t \in Task /\ d.inc[Register][t] = incarnation[t]
      BY <1>3 DEF IInv, WaitingRegistrationIsCurrent, TypeOK, BarrierId
    <2> QED BY <1>3, <2>1 DEF Reincarnates
  <1>4. \A t \in Task : \/ incarnation'[t] = incarnation[t]
                        \/ Recoverable /\ t \in d.leave
                        \/ state[t] # "CONNECTED"
    BY DEF Reincarnates
  <1>5. Careful(d)
    BY <1>2, <1>3, <1>4 DEF Careful
  <1> QED BY <1>1, <1>5 DEF Handled

\* The records of the handlers are of the type that Settle expects.
LEMMA QuietType ==
    ASSUME TypeOK
    PROVE  EffectType(Quiet)
  BY DEF TypeOK, EffectType, Quiet

\* A new instance is never started while the previous one is ongoing.
LEMMA NewIsNotOngoing ==
    ASSUME IInv, NEW b \in BarrierId, NEW c \in Nat, NewInstance(b, c)
    PROVE  b \notin ongoing
  <1> SUFFICES ASSUME b \in ongoing PROVE FALSE
    OBVIOUS
  <1>1. ~passed[b] /\ pending[b] > 0
    BY DEF IInv, Bookkeeping
  <1>2. pending[b] # 0
    BY <1>1
  <1> QED BY <1>1, <1>2 DEF NewInstance, Uninitialized, Rejoins

\* A call that is neither for a new instance, nor rejected for its counter,
\* nor for an instance that has passed, is for an ongoing one.
LEMMA OldIsOngoing ==
    ASSUME IInv, NEW b \in BarrierId, NEW c \in Nat, b \notin Barrier => c = 0,
           ~NewInstance(b, c), ~CounterMismatch(b, c), ~(passed[b] /\ c = counter[b])
    PROVE  b \in ongoing
  BY DEF IInv, Idle, NewInstance, Uninitialized, Rejoins, CounterMismatch, BarrierId

LEMMA CounterTypes ==
    ASSUME IInv, NEW b \in BarrierId, NEW c \in Nat, b \notin Barrier => c = 0
    PROVE  LET k == [counter EXCEPT ![b] = InstanceCounter(b, c)]
           IN  k \in [BarrierId -> Nat] /\ k[Register] = 0 /\ k[Shutdown] = 0
  BY BarrierAssumption DEF IInv, TypeOK, Idle, InstanceCounter, Rejoins, BarrierId

\* What a step of BarrierAsyncLocked with record d does to barrier b, whose
\* members are mem from now on.
BarrierEffect(b, c, d, mem) ==
    /\ mem \in SUBSET Task
    /\ b \in ongoing => mem = members[b]
    /\ members' = [members EXCEPT ![b] = mem]
    /\ counter' = IF NewInstance(b, c) THEN [counter EXCEPT ![b] = InstanceCounter(b, c)]
                                       ELSE counter
    /\ d.start = Start(b, c)
    /\ \A x \in BarrierId \ {b} : d.wait[x] = calls[x] /\ d.at[x] = reached[x]
    /\ \/ b \in d.pass
       \/ /\ b \in ongoing \cup d.start
          /\ d.wait[b] = d.at[b] /\ d.at[b] \subseteq mem /\ mem \ d.at[b] # {}
          /\ b \in ongoing => reached[b] \subseteq d.at[b]

LEMMA BarrierProper ==
    ASSUME IInv, NEW b \in BarrierId, NEW c \in Nat, b \notin Barrier => c = 0,
           NEW d, EffectType(d), NEW mem, BarrierEffect(b, c, d, mem),
           stopped' \in BOOLEAN, polling' \in BOOLEAN,
           incarnation' \in [Task -> Incarnation]
    PROVE  Proper(d)
  <1> USE DEF BarrierEffect
  <1>1. counter' \in [BarrierId -> Nat] /\ counter'[Register] = 0 /\ counter'[Shutdown] = 0
    BY CounterTypes DEF IInv, TypeOK, Idle
  <1>2. \A x \in BarrierId \ d.start : counter'[x] = counter[x]
    BY DEF Start, IInv, TypeOK
  <1>3. d.start \cap ongoing = {}
    BY NewIsNotOngoing DEF Start
  <1>4. members' \in [BarrierId -> SUBSET Task] /\ members'[b] = mem
    BY DEF IInv, TypeOK
  <1>5. \A x \in BarrierId \ {b} : members'[x] = members[x]
    BY DEF IInv, TypeOK
  <1>6. \A x \in ongoing : members'[x] = members[x]
    BY <1>4, <1>5 DEF IInv, TypeOK
  <1>7. ASSUME NEW x \in BarrierId \ d.pass, x # b
        PROVE  /\ x \notin ongoing \cup d.start => d.wait[x] = {} /\ d.at[x] = {}
               /\ x \in ongoing \cup d.start => /\ d.wait[x] = d.at[x]
                                                /\ d.at[x] \subseteq members'[x]
                                                /\ members'[x] \ d.at[x] # {}
               /\ x \in ongoing => reached[x] \subseteq d.at[x]
    <2>1. x \notin d.start /\ d.wait[x] = calls[x] /\ d.at[x] = reached[x]
      BY <1>7 DEF Start
    <2>2. members'[x] = members[x]
      BY <1>5, <1>7
    <2> QED BY <2>1, <2>2, OngoingWaits DEF IInv, Bookkeeping, Idle
  <1> QED BY <1>1, <1>2, <1>3, <1>4, <1>6, <1>7 DEF Proper

\* What a caller of BarrierAsyncLocked guarantees: RegisterTaskAsync has set the
\* incarnation of a task that may register and counts that as an update.
Calling(b, c, t, args, upd) ==
    /\ b \in BarrierId /\ c \in Nat /\ (b \notin Barrier => c = 0) /\ t \in Task
    /\ args \in SUBSET (Task \cup {Unknown}) /\ upd \in Nat
    /\ b = Register => args = {} /\ RegisterWithBarrier /\ upd # 0
    /\ ~stopped /\ stopped' = stopped /\ polling' = polling
    /\ incarnation' \in [Task -> Incarnation]
    /\ b # Register => incarnation' = incarnation
    /\ \A u \in Task : \/ incarnation'[u] = incarnation[u]
                       \/ u = t /\ MayRegister(t)

\* The register barrier agrees with every call: nobody lists its participants.
LEMMA RegisterAgrees ==
    ASSUME IInv, NEW t, ~NewInstance(Register, 0)
    PROVE  /\ ~CounterMismatch(Register, 0)
           /\ members[Register] = Task
           /\ ArgsAgree(members[Register], {}, t)
  <1>1. Register \in BarrierId /\ counter[Register] = 0 /\ pending[Register] \in Int
    BY DEF BarrierId, IInv, Idle, TypeOK
  <1>2. passed[Register] \/ Register \in ongoing
    BY <1>1 DEF NewInstance, Uninitialized, IInv, Idle
  <1>3. members[Register] = Task
    BY <1>2 DEF IInv, Registering
  <1> QED BY <1>1, <1>3 DEF CounterMismatch, ArgsAgree

\* A new instance of the register barrier is its first one, and has all tasks.
LEMMA RegisterStarts ==
    ASSUME IInv, NewInstance(Register, 0)
    PROVE  ~passed[Register] /\ InitialMembers(Register, {}) = Task
  BY BarrierAssumption DEF NewInstance, Uninitialized, Rejoins, IInv, Idle, Registering,
                           InitialMembers

\* What the records of BarrierAsyncLocked have in common, whether the call is
\* stored or not.
BarrierRecord(b, c, t, args, upd, d, mem) ==
    /\ d.errs = {} /\ d.leave = {} /\ d.late = {} /\ ~d.propagate
    /\ \/ d.wait[b] = {} /\ d.inc = callInc
       \/ d.wait = Wait(b, c, t) /\ d.inc = Inc(b, t)
    /\ t \in calls[b] => \E r \in d.answers : r.to = t /\ r.of = b
    /\ b \in ongoing => calls[b] \subseteq d.wait[b]
    /\ d.pass \subseteq {b}
    /\ d.conn # {} => d.disc = {} /\ d.res = "ok"
    /\ b = Register => mem = Task /\ ~passed[b]
    /\ b \in d.start \ d.pass => /\ d.disc = {} /\ CanStart(b, args)
                                 /\ mem = InitialMembers(b, args)
    /\ d.res = "ok" /\ b \in d.pass => d.wait[b] = mem
    /\ \A r \in d.answers : r.st # "ok"
    /\ \A r \in d.answers : Definite(r) => /\ r = Reply(t, b, "failed") /\ d.wait[b] = {}
                                            /\ b \notin ongoing
    /\ d.updates \in Nat
    /\ d.updates = 0 => upd = 0 /\ d.conn = {} /\ d.disc = {}

LEMMA BarrierCareful ==
    ASSUME IInv, NEW b, NEW c, NEW t, NEW args, NEW upd, Calling(b, c, t, args, upd),
           NEW d, EffectType(d), NEW mem, BarrierEffect(b, c, d, mem),
           BarrierRecord(b, c, t, args, upd, d, mem)
    PROVE  Careful(d)
  <1> USE DEF Calling, BarrierRecord
  <1>1. /\ members'[b] = mem /\ d.start = Start(b, c) /\ d.start \subseteq {b}
        /\ \A x \in BarrierId \ {b} : members'[x] = members[x] /\ d.wait[x] = calls[x]
    BY DEF BarrierEffect, Start, IInv, TypeOK
  <1>2. TypeOK /\ Register \in BarrierId
    BY DEF IInv, BarrierId
  <1>3. ASSUME NEW x \in BarrierId, NEW u \in d.wait[x]
        PROVE  /\ u \in Task
               /\ x # b \/ u # t => d.inc[x][u] = callInc[x][u] /\ (x = b => u \in calls[b])
               /\ x = b /\ u = t => d.inc[x][u] = incarnation'[t]
    <2>1. u \in Task
      BY <1>3 DEF EffectType
    <2>2. CASE d.wait[b] = {} /\ d.inc = callInc
      BY <1>3, <2>1, <2>2
    <2>3. CASE d.wait = Wait(b, c, t) /\ d.inc = Inc(b, t)
      <3>1. d.wait[b] \subseteq calls[b] \cup {t}
        BY <1>2, <2>3 DEF Wait, TypeOK
      <3>3. d.inc = [callInc EXCEPT ![b][t] = incarnation'[t]]
        BY <2>3 DEF Inc
      <3>4. callInc \in [BarrierId -> [Task -> Incarnation]]
        BY <1>2 DEF TypeOK
      <3>5. /\ x # b \/ u # t => d.inc[x][u] = callInc[x][u]
            /\ x = b /\ u = t => d.inc[x][u] = incarnation'[t]
        BY <2>1, <3>3, <3>4
      <3> QED BY <1>3, <2>1, <3>1, <3>5
    <2> QED BY <2>2, <2>3
  <1>4. ASSUME NEW u \in d.wait[Register] PROVE d.inc[Register][u] = incarnation'[u]
    <2>1. CASE b = Register /\ u = t
      BY <1>2, <1>3, <1>4, <2>1
    <2>2. CASE ~(b = Register /\ u = t)
      <3>1. u \in Task /\ u \in calls[Register] /\ d.inc[Register][u] = callInc[Register][u]
        BY <1>1, <1>2, <1>3, <1>4, <2>2
      <3>2. callInc[Register][u] = incarnation[u]
        BY <3>1 DEF IInv, WaitingRegistrationIsCurrent
      <3> QED BY <2>2, <3>1, <3>2
    <2> QED BY <2>1, <2>2
  <1>5. \A u \in Task : incarnation'[u] = incarnation[u] \/ state[u] # "CONNECTED"
    BY DEF MayRegister, IInv, StatusMeansError
  <1>6. ASSUME ~Recoverable, NEW x \in d.start \ d.pass
        PROVE  \A m \in members'[x] : state[m] # "ERROR"
    BY <1>1, <1>6 DEF CanStart
  <1>7. \A x \in ongoing : calls[x] \subseteq d.wait[x]
    BY <1>1, <1>2 DEF TypeOK
  <1>a. ASSUME NEW x \in BarrierId, NEW u \in calls[x]
        PROVE  d.inc[x][u] = callInc[x][u] \/ \E r \in d.answers : r.to = u /\ r.of = x
    <2>1. CASE x = b /\ u = t
      BY <1>a, <2>1
    <2>2. CASE ~(x = b /\ u = t)
      <3>1. x \in ongoing
        BY <1>a DEF IInv, Bookkeeping
      <3> QED BY <1>3, <1>7, <1>a, <2>2, <3>1
    <2> QED BY <2>1, <2>2
  <1>8. Register \in d.start \cup d.pass =>
          RegisterWithBarrier /\ ~passed[Register] /\ members'[Register] = Task
    BY <1>1
  <1>9. Register \notin d.start => members'[Register] = members[Register]
    <2>1. CASE b = Register /\ Register \notin d.start
      <3>1. ~NewInstance(Register, 0) /\ c = 0
        BY <1>1, <2>1, BarrierAssumption DEF Start
      <3> QED BY <1>1, <2>1, <3>1, RegisterAgrees
    <2> QED BY <1>1, <1>2, <2>1
  <1>10. d.start \ d.pass # {} => d.disc = {} /\ d.pass = {}
    BY <1>1
  <1>11. d.res = "ok" => \A x \in d.pass : d.wait[x] = members'[x]
    BY <1>1
  <1>12. d.updates = 0 => d.conn = {} /\ d.disc = {} /\ incarnation' = incarnation
    OBVIOUS
  <1>13. ASSUME NEW r \in d.answers, Definite(r)
         PROVE  /\ r.of \notin ongoing /\ (r.of \in d.pass => d.wait[r.of] = {})
                /\ \A q \in d.answers : Definite(q) => q = r
    <2>1. r = Reply(t, b, "failed") /\ d.wait[b] = {} /\ r.of = b /\ b \notin ongoing
      BY <1>13 DEF Reply
    <2> QED BY <2>1
  <1>14. \A x \in d.start : counter'[x] = IF passed[x] THEN counter[x] + 1 ELSE counter[x]
    <2> SUFFICES ASSUME NewInstance(b, c)
                 PROVE  counter'[b] = IF passed[b] THEN counter[b] + 1 ELSE counter[b]
      BY <1>1 DEF Start
    <2>1. counter'[b] = InstanceCounter(b, c)
      BY <1>2 DEF BarrierEffect, TypeOK
    <2> QED BY <1>2, <2>1 DEF NewInstance, InstanceCounter, Rejoins, Uninitialized, TypeOK
  <1> QED BY <1>4, <1>5, <1>6, <1>7, <1>8, <1>9, <1>10, <1>11, <1>12, <1>13, <1>14,
          <1>a DEF Careful

\* What becomes of the call: it waits at instance c or is answered, and only
\* barrier b is concerned.
CallEffect(b, c, t, args, d) ==
    /\ t \in d.wait[b] \/ \E r \in d.answers : r.to = t /\ r.of = b
    /\ \/ t \in d.wait[b]
       \/ b \in d.pass /\ d.res # "ok"
       \/ passed[b] /\ b \notin d.start \cup d.pass
    /\ d.wait[b] \subseteq calls[b] \cup {t}
    /\ \A x \in BarrierId \ {b} : /\ x \notin d.start \cup d.pass /\ d.wait[x] = calls[x]
                                 /\ members'[x] = members[x]
    /\ ~Recoverable /\ t \in d.wait[b] /\ (b \in d.pass => d.res = "ok") => counter'[b] = c
    /\ args = {} => /\ b \in d.start => members'[b] \in {members[b], Task} \ {{}}
                    /\ b \notin d.start => members'[b] = members[b]

\* BarrierAsyncLocked, however it ends.
LEMMA BarrierStep ==
    ASSUME IInv, NEW b, NEW c, NEW t, NEW args, NEW upd, Calling(b, c, t, args, upd),
           BarrierAsyncLocked(b, c, t, args, upd)
    PROVE  \E d : Handled(d) /\ Settle(d) /\ CallEffect(b, c, t, args, d)
  <1>1. TypeOK /\ stopped' \in BOOLEAN /\ polling' \in BOOLEAN
    BY DEF IInv, TypeOK, Calling
  <1> USE DEF Calling
  <1>2. Cancelled(b, c, t) \subseteq ReplySet
    BY <1>1, AnswerType DEF Cancelled, TypeOK
  <1>3. Inc(b, t) \in [BarrierId -> [Task -> Incarnation]]
    <2>1. callInc \in [BarrierId -> [Task -> Incarnation]]
      BY <1>1 DEF TypeOK
    <2>3. Inc(b, t) = [callInc EXCEPT ![b][t] = incarnation'[t]]
      BY DEF Inc
    <2> QED BY <2>1, <2>3
  <1>4. /\ Wait(b, c, t) \in [BarrierId -> SUBSET Task]
        /\ \A x \in BarrierId \ {b} : Wait(b, c, t)[x] = calls[x]
        /\ Wait(b, c, t)[b] = IF NewInstance(b, c) THEN {t} ELSE calls[b] \cup {t}
    BY <1>1 DEF Wait, TypeOK
  <1>5. ASSUME NEW A \in SUBSET Task
        PROVE  /\ [reached EXCEPT ![b] = A] \in [BarrierId -> SUBSET Task]
               /\ [reached EXCEPT ![b] = A][b] = A
               /\ \A x \in BarrierId \ {b} : [reached EXCEPT ![b] = A][x] = reached[x]
    BY <1>1 DEF TypeOK
  <1>6. At(b, c) \in SUBSET Task /\ At(b, c) \cup {t} \in SUBSET Task
    BY <1>1 DEF At, TypeOK
  <1>7. ASSUME AddBarrierCallback(b, c, t, args)
        PROVE  /\ Mem(b, c, args) \in SUBSET Task
               /\ members' = [members EXCEPT ![b] = Mem(b, c, args)]
               /\ b \in ongoing => Mem(b, c, args) = members[b]
    BY <1>1, <1>7, NewIsNotOngoing DEF AddBarrierCallback, Mem, CanStart, TypeOK
  <1>c. \A r \in Cancelled(b, c, t) : r.st # "ok" /\ ~Definite(r)
    BY DEF Cancelled, Answer, Reply, Definite
  <1>f. t \in calls[b] => ~NewInstance(b, c) /\ \E r \in Cancelled(b, c, t) : r.to = t /\ r.of = b
    <2> SUFFICES ASSUME t \in calls[b]
                 PROVE  ~NewInstance(b, c) /\ \E r \in Cancelled(b, c, t) : r.to = t /\ r.of = b
      OBVIOUS
    <2>1. ~NewInstance(b, c)
      BY NewIsNotOngoing DEF IInv, Bookkeeping
    <2>2. Cancelled(b, c, t) = {Answer(b, t, "cancelled", callInc[b][t], incarnation'[t])}
      BY <2>1 DEF Cancelled
    <2> QED BY <2>1, <2>2, AnswerFields
  <1>d. b = Register => args = {} /\ c = 0
    BY BarrierAssumption
  <1>e. ASSUME args = {}
        PROVE  /\ InitialMembers(b, args) \in {members[b], Task} \ {{}}
               /\ ~NewInstance(b, c) => Mem(b, c, args) = members[b]
               /\ NewInstance(b, c) => Mem(b, c, args) = InitialMembers(b, args)
    BY <1>e, TaskAssumption DEF InitialMembers, Mem
  <1>8. CASE BarrierCannotStart(b, c, t, args, upd)
    <2> DEFINE d == [Quiet EXCEPT !.start = {b}, !.pass = {b}, !.updates = upd,
                            !.wait = [calls EXCEPT ![b] = {}],
                            !.at = [reached EXCEPT ![b] = {}],
                            !.answers = {Reply(t, b, "failed")}]
    <2>1. PICK mem \in SUBSET Task :
            /\ members' = [members EXCEPT ![b] = mem]
            /\ args = {} => mem = InitialMembers(b, args)
      BY <1>8 DEF BarrierCannotStart
    <2>2. NewInstance(b, c) /\ counter' = [counter EXCEPT ![b] = InstanceCounter(b, c)] /\ Settle(d)
      BY <1>8 DEF BarrierCannotStart
    <2>3. EffectType(d)
      BY <1>1 DEF EffectType, Quiet, TypeOK, Reply, ReplySet
    <2>4. /\ d.start = {b} /\ d.pass = {b}
          /\ \A x \in BarrierId \ {b} : d.wait[x] = calls[x] /\ d.at[x] = reached[x]
          /\ d.wait[b] = {} /\ d.inc = callInc
          /\ d.errs = {} /\ d.leave = {} /\ d.late = {} /\ ~d.propagate /\ d.res = "failed"
          /\ d.answers = {Reply(t, b, "failed")}
          /\ d.updates = upd /\ d.conn = {} /\ d.disc = {}
      BY <1>1 DEF Quiet, TypeOK
    <2> HIDE DEF d
    <2>5. d.start = Start(b, c)
      BY <2>2, <2>4 DEF Start
    <2>6. b \notin ongoing /\ b \in d.pass
      BY <2>2, <2>4, NewIsNotOngoing
    <2>7. BarrierEffect(b, c, d, mem)
      BY <2>1, <2>2, <2>4, <2>5, <2>6 DEF BarrierEffect
    <2>8. Proper(d)
      BY <1>1, <2>3, <2>7, BarrierProper
    <2>9. b = Register => mem = Task /\ ~passed[b]
      BY <1>d, <2>1, <2>2, RegisterStarts
    <2>10. Careful(d)
      <3>1. BarrierRecord(b, c, t, args, upd, d, mem)
        BY <1>f, <2>2, <2>4, <2>6, <2>9 DEF BarrierRecord, Reply
      <3> QED BY <2>3, <2>7, <3>1, BarrierCareful
    <2>11. CallEffect(b, c, t, args, d)
      <3>1. members'[b] = mem /\ \A x \in BarrierId \ {b} : members'[x] = members[x]
        BY <1>1, <2>1 DEF TypeOK
      <3> QED BY <1>e, <2>1, <2>4, <3>1 DEF CallEffect, Reply
    <2> QED BY <2>2, <2>8, <2>10, <2>11 DEF Handled
  <1>9. CASE BarrierCallFails(b, c, t, args, upd)
    <2> DEFINE d == [Quiet EXCEPT !.start = Start(b, c), !.pass = {b}, !.updates = upd,
                            !.wait = Wait(b, c, t), !.inc = Inc(b, t),
                            !.at = [reached EXCEPT ![b] = At(b, c)],
                            !.answers = Cancelled(b, c, t)]
    <2>1. AddBarrierCallback(b, c, t, args) /\ Settle(d)
      BY <1>9 DEF BarrierCallFails
    <2>2. /\ d.start = Start(b, c) /\ d.pass = {b} /\ d.wait = Wait(b, c, t)
          /\ d.at = [reached EXCEPT ![b] = At(b, c)] /\ d.inc = Inc(b, t)
          /\ d.errs = {} /\ d.leave = {} /\ d.late = {} /\ ~d.propagate /\ d.res = "failed"
          /\ d.answers = Cancelled(b, c, t)
          /\ d.updates = upd /\ d.conn = {} /\ d.disc = {}
      BY DEF Quiet
    <2>3. EffectType(d)
      BY <1>1, <1>2, <1>3, <1>4, <1>5, <1>6 DEF EffectType, Quiet, Start
    <2> HIDE DEF d
    <2>4. \A x \in BarrierId \ {b} : d.wait[x] = calls[x] /\ d.at[x] = reached[x]
      BY <1>4, <1>5, <1>6, <2>2
    <2>5. counter' = IF NewInstance(b, c) THEN [counter EXCEPT ![b] = InstanceCounter(b, c)]
                                          ELSE counter
      BY <2>1 DEF AddBarrierCallback
    <2>6. BarrierEffect(b, c, d, Mem(b, c, args))
      BY <1>7, <2>1, <2>2, <2>4, <2>5 DEF BarrierEffect
    <2>7. Proper(d)
      BY <1>1, <2>3, <2>6, BarrierProper
    <2>8. b # Register
      <3> SUFFICES ASSUME b = Register PROVE FALSE
        OBVIOUS
      <3>1. CounterMismatch(Register, 0) \/ ~ArgsAgree(Mem(Register, 0, {}), {}, t)
        BY <1>9, <1>d DEF BarrierCallFails
      <3>2. CASE ~NewInstance(Register, 0)
        BY <3>1, <3>2, RegisterAgrees DEF Mem
      <3>3. CASE NewInstance(Register, 0)
        BY <3>1, <3>3, RegisterStarts DEF Mem, CounterMismatch, ArgsAgree
      <3> QED BY <3>2, <3>3
    <2>9. b \in ongoing => calls[b] \subseteq d.wait[b]
      BY <1>4, <2>2, NewIsNotOngoing
    <2>10. Careful(d)
      <3>1. BarrierRecord(b, c, t, args, upd, d, Mem(b, c, args))
        BY <1>c, <1>f, <2>2, <2>8, <2>9 DEF BarrierRecord
      <3> QED BY <2>3, <2>6, <3>1, BarrierCareful
    <2>11. CallEffect(b, c, t, args, d)
      <3>1. /\ members'[b] = Mem(b, c, args)
            /\ \A x \in BarrierId \ {b} : members'[x] = members[x]
        BY <1>1, <1>7, <2>1 DEF TypeOK
      <3>2. args = {} => /\ b \in d.start => members'[b] \in {members[b], Task} \ {{}}
                         /\ b \notin d.start => members'[b] = members[b]
        BY <1>e, <2>2, <3>1 DEF Start
      <3>3. t \in d.wait[b] /\ d.wait[b] \subseteq calls[b] \cup {t}
        BY <1>4, <2>2
      <3>4. \A x \in BarrierId \ {b} : x \notin d.start \cup d.pass
        BY <2>2 DEF Start
      <3> QED BY <2>2, <2>4, <3>1, <3>2, <3>3, <3>4 DEF CallEffect
    <2> QED BY <2>1, <2>7, <2>10, <2>11 DEF Handled
  <1>10. CASE RepeatBarrierResult(b, c, t, args, upd)
    <2> DEFINE disc == {t} \cap {u \in Task : b = Shutdown /\ state[u] # "DISCONNECTED"}
               conn == {t} \cap {u \in Task : b = Register /\ result[b] = "ok"}
               ans == Answer(b, t, IF b = Shutdown /\ disc = {} THEN "failed" ELSE result[b],
                             incarnation'[t], incarnation'[t])
               d == [Quiet EXCEPT !.conn = conn, !.disc = disc,
                       !.updates = upd + Cardinality(conn) + Cardinality(disc),
                       !.answers = Cancelled(b, c, t) \cup {ans}]
    <2>1. /\ AddBarrierCallback(b, c, t, args) /\ ~NewInstance(b, c) /\ passed[b]
          /\ Settle(d)
      BY <1>10 DEF RepeatBarrierResult
    <2>2. /\ d.start = {} /\ d.wait = calls /\ d.at = reached /\ d.inc = callInc
          /\ d.errs = {} /\ d.pass = {} /\ d.leave = {} /\ ~d.propagate
          /\ conn # {} => disc = {}
          /\ d.updates = upd + Cardinality(conn) + Cardinality(disc)
          /\ d.conn = conn /\ d.disc = disc /\ d.answers = Cancelled(b, c, t) \cup {ans}
      BY BarrierAssumption DEF Quiet
    <2>3. ans \in ReplySet
      <3>1. (IF b = Shutdown /\ disc = {} THEN "failed" ELSE result[b])
              \in {"none", "ok", "cancelled", "failed"}
        BY <1>1 DEF TypeOK
      <3> QED BY <3>1, AnswerType
    <2>4. conn \subseteq Task /\ disc \subseteq Task
      OBVIOUS
    <2>a. /\ ans.st = "ok" => passed[ans.of] /\ result[ans.of] = "ok"
          /\ ans.to = t /\ ans.of = b
      BY <2>1 DEF Answer, Reply
    <2> HIDE DEF conn, disc, ans
    <2>5. EffectType(d)
      BY <1>1, <1>2, <2>3, <2>4 DEF EffectType, Quiet, TypeOK
    <2> HIDE DEF d
    <2>6. members' = members /\ counter' = counter
      BY <1>1, <2>1 DEF AddBarrierCallback, Mem, TypeOK
    <2>7. d.updates \in Nat /\ (d.updates = 0 => upd = 0 /\ conn = {} /\ disc = {})
      BY <2>2, <2>4, UpdatesCounted
    <2>8. Reincarnates(d)
      <3>1. CASE b # Register
        BY <3>1 DEF Reincarnates
      <3>2. CASE b = Register
        <4>1. calls[Register] = {}
          BY <2>1, <3>2 DEF IInv, Bookkeeping
        <4>2. ASSUME MayRegister(t) PROVE state[t] # "CONNECTED"
          BY <4>2 DEF MayRegister, IInv, StatusMeansError
        <4> QED BY <4>1, <4>2 DEF Reincarnates
      <3> QED BY <3>1, <3>2
    <2>9. \A r \in d.answers : r.st = "ok" => passed[r.of] /\ result[r.of] = "ok"
      BY <1>c, <2>2, <2>a
    <2>10. incarnation' = incarnation \/ upd # 0
      OBVIOUS
    <2>b. b \notin ongoing
      BY <2>1 DEF IInv, Bookkeeping
    <2>c. \A r \in d.answers : Definite(r) => /\ r.of \notin ongoing \cup d.pass
                                             /\ \A q \in d.answers : Definite(q) => q = r
      BY <1>c, <2>2, <2>a, <2>b
    <2>11. Simple(d)
      BY <2>2, <2>5, <2>6, <2>7, <2>8, <2>9, <2>10, <2>c DEF Simple
    <2>12. CallEffect(b, c, t, args, d)
      <3>1. calls[b] = {}
        BY <2>b DEF IInv, Bookkeeping
      <3> QED BY <2>1, <2>2, <2>6, <2>a, <3>1 DEF CallEffect
    <2> QED BY <2>1, <2>11, <2>12, SimpleHandled
  <1>11. CASE ReachBarrier(b, c, t, args, upd)
    <2> DEFINE last == LastToReach(b, c, t, args)
               conn == {u \in Wait(b, c, t)[b] :
                          last /\ b = Register /\ Inc(b, t)[b][u] = incarnation'[u]}
               disc == {u \in Task : /\ last /\ b = Shutdown
                                     /\ ~Recoverable /\ state[u] # "DISCONNECTED"}
               d == [Quiet EXCEPT !.start = Start(b, c),
                       !.wait = Wait(b, c, t), !.inc = Inc(b, t),
                       !.at = [reached EXCEPT ![b] = At(b, c) \cup {t}],
                       !.pass = IF last THEN {b} ELSE {},
                       !.res = "ok",
                       !.conn = conn, !.disc = disc,
                       !.updates = upd + Cardinality(conn) + Cardinality(disc),
                       !.answers = Cancelled(b, c, t)]
               mem == Mem(b, c, args)
    <2>1. /\ AddBarrierCallback(b, c, t, args)
          /\ ~CounterMismatch(b, c) /\ ArgsAgree(mem, args, t)
          /\ ~(~NewInstance(b, c) /\ passed[b] /\ c = counter[b])
          /\ Settle(d)
      BY <1>11 DEF ReachBarrier
    <2>2. /\ d.start = Start(b, c) /\ d.wait = Wait(b, c, t)
          /\ d.pass = IF last THEN {b} ELSE {}
          /\ d.at = [reached EXCEPT ![b] = At(b, c) \cup {t}] /\ d.inc = Inc(b, t)
          /\ d.errs = {} /\ d.leave = {} /\ d.late = {} /\ ~d.propagate /\ d.res = "ok"
          /\ d.answers = Cancelled(b, c, t)
          /\ d.updates = upd + Cardinality(conn) + Cardinality(disc)
          /\ d.conn = conn /\ d.disc = disc
      BY DEF Quiet
    <2>3. /\ conn \subseteq Task /\ disc \subseteq Task /\ (~last => disc = {})
          /\ conn # {} => disc = {}
      BY <1>4, BarrierAssumption
    <2> HIDE DEF conn, disc
    <2>4. EffectType(d)
      BY <1>1, <1>2, <1>3, <1>4, <1>5, <1>6, <2>3 DEF EffectType, Quiet, Start
    <2> HIDE DEF d
    <2>5. \A x \in BarrierId \ {b} : d.wait[x] = calls[x] /\ d.at[x] = reached[x]
      BY <1>4, <1>5, <1>6, <2>2
    <2>6. counter' = IF NewInstance(b, c) THEN [counter EXCEPT ![b] = InstanceCounter(b, c)]
                                          ELSE counter
      BY <2>1 DEF AddBarrierCallback
    <2>7. /\ mem \in SUBSET Task /\ members' = [members EXCEPT ![b] = mem]
          /\ b \in ongoing => mem = members[b]
      BY <1>7, <2>1
    <2>8. b \in ongoing \cup d.start
      BY <2>1, <2>2, OldIsOngoing DEF Start
    <2>9. t \in mem
      BY <2>1, <2>7, TaskSets DEF ArgsAgree
    <2>10. At(b, c) \subseteq mem /\ (b \in ongoing => At(b, c) = reached[b])
      <3>1. CASE NewInstance(b, c)
        BY <3>1, NewIsNotOngoing DEF At
      <3>2. CASE ~NewInstance(b, c)
        <4>1. b \in ongoing /\ mem = members[b] /\ At(b, c) = reached[b]
          BY <2>2, <2>7, <2>8, <3>2 DEF At, Start
        <4>2. reached[b] \subseteq members[b]
          BY <4>1 DEF IInv, Bookkeeping
        <4> QED BY <4>1, <4>2
      <3> QED BY <3>1, <3>2
    <2>11. d.wait[b] = d.at[b] /\ d.at[b] = At(b, c) \cup {t}
      <3>1. d.at[b] = At(b, c) \cup {t}
        BY <1>5, <1>6, <2>2
      <3>2. CASE NewInstance(b, c)
        BY <1>4, <2>2, <3>1, <3>2 DEF At
      <3>3. CASE ~NewInstance(b, c)
        <4>1. b \in ongoing /\ At(b, c) = reached[b]
          BY <2>2, <2>8, <3>3 DEF At, Start
        <4>2. calls[b] = reached[b]
          BY <4>1 DEF IInv, Bookkeeping
        <4> QED BY <1>4, <2>2, <3>1, <3>3, <4>1, <4>2
      <3> QED BY <3>2, <3>3
    <2>a. NumPending(b, c, args) = Cardinality(mem \ At(b, c)) /\ mem \ At(b, c) # {}
      <3>1. CASE NewInstance(b, c)
        <4>1. At(b, c) = {} /\ mem \ At(b, c) = mem
          BY <3>1 DEF At
        <4> QED BY <2>9, <3>1, <4>1 DEF NumPending
      <3>2. CASE ~NewInstance(b, c)
        <4>1. b \in ongoing /\ mem = members[b] /\ At(b, c) = reached[b]
          BY <2>2, <2>7, <2>8, <3>2 DEF At, Start
        <4> QED BY <3>2, <4>1, OngoingWaits DEF NumPending, IInv, Bookkeeping, TypeOK
      <3> QED BY <3>1, <3>2
    <2>12. ASSUME ~last PROVE mem \ (At(b, c) \cup {t}) # {}
      <3>1. NumPending(b, c, args) = Cardinality(mem \ At(b, c)) /\ mem \ At(b, c) # {}
        BY <2>a
      <3>2. CASE t \in At(b, c)
        <4>1. At(b, c) \cup {t} = At(b, c)
          BY <3>2
        <4> QED BY <3>1, <4>1
      <3>3. CASE t \notin At(b, c)
        <4>1. Cardinality(mem \ At(b, c)) # 1
          BY <2>12, <3>1, <3>3 DEF LastToReach
        <4> QED BY <2>7, <2>9, <2>10, <3>3, <4>1, OneMore
      <3> QED BY <3>2, <3>3
    <2>13. BarrierEffect(b, c, d, mem)
      <3>1. CASE last
        BY <2>2, <2>5, <2>6, <2>7, <3>1 DEF BarrierEffect
      <3>2. CASE ~last
        BY <2>2, <2>5, <2>6, <2>7, <2>8, <2>9, <2>10, <2>11, <2>12, <3>2 DEF BarrierEffect
      <3> QED BY <3>1, <3>2
    <2>14. Proper(d)
      BY <1>1, <2>4, <2>13, BarrierProper
    <2>15. b = Register => mem = Task /\ ~passed[b]
      <3>1. CASE NewInstance(b, c)
        BY <1>d, <3>1, RegisterStarts DEF Mem
      <3>2. CASE ~NewInstance(b, c)
        <4>1. b = Register => counter[b] = 0
          BY DEF IInv, Idle
        <4> QED BY <1>d, <2>1, <3>2, <4>1, RegisterAgrees DEF Mem
      <3> QED BY <3>1, <3>2
    <2>16. b \in ongoing => calls[b] \subseteq d.wait[b]
      BY <1>4, <2>2, NewIsNotOngoing
    <2>17. b \in d.pass => d.wait[b] = mem
      <3> SUFFICES ASSUME last PROVE At(b, c) \cup {t} = mem
        BY <2>2, <2>11
      <3>1. t \notin At(b, c) /\ Cardinality(mem \ At(b, c)) = 1
        BY <2>a DEF LastToReach
      <3>2. IsFiniteSet(mem \ At(b, c))
        BY <2>7, TaskSets
      <3>3. PICK x : mem \ At(b, c) = {x}
        BY <3>1, <3>2, FS_Singleton
      <3> QED BY <2>9, <2>10, <3>1, <3>3
    <2>18. d.updates \in Nat /\ (d.updates = 0 => upd = 0 /\ d.conn = {} /\ d.disc = {})
      <3>1. /\ conn \subseteq Task /\ disc \subseteq Task /\ upd \in Nat
            /\ d.updates = upd + Cardinality(conn) + Cardinality(disc)
            /\ d.conn = conn /\ d.disc = disc
        BY <2>2, <2>3
      <3> QED BY ONLY <3>1, UpdatesCounted
    <2>19. b \in d.start \ d.pass => /\ d.disc = {} /\ CanStart(b, args)
                                     /\ mem = InitialMembers(b, args)
      BY <2>1, <2>2, <2>3 DEF Start, AddBarrierCallback, Mem
    <2>20. d.pass \subseteq {b}
      BY <2>2
    <2>21. Careful(d)
      <3> HIDE DEF last, mem
      <3>1. BarrierRecord(b, c, t, args, upd, d, mem)
        BY <1>c, <1>f, <2>2, <2>3, <2>15, <2>16, <2>17, <2>18, <2>19, <2>20 DEF BarrierRecord
      <3> QED BY <2>4, <2>13, <3>1, BarrierCareful
    <2>22. ~Recoverable => counter'[b] = c
      <3>1. CASE NewInstance(b, c)
        <4>1. counter'[b] = InstanceCounter(b, c)
          BY <1>1, <2>6, <3>1 DEF TypeOK
        <4> QED BY <4>1 DEF InstanceCounter, Rejoins
      <3>2. CASE ~NewInstance(b, c)
        BY <2>1, <2>6, <3>2 DEF CounterMismatch
      <3> QED BY <3>1, <3>2
    <2>23. CallEffect(b, c, t, args, d)
      <3>1. members'[b] = mem /\ \A x \in BarrierId \ {b} : members'[x] = members[x]
        BY <1>1, <2>7 DEF TypeOK
      <3>2. args = {} => /\ b \in d.start => members'[b] \in {members[b], Task} \ {{}}
                         /\ b \notin d.start => members'[b] = members[b]
        BY <1>e, <2>2, <3>1 DEF Start
      <3>3. t \in d.wait[b] /\ d.wait[b] \subseteq calls[b] \cup {t}
        BY <1>4, <2>2
      <3>4. \A x \in BarrierId \ {b} : x \notin d.start \cup d.pass
        BY <2>2, <2>20 DEF Start
      <3> HIDE DEF mem, last
      <3> QED BY <2>5, <2>22, <3>1, <3>2, <3>3, <3>4 DEF CallEffect
    <2> QED BY <2>1, <2>14, <2>21, <2>23 DEF Handled
  <1> QED BY <1>8, <1>9, <1>10, <1>11 DEF BarrierAsyncLocked

-----------------------------------------------------------------------------
(* The specification *)

LEMMA InitIInv == Init => IInv
  <1> SUFFICES ASSUME Init PROVE IInv
    OBVIOUS
  <1>1. TypeOK
    <2>1. 0 \in Incarnation
      BY InputAssumption DEF Incarnation
    <2>2. /\ callInc \in [BarrierId -> [Task -> Incarnation]]
          /\ aliveCalls \in [AliveArgs -> SUBSET (Task \X Incarnation)]
          /\ known \in [Watcher -> JobState \cup {Behind}]
      BY <2>1 DEF Init
    <2>3. /\ state \in [Task -> TaskStates] /\ incarnation \in [Task -> Incarnation]
          /\ joined \in [Task -> SUBSET BarrierId]
      BY <2>1 DEF Init, TaskStates
    <2>4. /\ passed \in [BarrierId -> BOOLEAN] /\ members \in [BarrierId -> SUBSET Task]
          /\ reached \in [BarrierId -> SUBSET Task] /\ calls \in [BarrierId -> SUBSET Task]
          /\ counter \in [BarrierId -> Nat] /\ pending \in [BarrierId -> Int]
      BY DEF Init
    <2> QED BY <2>2, <2>3, <2>4 DEF Init, TypeOK
  <1>2. Bookkeeping /\ Idle
    BY BarrierAssumption DEF Init, Bookkeeping, Idle, BarrierId
  <1>3. Registering /\ StatusMeansError
    BY DEF Init, Registering, StatusMeansError, BarrierId
  <1>4. NoBarrierWaitsForFailedTask /\ WaitingRegistrationIsCurrent
    BY DEF Init, NoBarrierWaitsForFailedTask, WaitingRegistrationIsCurrent, BarrierId
  <1> QED BY <1>1, <1>2, <1>3, <1>4 DEF IInv

\* A step that leaves the barriers and the tasks alone.
LEMMA FrameKeeps ==
    ASSUME IInv, TypeOK',
           UNCHANGED <<state, status, incarnation, joined, counter, passed, result, members,
                       reached, pending, calls, callInc, ongoing>>,
           polls' # {} => polling' /\ (RegisterWithBarrier => result[Register] = "ok")
    PROVE  IInv'
  BY DEF IInv, Bookkeeping, Idle, Registering, StatusMeansError, NoBarrierWaitsForFailedTask,
         WaitingRegistrationIsCurrent

\* A handler whose own effects are errors, disconnections or passed barriers.
Failure(d) ==
    /\ d.start = {} /\ d.wait = calls /\ d.at = reached /\ d.inc = callInc
    /\ d.conn = {} /\ d.leave = {} /\ d.answers = {} /\ d.res # "ok"
    /\ d.errs # {} => d.propagate
    /\ Register \in d.pass => Register \in ongoing
    /\ d.updates \in Nat
    /\ d.updates = 0 => d.disc = {}

LEMMA FailureHandled ==
    ASSUME IInv, NEW d, EffectType(d), Failure(d), Settle(d), ~stopped,
           UNCHANGED <<stopped, polling, incarnation, counter, members>>
    PROVE  \E e : Handled(e) /\ Settle(e) /\ Simple(e)
  <1>1. Simple(d)
    BY DEF Failure, Simple, Reincarnates, IInv, TypeOK
  <1> QED BY <1>1, SimpleHandled

\* A task fails because it registers or sends a heartbeat as another incarnation,
\* or reports an error.
LEMMA ErrorHandled ==
    ASSUME IInv, NEW t \in Task, ~stopped,
           UNCHANGED <<stopped, polling, incarnation, counter, members>>,
           Settle([Quiet EXCEPT !.errs = {t}, !.propagate = TRUE])
    PROVE  \E d : Handled(d) /\ Settle(d) /\ Simple(d)
  <1> DEFINE d == [Quiet EXCEPT !.errs = {t}, !.propagate = TRUE]
  <1>1. EffectType(d) /\ Failure(d) /\ Settle(d)
    BY QuietType DEF EffectType, Failure, Quiet, IInv
  <1> HIDE DEF d
  <1> QED BY <1>1, FailureHandled

LEMMA ReportHandled ==
    ASSUME IInv, NEW t \in Task, NEW kind \in {"other", "unavailable"}, ReportTaskError(t, kind)
    PROVE  \E d : Handled(d) /\ Settle(d) /\ Simple(d)
  <1> DEFINE d == [Quiet EXCEPT !.errs = {t}, !.kind = kind, !.propagate = TRUE]
  <1>1. /\ UNCHANGED <<stopped, polling, incarnation, counter, members>>
        /\ ~stopped /\ Settle(d)
    BY DEF ReportTaskError
  <1>2. EffectType(d) /\ Failure(d)
    BY QuietType DEF EffectType, Failure, Quiet, IInv
  <1> HIDE DEF d
  <1> QED BY <1>1, <1>2, FailureHandled

\* RegisterTaskAsync calls no barrier or the register barrier.
LEMMA RegisterHandled ==
    ASSUME IInv, NEW t \in Task, NEW i \in 1 .. MaxIncarnation, RegisterTaskAsync(t, i)
    PROVE  \E d : Handled(d) /\ Settle(d) /\ (Simple(d) \/ CallEffect(Register, 0, t, {}, d))
  <1>1. TypeOK /\ ~stopped /\ stopped' = stopped /\ polling' = polling
    BY DEF IInv, RegisterTaskAsync
  <1>2. [incarnation EXCEPT ![t] = i] \in [Task -> Incarnation]
    BY <1>1, InputAssumption DEF TypeOK, Incarnation
  <1>3. MayRegister(t) => state[t] # "CONNECTED"
    BY DEF MayRegister, IInv, StatusMeansError
  <1>4. CASE RegisterAtBarrier(t, i)
    <2>1. /\ incarnation' = [incarnation EXCEPT ![t] = i]
          /\ BarrierAsyncLocked(Register, 0, t, {}, 1)
          /\ MayRegister(t) /\ RegisterWithBarrier
      BY <1>4 DEF RegisterAtBarrier
    <2>2. Calling(Register, 0, t, {}, 1)
      BY <1>1, <1>2, <2>1 DEF Calling, BarrierId, TypeOK
    <2> QED BY <2>1, <2>2, BarrierStep
  <1>5. CASE RegisterDirectly(t, i)
    <2> DEFINE d == [Quiet EXCEPT !.conn = {t}, !.leave = {t}, !.updates = 2]
    <2>1. /\ incarnation' = [incarnation EXCEPT ![t] = i]
          /\ Settle(d) /\ members' = members /\ counter' = counter
          /\ \/ MayRegister(t) /\ ~RegisterWithBarrier
             \/ incarnation[t] = i \/ Recoverable
      BY <1>5 DEF RegisterDirectly, ConnectTask
    <2>2. /\ EffectType(d) /\ d.start = {} /\ d.wait = calls /\ d.at = reached
          /\ d.inc = callInc /\ d.errs = {} /\ d.pass = {} /\ d.leave = {t}
          /\ d.disc = {} /\ ~d.propagate
          /\ d.answers = {} /\ d.updates = 2
      BY <1>1, QuietType DEF EffectType, Quiet
    <2> HIDE DEF d
    <2>3. \A u \in Task : u # t => incarnation'[u] = incarnation[u]
      BY <1>1, <2>1 DEF TypeOK
    <2>4. incarnation[t] = i => incarnation' = incarnation
      BY <1>1, <2>1 DEF TypeOK
    <2>5. ~RegisterWithBarrier => calls[Register] = {}
      BY DEF IInv, Registering, Bookkeeping, BarrierId
    <2>6. Reincarnates(d)
      BY <1>3, <2>1, <2>2, <2>3, <2>4, <2>5 DEF Reincarnates
    <2>7. Simple(d)
      BY <1>1, <1>2, <2>1, <2>2, <2>6 DEF Simple
    <2> QED BY <2>1, <2>7, SimpleHandled
  <1>6. CASE RegisterRejected(t, i)
    <2> DEFINE d == [Quiet EXCEPT !.errs = {t}, !.propagate = TRUE]
    <2>1. UNCHANGED <<stopped, polling, incarnation, counter, members>> /\ Settle(d)
      BY <1>1, <1>6 DEF RegisterRejected
    <2> QED BY <1>1, <2>1, ErrorHandled
  <1> QED BY <1>4, <1>5, <1>6 DEF RegisterTaskAsync

LEMMA DisconnectHandled ==
    ASSUME IInv, NEW t \in Task, DisconnectTask(t), ~stopped, UNCHANGED <<stopped, polling>>
    PROVE  \E d : Handled(d) /\ Settle(d) /\ Simple(d)
  <1> DEFINE d == [Quiet EXCEPT !.disc = {t}, !.updates = 1]
  <1>1. UNCHANGED <<stopped, polling, incarnation, counter, members>> /\ Settle(d)
    BY DEF DisconnectTask
  <1>2. EffectType(d) /\ Failure(d)
    BY QuietType DEF EffectType, Failure, Quiet, IInv
  <1> HIDE DEF d
  <1> QED BY <1>1, <1>2, FailureHandled

\* ShutdownTaskAsync calls the shutdown barrier or disconnects the task.
LEMMA ShutdownHandled ==
    ASSUME IInv, NEW t \in Task, ShutdownTaskAsync(t)
    PROVE  \E d : Handled(d) /\ Settle(d) /\ (Simple(d) \/ CallEffect(Shutdown, 0, t, Task, d))
  <1>1. TypeOK /\ ~stopped /\ UNCHANGED <<stopped, polling>>
    BY DEF ShutdownTaskAsync, IInv
  <1>2. CASE DisconnectTask(t)
    BY <1>1, <1>2, DisconnectHandled
  <1>3. CASE UNCHANGED incarnation /\ BarrierAsyncLocked(Shutdown, 0, t, Task, 0)
    <2>1. Calling(Shutdown, 0, t, Task, 0)
      BY <1>1, <1>3, BarrierAssumption DEF Calling, BarrierId, TypeOK
    <2> QED BY <1>3, <2>1, BarrierStep
  <1> QED BY <1>2, <1>3 DEF ShutdownTaskAsync

LEMMA CancelHandled ==
    ASSUME IInv, NEW b \in Barrier, NEW c, CancelBarrier(b, c)
    PROVE  \E d : Handled(d) /\ Settle(d) /\ Simple(d)
  <1> DEFINE d == [Quiet EXCEPT !.pass = {b}, !.res = "cancelled"]
  <1>1. /\ UNCHANGED <<stopped, polling, incarnation, counter, members>>
        /\ ~stopped /\ Settle(d) /\ TypeOK
    BY DEF CancelBarrier, IInv
  <1>2. EffectType(d) /\ Failure(d)
    BY <1>1, QuietType, BarrierAssumption DEF EffectType, Failure, Quiet, BarrierId
  <1> HIDE DEF d
  <1> QED BY <1>1, <1>2, FailureHandled

LEMMA StalenessHandled ==
    ASSUME IInv, CheckStaleness
    PROVE  \E d : Handled(d) /\ Settle(d) /\ Simple(d)
  <1> DEFINE D(late) == [Quiet EXCEPT !.errs = StaleTasks, !.kind = "unavailable",
                                !.propagate = (StaleTasks # {}),
                                !.pass = ExpiredBarriers, !.late = late]
  <1>0. PICK late : Settle(D(late))
    BY DEF CheckStaleness
  <1> DEFINE d == D(late)
  <1>1. /\ UNCHANGED <<stopped, polling, incarnation, counter, members>>
        /\ ~stopped /\ Settle(d) /\ TypeOK
    BY <1>0 DEF CheckStaleness, IInv
  <1>2. StaleTasks \subseteq Task /\ ExpiredBarriers \subseteq ongoing
    BY <1>1 DEF TypeOK, StaleTasks, ExpiredBarriers
  <1>3. EffectType(d) /\ Failure(d)
    BY <1>1, <1>2, QuietType DEF EffectType, Failure, Quiet, TypeOK
  <1> HIDE DEF d
  <1> QED BY <1>1, <1>3, FailureHandled

\* Stop aborts the ongoing barriers: what its record is, and what it answers.
LEMMA StopAborts ==
    ASSUME IInv, Stop
    PROVE  \E d, err, left :
             /\ EffectType(d) /\ d.wait = calls /\ d.answers = {} /\ d.pass = ongoing /\ d.res = "failed"
             /\ err \subseteq Task /\ left \in [BarrierId -> SUBSET Task]
             /\ RefreshAliveness(d, err, incarnation)
             /\ \/ known' = [c \in Watcher |-> IF c \in watching THEN Behind ELSE known[c]]
                \/ \E n : known' = [c \in Watcher |->
                             IF n = 1 /\ c \in watching THEN JobWithErrors(err) ELSE Behind]
             /\ watching' = {}
             /\ replies' = RepliesSent(d, ongoing, left) \cup
                  {Reply(t, "poll", "cancelled") : t \in {u \in polls : ~Responds(d, ongoing)}}
  <1>1. PICK late : LET d == Aborted(late)
                        err == Errors(d)
                        left == [b \in BarrierId |-> Left(b, d, err)]
                    IN  /\ RefreshAliveness(d, err, incarnation)
                        /\ IF err = {}
                           THEN /\ known' = [c \in Watcher |-> IF c \in watching THEN Behind ELSE known[c]]
                                /\ watching' = {}
                           ELSE ClusterStateUpdated(Cardinality(err), JobWithErrors(err))
                        /\ replies' = RepliesSent(d, ongoing, left) \cup
                              {Reply(t, "poll", "cancelled") : t \in {u \in polls : ~Responds(d, ongoing)}}
    BY DEF Stop
  <1> DEFINE d == Aborted(late)
             err == Errors(d)
             left == [b \in BarrierId |-> Left(b, d, err)]
  <1>2. /\ EffectType(d) /\ d.wait = calls /\ d.answers = {} /\ d.pass = ongoing /\ d.res = "failed"
    BY QuietType DEF Aborted, Quiet, EffectType, IInv, TypeOK
  <1>3. err \subseteq Task /\ left \in [BarrierId -> SUBSET Task]
    BY <1>2, SettleParameters DEF IInv
  <1>4. /\ RefreshAliveness(d, err, incarnation)
        /\ replies' = RepliesSent(d, ongoing, left) \cup
             {Reply(t, "poll", "cancelled") : t \in {u \in polls : ~Responds(d, ongoing)}}
    BY <1>1
  <1>5. IF err = {}
        THEN /\ known' = [c \in Watcher |-> IF c \in watching THEN Behind ELSE known[c]]
             /\ watching' = {}
        ELSE ClusterStateUpdated(Cardinality(err), JobWithErrors(err))
    BY <1>1
  <1> HIDE DEF d, err, left
  <1>6. err # {} => Cardinality(err) # 0
    BY <1>3, TaskSets
  <1>7. /\ \/ known' = [c \in Watcher |-> IF c \in watching THEN Behind ELSE known[c]]
           \/ \E n : known' = [c \in Watcher |->
                        IF n = 1 /\ c \in watching THEN JobWithErrors(err) ELSE Behind]
        /\ watching' = {}
    BY <1>5, <1>6 DEF ClusterStateUpdated
  <1> QED BY <1>2, <1>3, <1>4, <1>7

\* The steps that do not end in Settle.
Otherwise ==
    \/ \E t \in Task, i \in 1 .. MaxIncarnation :
         RecordHeartbeat(t, i) /\ (incarnation[t] = i \/ Recoverable)
    \/ \E t \in Task, S \in AliveArgs : GetAliveTasksAsync(t, S)
    \/ \E t \in Task : RejectAfterStop(t)
    \/ \E t \in Task \cup {Unknown} : PollForErrorAsync(t)
    \/ \E c \in Watcher : WatchTasks(c)
    \/ Clock
    \/ Stop

\* Every other step is Settle(d) for a record d that satisfies Handled(d): what
\* the theorems below argue from.
ServiceStep == Otherwise \/ \E d : Handled(d) /\ Settle(d)

LEMMA EveryStep ==
    ASSUME IInv, Next
    PROVE  ServiceStep
  <1> DEFINE Goal == Otherwise \/ \E d : Handled(d) /\ Settle(d)
  <1>1. TypeOK
    BY DEF IInv
  <1>2. ASSUME NEW t \in Task, NEW i \in 1 .. MaxIncarnation, RegisterTaskAsync(t, i)
        PROVE  Goal
    BY <1>2, RegisterHandled
  <1>3. ASSUME NEW t \in Task, NEW i \in 1 .. MaxIncarnation, RecordHeartbeat(t, i)
        PROVE  Goal
    <2>1. CASE incarnation[t] = i \/ Recoverable
      BY <1>3, <2>1 DEF Otherwise
    <2>2. CASE incarnation[t] # i /\ ~Recoverable
      BY <1>3, <2>2, ErrorHandled DEF RecordHeartbeat
    <2> QED BY <2>1, <2>2
  <1>4. ASSUME NEW t \in Task, ShutdownTaskAsync(t)
        PROVE  Goal
    BY <1>4, ShutdownHandled
  <1>5. ASSUME NEW t \in Task, ResetTask(t)
        PROVE  Goal
    BY <1>5, DisconnectHandled DEF ResetTask
  <1>6. ASSUME NEW t \in Task, NEW kind \in {"other", "unavailable"}, ReportTaskError(t, kind)
        PROVE  Goal
    BY <1>6, ReportHandled
  <1>7. ASSUME NEW t \in Task, NEW b \in Barrier, NEW c \in 0 .. MaxCounter,
               NEW args \in BarrierArgs, BarrierAsync(b, c, t, args)
        PROVE  Goal
    <2>1. ~stopped /\ UNCHANGED <<stopped, incarnation, polling>>
          /\ BarrierAsyncLocked(b, c, t, args, 0)
      BY <1>7 DEF BarrierAsync
    <2>2. Calling(b, c, t, args, 0)
      BY <1>1, <2>1, InputAssumption, BarrierAssumption DEF Calling, BarrierId, TypeOK
    <2> QED BY <2>1, <2>2, BarrierStep
  <1>8. ASSUME NEW b \in Barrier, NEW c \in 0 .. MaxCounter, CancelBarrier(b, c)
        PROVE  Goal
    BY <1>8, CancelHandled
  <1>9. ASSUME CheckStaleness PROVE Goal
    BY <1>9, StalenessHandled
  <1>10. ASSUME NEW t \in Task, NEW S \in AliveArgs, GetAliveTasksAsync(t, S) PROVE Goal
    BY <1>10 DEF Otherwise
  <1>11. ASSUME NEW t \in Task, RejectAfterStop(t) PROVE Goal
    BY <1>11 DEF Otherwise
  <1>12. ASSUME NEW t \in Task \cup {Unknown}, PollForErrorAsync(t) PROVE Goal
    BY <1>12 DEF Otherwise
  <1>13. ASSUME NEW c \in Watcher, WatchTasks(c) PROVE Goal
    BY <1>13 DEF Otherwise
  <1>14. ASSUME Clock \/ Stop PROVE Goal
    BY <1>14 DEF Otherwise
  <1> HIDE DEF Goal
  <1>15. ASSUME NEW t \in Task,
                \/ \E i \in 1 .. MaxIncarnation : RegisterTaskAsync(t, i) \/ RecordHeartbeat(t, i)
                \/ ShutdownTaskAsync(t) \/ ResetTask(t)
                \/ \E kind \in {"other", "unavailable"} : ReportTaskError(t, kind)
                \/ \E b \in Barrier, c \in 0 .. MaxCounter, args \in BarrierArgs :
                     BarrierAsync(b, c, t, args)
                \/ \E S \in AliveArgs : GetAliveTasksAsync(t, S)
                \/ RejectAfterStop(t)
         PROVE  Goal
    BY <1>2, <1>3, <1>4, <1>5, <1>6, <1>7, <1>10, <1>11, <1>15
  <1>16. Goal
    BY <1>8, <1>9, <1>12, <1>13, <1>14, <1>15 DEF Next
  <1> QED BY <1>16 DEF Goal, ServiceStep

LEMMA OtherwiseKeeps ==
    ASSUME IInv, Otherwise
    PROVE  IInv'
  <1>1. TypeOK /\ (polls # {} => polling /\ (RegisterWithBarrier => result[Register] = "ok"))
    BY DEF IInv, Registering
  <1>2. ASSUME NEW t \in Task, NEW i \in 1 .. MaxIncarnation, RecordHeartbeat(t, i),
               incarnation[t] = i \/ Recoverable
        PROVE  IInv'
    BY <1>1, <1>2, FrameKeeps DEF RecordHeartbeat, Silent, TypeOK, watchVars
  <1>3. ASSUME NEW t \in Task, NEW S \in AliveArgs, GetAliveTasksAsync(t, S)
        PROVE  IInv'
    <2>1. <<t, incarnation[t]>> \in Task \X Incarnation
      BY <1>1 DEF TypeOK
    <2>2. aliveCalls' \in [AliveArgs -> SUBSET (Task \X Incarnation)]
      BY <1>1, <1>3, <2>1 DEF GetAliveTasksAsync, TypeOK
    <2>3. aliveReplies' \subseteq [set : AliveArgs, alive : SUBSET (Task \X Incarnation)]
      BY <1>1, <1>3, InputAssumption DEF GetAliveTasksAsync, AliveTasks, TypeOK
    <2>4. TypeOK'
      BY <1>1, <1>3, <2>2, <2>3
         DEF GetAliveTasksAsync, TypeOK, taskVars, barrierVars, pollVars, watchVars
    <2> QED BY <1>1, <1>3, <2>4, FrameKeeps DEF GetAliveTasksAsync, taskVars, barrierVars, pollVars
  <1>4. ASSUME NEW t \in Task, RejectAfterStop(t)
        PROVE  IInv'
    <2>1. TypeOK'
      BY <1>1, <1>4
         DEF RejectAfterStop, TypeOK, Reply, taskVars, barrierVars, pollVars, watchVars
    <2> QED BY <1>1, <1>4, <2>1, FrameKeeps DEF RejectAfterStop, taskVars, barrierVars, pollVars
  <1>5. ASSUME NEW t \in Task \cup {Unknown}, PollForErrorAsync(t)
        PROVE  IInv'
    <2>1. TypeOK'
      BY <1>1, <1>5
         DEF PollForErrorAsync, TypeOK, Reply, taskVars, barrierVars, pollVars, watchVars
    <2>2. polls' # {} => polling' /\ (RegisterWithBarrier => result[Register] = "ok")
      BY <1>1, <1>5 DEF PollForErrorAsync, HasConnected
    <2> QED BY <1>5, <2>1, <2>2, FrameKeeps DEF PollForErrorAsync, taskVars, barrierVars
  <1>6. ASSUME NEW c \in Watcher, WatchTasks(c)
        PROVE  IInv'
    <2>1. JobNow \in JobState
      BY <1>1 DEF JobNow, JobState, TypeOK
    <2>2. known' \in [Watcher -> JobState \cup {Behind}] /\ watching' \subseteq Watcher
      BY <1>1, <1>6, <2>1 DEF WatchTasks, TypeOK
    <2>3. TypeOK'
      BY <1>1, <1>6, <2>2
         DEF WatchTasks, TypeOK, Silent, taskVars, barrierVars, pollVars
    <2> QED BY <1>1, <1>6, <2>3, FrameKeeps DEF WatchTasks, taskVars, barrierVars, pollVars
  <1>7. CASE Clock
    <2>1. TypeOK' /\ UNCHANGED <<state, status, incarnation, joined>>
      BY <1>1, <1>7
         DEF Clock, HeartbeatLapses, DeadlinePasses, GraceEnds, Silent, TypeOK,
             taskVars, pollVars, watchVars
    <2> QED BY <1>1, <1>7, <2>1, FrameKeeps DEF Clock, pollVars
  <1>8. CASE Stop
    <2>a. PICK d, err, left :
             /\ EffectType(d) /\ d.wait = calls /\ d.answers = {} /\ d.pass = ongoing /\ d.res = "failed"
             /\ err \subseteq Task /\ left \in [BarrierId -> SUBSET Task]
             /\ RefreshAliveness(d, err, incarnation)
             /\ \/ known' = [c \in Watcher |-> IF c \in watching THEN Behind ELSE known[c]]
                \/ \E n : known' = [c \in Watcher |->
                             IF n = 1 /\ c \in watching THEN JobWithErrors(err) ELSE Behind]
             /\ watching' = {}
             /\ replies' = RepliesSent(d, ongoing, left) \cup
                  {Reply(t, "poll", "cancelled") : t \in {u \in polls : ~Responds(d, ongoing)}}
      BY <1>8, StopAborts
    <2>b. JobWithErrors(err) \in JobState
      BY <1>1 DEF JobWithErrors, JobNow, JobState, TypeOK, TaskStates
    <2>c. known' \in [Watcher -> JobState \cup {Behind}] /\ watching' \subseteq Watcher
      BY <1>1, <2>a, <2>b DEF TypeOK
    <2>d. /\ aliveCalls' \in [AliveArgs -> SUBSET (Task \X Incarnation)]
          /\ aliveReplies' \subseteq [set : AliveArgs, alive : SUBSET (Task \X Incarnation)]
      BY <1>1, <2>a, RefreshType DEF TypeOK
    <2>1. replies' \subseteq ReplySet
      <3>1. RepliesSent(d, ongoing, left) \subseteq ReplySet
        BY <1>1, <2>a, AnswersType DEF TypeOK
      <3>2. ASSUME NEW t \in polls PROVE Reply(t, "poll", "cancelled") \in ReplySet
        BY <1>1, <3>2 DEF TypeOK, Reply, ReplySet
      <3> QED BY <2>a, <3>1, <3>2
    <2>e. /\ stopped' \in BOOLEAN
          /\ state' \in [Task -> TaskStates]
          /\ status' \in [Task -> {"ok", "unavailable", "other"}]
          /\ incarnation' \in [Task -> Incarnation]
          /\ joined' \in [Task -> SUBSET BarrierId]
          /\ stale' \subseteq Task /\ grace' \subseteq Task
          /\ counter' \in [BarrierId -> Nat] /\ passed' \in [BarrierId -> BOOLEAN]
          /\ result' \in [BarrierId -> {"none", "ok", "cancelled", "failed"}]
          /\ members' \in [BarrierId -> SUBSET Task] /\ reached' \in [BarrierId -> SUBSET Task]
          /\ pending' \in [BarrierId -> Int] /\ calls' \in [BarrierId -> SUBSET Task]
          /\ callInc' \in [BarrierId -> [Task -> Incarnation]]
          /\ ongoing' \subseteq BarrierId /\ overdue' \subseteq ongoing'
          /\ polling' \in BOOLEAN /\ responded' \in BOOLEAN /\ polls' \subseteq Task
      BY <1>1, <1>8, InputAssumption DEF Stop, TypeOK, TaskStates, Incarnation
    <2>2. TypeOK'
      BY <2>1, <2>c, <2>d, <2>e DEF TypeOK, ReplySet
    <2>3. Bookkeeping' /\ Idle'
      BY <1>8, BarrierAssumption DEF Stop, Bookkeeping, Idle, BarrierId
    <2>4. Registering' /\ StatusMeansError'
      BY <1>8 DEF Stop, Registering, StatusMeansError, BarrierId
    <2>5. NoBarrierWaitsForFailedTask' /\ WaitingRegistrationIsCurrent'
      BY <1>8 DEF Stop, NoBarrierWaitsForFailedTask, WaitingRegistrationIsCurrent, BarrierId
    <2> QED BY <2>2, <2>3, <2>4, <2>5 DEF IInv
  <1> QED BY <1>2, <1>3, <1>4, <1>5, <1>6, <1>7, <1>8 DEF Otherwise

LEMMA NextIInv == IInv /\ [Next]_vars => IInv'
  <1> SUFFICES ASSUME IInv, [Next]_vars PROVE IInv'
    OBVIOUS
  <1>1. CASE Next
    BY <1>1, EveryStep, OtherwiseKeeps, SettleKeeps DEF ServiceStep
  <1>2. CASE UNCHANGED vars
    <2>1. TypeOK'
      BY <1>2 DEF IInv, TypeOK, vars, taskVars, barrierVars, pollVars, watchVars, outVars
    <2>2. polls' # {} => polling' /\ (RegisterWithBarrier => result[Register] = "ok")
      BY <1>2 DEF IInv, Registering, vars, pollVars
    <2> QED BY <1>2, <2>1, <2>2, FrameKeeps DEF vars, taskVars, barrierVars
  <1> QED BY <1>1, <1>2

LEMMA Invariance == Spec => []IInv
  <1> QED BY InitIInv, NextIInv, PTL DEF Spec

\* Every reachable state of the service has the types that the declarations in
\* coordination_service.h give its members.
THEOREM TypeCorrect == Spec => []TypeOK
  <1>1. IInv => TypeOK
    BY DEF IInv
  <1> QED BY <1>1, Invariance, PTL

\* num_pending_tasks, tasks_at_barrier, done_callbacks, ongoing_barriers_ and
\* ongoing_barriers_for_task_ always agree, for any number of tasks and barriers
\* and any interleaving of requests, failures, restarts and timeouts.
THEOREM BookkeepingCorrect == Spec => []Bookkeeping
  <1>1. IInv => Bookkeeping
    BY DEF IInv
  <1> QED BY <1>1, Invariance, PTL

\* LeaveOngoingBarriers, BarrierAsyncLocked: in a job that shares its fate, no
\* ongoing barrier has a member in error, whatever puts the task in error (a
\* report, a timeout, a wrong incarnation, the failure of another barrier) and
\* whenever the barrier is started.
THEOREM FateSharing == Spec => []NoBarrierWaitsForFailedTask
  <1>1. IInv => NoBarrierWaitsForFailedTask
    BY DEF IInv
  <1> QED BY <1>1, Invariance, PTL

\* RegisterTaskAsync: a registration that waits at the register barrier is the
\* latest one of its task, through restarts of the task, reconnections and the
\* cancellation of the older call.
THEOREM RegistrationCurrent == Spec => []WaitingRegistrationIsCurrent
  <1>1. IInv => WaitingRegistrationIsCurrent
    BY DEF IInv
  <1> QED BY <1>1, Invariance, PTL
-----------------------------------------------------------------------------
(* What the service promises its callers.  By EveryStep, a step is either  *)
(* one of a few that touch no barrier (Otherwise) or Settle(d) for a       *)
(* record d with Handled(d), so each theorem needs one argument about      *)
(* Settle and one about the other steps, which come first.                 *)

\* None of them answers with OK or puts a task in error, and only Stop takes
\* calls and watchers away.
LEMMA OtherwiseIsQuiet ==
    ASSUME IInv, Otherwise
    PROVE  /\ \A r \in replies' : r.st # "ok"
           /\ \A t \in Task : state'[t] = "ERROR" => state[t] = "ERROR"
           /\ Stop \/ UNCHANGED <<stopped, state, status, incarnation, calls, callInc>>
  <1>1. ASSUME NEW t \in Task, NEW i \in 1 .. MaxIncarnation, RecordHeartbeat(t, i),
               incarnation[t] = i \/ Recoverable
        PROVE  replies' = {} /\ UNCHANGED <<stopped, state, status, incarnation, calls, callInc>>
    BY <1>1 DEF RecordHeartbeat, Silent
  <1>2. ASSUME NEW t \in Task, NEW S \in AliveArgs, GetAliveTasksAsync(t, S)
        PROVE  replies' = {} /\ UNCHANGED <<stopped, state, status, incarnation, calls, callInc>>
    BY <1>2 DEF GetAliveTasksAsync, taskVars, barrierVars
  <1>3. ASSUME NEW t \in Task, RejectAfterStop(t)
        PROVE  /\ \A r \in replies' : r.st # "ok"
               /\ UNCHANGED <<stopped, state, status, incarnation, calls, callInc>>
    BY <1>3 DEF RejectAfterStop, Reply, taskVars, barrierVars
  <1>4. ASSUME NEW t \in Task \cup {Unknown}, PollForErrorAsync(t)
        PROVE  /\ \A r \in replies' : r.st # "ok"
               /\ UNCHANGED <<stopped, state, status, incarnation, calls, callInc>>
    BY <1>4 DEF PollForErrorAsync, Reply, taskVars, barrierVars
  <1>5. ASSUME NEW c \in Watcher, WatchTasks(c)
        PROVE  replies' = {} /\ UNCHANGED <<stopped, state, status, incarnation, calls, callInc>>
    BY <1>5 DEF WatchTasks, Silent, taskVars, barrierVars
  <1>6. ASSUME Clock
        PROVE  replies' = {} /\ UNCHANGED <<stopped, state, status, incarnation, calls, callInc>>
    BY <1>6 DEF Clock, HeartbeatLapses, GraceEnds, DeadlinePasses, Silent, taskVars
  <1>7. ASSUME Stop
        PROVE  /\ \A r \in replies' : r.st # "ok"
               /\ \A t \in Task : state'[t] # "ERROR"
    <2>1. PICK d, err, left :
             /\ d.answers = {} /\ d.pass = ongoing /\ d.res = "failed"
             /\ replies' = RepliesSent(d, ongoing, left) \cup
                  {Reply(t, "poll", "cancelled") : t \in {u \in polls : ~Responds(d, ongoing)}}
      BY <1>7, StopAborts
    <2>2. ASSUME NEW r \in RepliesSent(d, ongoing, left) PROVE r.st # "ok"
      BY <2>1, <2>2, AnswerFields DEF RepliesSent, CancelledCalls, Called, Outcome, PollAnswers, Reply
    <2>3. \A t \in Task : state'[t] # "ERROR"
      BY <1>7 DEF Stop
    <2> QED BY <2>1, <2>2, <2>3 DEF Reply
  <1> QED BY <1>1, <1>2, <1>3, <1>4, <1>5, <1>6, <1>7 DEF Otherwise

-----------------------------------------------------------------------------
(* Answers *)

\* Settle answers every call that was in done_callbacks, or was added by the
\* handler, and is not there any more, every error poll that it takes out of
\* done_callbacks_, and every call that has been replaced.
LEMMA SettleAnswers ==
    ASSUME NEW d, IInv, Handled(d), Settle(d)
    PROVE  /\ \A b \in BarrierId, t \in Task :
                t \in calls[b] \cup d.wait[b] /\ t \notin calls'[b]
                  => \E r \in replies' : r.to = t /\ r.of = b
           /\ \A t \in polls : t \notin polls' => \E r \in replies' : r.to = t /\ r.of = "poll"
           /\ \A b \in BarrierId, t \in Task :
                t \in calls[b] /\ callInc'[b][t] # callInc[b][t]
                  => \E r \in replies' : r.to = t /\ r.of = b
  <1> DEFINE err == Errors(d)
             fin == Passed(d, err)
             left == [x \in BarrierId |-> Left(x, d, err)]
  <1>1. /\ SettleBarriers(d, fin, left) /\ SettlePolls(d, fin) /\ SettleReplies(d, fin, left)
        /\ EffectType(d) /\ d.pass \subseteq fin /\ fin \subseteq BarrierId
    BY SettleParameters DEF Settle, Consequences, Handled, Proper, IInv
  <1> HIDE DEF err, fin, left
  <1>2. ASSUME NEW b \in BarrierId, NEW t \in Task, t \in calls[b] \cup d.wait[b],
               t \notin calls'[b]
        PROVE  \E r \in replies' : r.to = t /\ r.of = b
    <2>1. t \in calls[b] => b \in ongoing
      BY <1>2 DEF IInv, Bookkeeping
    <2>2. t \in d.wait[b]
      BY <1>2, <2>1 DEF Handled, Careful
    <2>3. CASE t \in left[b]
      <3> DEFINE a == Answer(b, t, "cancelled", d.inc[b][t], incarnation'[t])
      <3>1. a \in Called(d, b, d.wait[b] \cap left[b], "cancelled")
        BY <2>2, <2>3 DEF Called
      <3>2. a \in CancelledCalls(d, left)
        BY <3>1 DEF CancelledCalls
      <3>3. a \in replies'
        BY <1>1, <3>2 DEF SettleReplies, RepliesSent
      <3>4. a.to = t /\ a.of = b
        BY AnswerFields
      <3> QED BY <3>3, <3>4
    <2>4. CASE t \notin left[b]
      <3> DEFINE a == Answer(b, t, Outcome(b, d), d.inc[b][t], incarnation'[t])
      <3>1. b \in fin
        BY <1>1, <1>2, <2>2, <2>4 DEF SettleBarriers
      <3>2. a \in Called(d, b, d.wait[b] \ left[b], Outcome(b, d))
        BY <2>2, <2>4 DEF Called
      <3>3. a \in replies'
        BY <1>1, <3>1, <3>2 DEF SettleReplies, RepliesSent
      <3>4. a.to = t /\ a.of = b
        BY AnswerFields
      <3> QED BY <3>3, <3>4
    <2> QED BY <2>3, <2>4
  <1>3. ASSUME NEW t \in polls, t \notin polls'
        PROVE  \E r \in replies' : r.to = t /\ r.of = "poll"
    <2> DEFINE st == IF Responds(d, fin) THEN "failed" ELSE "cancelled"
    <2>1. Reply(t, "poll", st) \in PollAnswers(d, fin)
      BY <1>1, <1>3 DEF SettlePolls, PollAnswers
    <2>2. Reply(t, "poll", st) \in replies'
      BY <1>1, <2>1 DEF SettleReplies, RepliesSent
    <2>3. Reply(t, "poll", st).to = t /\ Reply(t, "poll", st).of = "poll"
      BY DEF Reply
    <2> QED BY <2>2, <2>3
  <1>4. ASSUME NEW b \in BarrierId, NEW t \in Task, t \in calls[b],
               callInc'[b][t] # callInc[b][t]
        PROVE  \E r \in replies' : r.to = t /\ r.of = b
    <2>1. CASE t \notin calls'[b]
      BY <1>2, <1>4, <2>1
    <2>2. CASE t \in calls'[b]
      <3>1. d.inc[b][t] # callInc[b][t]
        BY <1>4, <2>2, WaitingAfter
      <3>2. PICK r \in d.answers : r.to = t /\ r.of = b
        BY <1>4, <3>1 DEF Handled, Careful
      <3>3. r \in replies'
        BY <1>1, <3>2 DEF SettleReplies, RepliesSent
      <3> QED BY <3>2, <3>3
    <2> QED BY <2>1, <2>2
  <1> QED BY <1>2, <1>3, <1>4

\* NoCallIsDropped, of a step.
StepDropsNone ==
    /\ \A b \in BarrierId, t \in Task :
         t \in calls[b] /\ (t \notin calls'[b] \/ callInc'[b][t] # callInc[b][t])
           => \E r \in replies' : r.to = t /\ r.of = b
    /\ \A t \in polls : t \notin polls' => \E r \in replies' : r.to = t /\ r.of = "poll"

LEMMA StepAnswers ==
    ASSUME IInv, ServiceStep
    PROVE  StepDropsNone
  <1>1. ASSUME NEW d, Handled(d), Settle(d) PROVE StepDropsNone
    BY <1>1, SettleAnswers DEF StepDropsNone
  <1>2. ASSUME Stop PROVE StepDropsNone
    <2>1. PICK d, err, left :
             /\ d.wait = calls /\ d.pass = ongoing /\ d.res = "failed"
             /\ replies' = RepliesSent(d, ongoing, left) \cup
                  {Reply(t, "poll", "cancelled") : t \in {u \in polls : ~Responds(d, ongoing)}}
      BY <1>2, StopAborts
    <2>2. ASSUME NEW b \in BarrierId, NEW t \in calls[b]
          PROVE  \E r \in replies' : r.to = t /\ r.of = b
      <3>1. b \in ongoing
        BY <2>2 DEF IInv, Bookkeeping
      <3>2. CASE t \in left[b]
        <4> DEFINE a == Answer(b, t, "cancelled", d.inc[b][t], incarnation'[t])
        <4>1. a \in CancelledCalls(d, left)
          BY <2>1, <2>2, <3>2 DEF CancelledCalls, Called
        <4>2. a \in replies'
          BY <2>1, <4>1 DEF RepliesSent
        <4> QED BY <4>2, AnswerFields
      <3>3. CASE t \notin left[b]
        <4> DEFINE a == Answer(b, t, Outcome(b, d), d.inc[b][t], incarnation'[t])
        <4>1. a \in Called(d, b, d.wait[b] \ left[b], Outcome(b, d))
          BY <2>1, <2>2, <3>3 DEF Called
        <4>2. a \in replies'
          BY <2>1, <3>1, <4>1 DEF RepliesSent
        <4> QED BY <4>2, AnswerFields
      <3> QED BY <3>2, <3>3
    <2>3. ASSUME NEW t \in polls PROVE \E r \in replies' : r.to = t /\ r.of = "poll"
      <3>1. CASE Responds(d, ongoing)
        <4>1. Reply(t, "poll", "failed") \in PollAnswers(d, ongoing)
          BY <2>3, <3>1 DEF PollAnswers
        <4> QED BY <2>1, <4>1 DEF RepliesSent, Reply
      <3>2. CASE ~Responds(d, ongoing)
        <4>1. Reply(t, "poll", "cancelled") \in replies'
          BY <2>1, <2>3, <3>2
        <4> QED BY <4>1 DEF Reply
      <3> QED BY <3>1, <3>2
    <2> QED BY <2>2, <2>3 DEF StepDropsNone
  <1>3. ASSUME Otherwise, ~Stop PROVE StepDropsNone
    <2>1. calls' = calls /\ callInc' = callInc
      BY <1>3, OtherwiseIsQuiet
    <2>2. polls \subseteq polls'
      BY <1>3 DEF Otherwise, RecordHeartbeat, GetAliveTasksAsync, RejectAfterStop,
                  PollForErrorAsync, WatchTasks, Clock, pollVars
    <2> QED BY <2>1, <2>2 DEF StepDropsNone
  <1> QED BY <1>1, <1>2, <1>3 DEF ServiceStep

\* done_callbacks of the barriers and done_callbacks_ of error polling: a barrier
\* call or error poll that stops waiting is answered in the same step, whether
\* its barrier passes, fails, times out or is cancelled, the task leaves it or
\* the service stops, and so is a barrier call that gives way to a call of a
\* newer incarnation of its task.
THEOREM CallsAnswered == Spec => NoCallIsDropped
  <1>1. IInv /\ [Next]_vars =>
          [/\ \A b \in BarrierId, t \in Task :
                t \in calls[b] /\ (t \notin calls'[b] \/ callInc'[b][t] # callInc[b][t])
                  => \E r \in replies' : r.to = t /\ r.of = b
           /\ \A t \in polls : t \notin polls' => \E r \in replies' : r.to = t /\ r.of = "poll"]_vars
    BY EveryStep, StepAnswers DEF StepDropsNone
  <1> QED BY <1>1, Invariance, PTL DEF Spec, NoCallIsDropped
-----------------------------------------------------------------------------
(* Errors *)

\* The step that puts a task in error answers all error polls: it propagates
\* the error, or it fails the shutdown barrier.  It may also fail the register
\* barrier, but then nobody can be polling yet.
LEMMA SettleReaches ==
    ASSUME NEW d, IInv, Handled(d), Settle(d), ~Recoverable,
           NEW t \in Task, state[t] # "ERROR", state'[t] = "ERROR"
    PROVE  polls' = {} /\ (~polling => \A u \in Task : state'[u] = "ERROR")
  <1> DEFINE err == Errors(d)
             fin == Passed(d, err)
             left == [x \in BarrierId |-> Left(x, d, err)]
  <1>1. /\ SettleTasks(d, err) /\ SettlePolls(d, fin) /\ SettleBarriers(d, fin, left)
        /\ EffectType(d) /\ d.pass \subseteq fin /\ Hit(d) \subseteq fin
    <2>1. (d.errs \cap NotInError(d)) \cup d.disc \subseteq err \cup d.disc
      BY DEF Errors, NotInError
    <2>2. Hit(d) \subseteq fin
      BY <2>1 DEF Hit, Passed, BarriersOf
    <2> QED BY <2>2, SettleParameters DEF Settle, Consequences, Handled, Proper, IInv
  <1>2. t \in err
    BY <1>1 DEF SettleTasks
  <1>3. AllFail(d) \/ d.propagate
    BY <1>2 DEF Errors, Handled, Careful
  <1>4. ASSUME ~polling PROVE \A u \in Task : state'[u] = "ERROR"
    <2>1. AllFail(d)
      BY <1>3, <1>4 DEF AllFail
    <2>2. err = NotInError(d)
      BY <2>1 DEF Errors, NotInError
    <2>3. d.conn = {}
      <3> SUFFICES ASSUME d.conn # {} PROVE FALSE
        OBVIOUS
      <3>1. /\ d.errs = {} /\ d.disc = {} /\ ~d.propagate
            /\ d.pass = {} \/ d.res = "ok"
        BY DEF Handled, Careful
      <3>2. Hit(d) = {}
        BY <3>1 DEF Hit, BarriersOf
      <3> QED BY <2>1, <3>1, <3>2 DEF AllFail
    <2> QED BY <1>1, <2>2, <2>3 DEF SettleTasks, NotInError
  <1>5. CASE polls = {}
    BY <1>1, <1>4, <1>5 DEF SettlePolls
  <1>6. CASE polls # {}
    <2>1. polling /\ (RegisterWithBarrier => result[Register] = "ok")
      BY <1>6 DEF IInv, Registering
    <2>2. Register \notin Hit(d)
      <3> SUFFICES ASSUME Register \in Hit(d) PROVE FALSE
        OBVIOUS
      <3>1. Register \in d.pass \/ Register \in ongoing
        BY DEF Hit, BarriersOf
      <3>2. RegisterWithBarrier /\ ~passed[Register]
        BY <3>1 DEF Handled, Careful, IInv, Registering, Bookkeeping, BarrierId
      <3> QED BY <2>1, <3>2 DEF IInv, Registering, BarrierId
    <2>3. ASSUME ~d.propagate PROVE Shutdown \in fin /\ Outcome(Shutdown, d) # "ok"
      <3>1. Shutdown \in Hit(d)
        BY <1>3, <2>1, <2>2, <2>3 DEF AllFail
      <3> QED BY <1>1, <3>1 DEF Hit, Outcome, BarriersOf
    <2>4. Responds(d, fin)
      BY <2>1, <2>3 DEF Responds
    <2> QED BY <1>1, <1>4, <2>1, <2>4 DEF SettlePolls
  <1> QED BY <1>4, <1>5, <1>6

LEMMA StepReaches ==
    ASSUME IInv, ServiceStep, ~Recoverable,
           NEW t \in Task, state[t] # "ERROR", state'[t] = "ERROR"
    PROVE  polls' = {} /\ (~polling => \A u \in Task : state'[u] = "ERROR")
  <1>1. ~Otherwise
    BY OtherwiseIsQuiet
  <1>2. PICK d : Handled(d) /\ Settle(d)
    BY <1>1 DEF ServiceStep
  <1> QED BY <1>2, SettleReaches

\* PropagateError and SetAllTasksError: in a job that shares its fate, the step
\* that puts any task in error, however it does, tells every task that polls for
\* errors, or, if none ever has, puts all tasks in error.
THEOREM ErrorsReachAll == Spec => ErrorReachesAll
  <1>1. IInv /\ [Next]_vars =>
          [~Recoverable /\ (\E t \in Task : state[t] # "ERROR" /\ state'[t] = "ERROR")
             => polls' = {} /\ (~polling => \A t \in Task : state'[t] = "ERROR")]_vars
    BY EveryStep, StepReaches
  <1> QED BY <1>1, Invariance, PTL DEF Spec, ErrorReachesAll

-----------------------------------------------------------------------------
(* Barriers that pass *)

\* An OK from Settle is the repeated result of an instance that passed with OK,
\* or comes from PassBarrier for an instance that all members wait in.
LEMMA SettleReleases ==
    ASSUME NEW d, IInv, Handled(d), Settle(d), NEW r \in replies', r.of \in BarrierId, r.st = "ok"
    PROVE  \/ passed[r.of] /\ result[r.of] = "ok" /\ counter'[r.of] = counter[r.of]
           \/ /\ r.of \in d.pass /\ d.res = "ok" /\ r.to \in d.wait[r.of]
              /\ \A m \in members'[r.of] : Reply(m, r.of, "ok") \in replies'
  <1> DEFINE err == Errors(d)
             fin == Passed(d, err)
             left == [x \in BarrierId |-> Left(x, d, err)]
  <1>1. SettleReplies(d, fin, left) /\ d.pass \subseteq fin /\ EffectType(d)
    BY SettleParameters DEF Settle, Consequences, Handled, Proper, IInv
  <1>2. CASE r \in d.answers
    BY <1>2 DEF Handled, Careful
  <1>3. r \notin CancelledCalls(d, left) /\ r \notin PollAnswers(d, fin)
    BY AnswerFields DEF CancelledCalls, Called, PollAnswers, Reply
  <1>4. ASSUME NEW b \in fin, r \in Called(d, b, d.wait[b] \ left[b], Outcome(b, d))
        PROVE  /\ r.of \in d.pass /\ d.res = "ok" /\ r.to \in d.wait[r.of]
               /\ \A m \in members'[r.of] : Reply(m, r.of, "ok") \in replies'
    <2>1. PICK t \in d.wait[b] : r = Answer(b, t, Outcome(b, d), d.inc[b][t], incarnation'[t])
      BY <1>4 DEF Called
    <2>2. r.to = t /\ r.of = b /\ Outcome(b, d) = "ok"
      BY <2>1, AnswerFields
    <2>3. b \in d.pass /\ d.res = "ok" /\ b \in BarrierId
      BY <2>2 DEF Outcome
    <2>4. d.wait[b] = members'[b] /\ d.errs = {} /\ d.late = {}
      BY <2>3 DEF Handled, Careful
    <2>5. left[b] = {}
      BY <2>3, <2>4 DEF Left
    <2>6. ASSUME NEW m \in members'[b] PROVE Reply(m, b, "ok") \in replies'
      <3> DEFINE a == Answer(b, m, "ok", d.inc[b][m], incarnation'[m])
      <3>1. b = Register => d.inc[b][m] = incarnation'[m]
        BY <2>3, <2>4, <2>6 DEF Handled, Careful
      <3>2. a = Reply(m, b, "ok")
        BY <3>1, AnswerFields
      <3>3. a \in Called(d, b, d.wait[b] \ left[b], Outcome(b, d))
        BY <2>2, <2>4, <2>5, <2>6 DEF Called
      <3>4. a \in replies'
        BY <1>1, <3>3 DEF SettleReplies, RepliesSent
      <3> QED BY <3>2, <3>4
    <2> QED BY <2>1, <2>2, <2>3, <2>6
  <1> QED BY <1>1, <1>2, <1>3, <1>4 DEF SettleReplies, RepliesSent

LEMMA StepReleases ==
    ASSUME IInv, ServiceStep, NEW r \in replies', r.of \in BarrierId, r.st = "ok"
    PROVE  \/ \A m \in members'[r.of] : Reply(m, r.of, "ok") \in replies'
           \/ passed[r.of] /\ result[r.of] = "ok" /\ counter'[r.of] = counter[r.of]
  <1>1. ~Otherwise
    BY OtherwiseIsQuiet
  <1>2. PICK d : Handled(d) /\ Settle(d)
    BY <1>1 DEF ServiceStep
  <1> QED BY <1>2, SettleReleases

\* PassBarrier: when a barrier passes with OK, every participant is told so in
\* that step; any other OK repeats the result of the instance that is over.
THEOREM BarrierReleasesAll == Spec => ReleasedTogether
  <1>1. IInv /\ [Next]_vars =>
          [\A r \in replies' : r.of \in BarrierId /\ r.st = "ok" =>
             \/ \A m \in members'[r.of] : Reply(m, r.of, "ok") \in replies'
             \/ passed[r.of] /\ result[r.of] = "ok" /\ counter'[r.of] = counter[r.of]]_vars
    BY EveryStep, StepReleases
  <1> QED BY <1>1, Invariance, PTL DEF Spec, ReleasedTogether

\* LeaveOngoingBarriers, called by SetTaskError, DisconnectTask and ConnectTask:
\* however the connection of a task ends, none of its calls is left at a barrier.
THEOREM ConnectionsTakeCalls == Spec => CallsEndWithConnection
  <1>1. IInv /\ [Next]_vars =>
          [\A t \in Task :
             /\ state[t] = "CONNECTED"
             /\ state'[t] # "CONNECTED" \/ incarnation'[t] # incarnation[t]
             => \A b \in BarrierId : t \notin calls'[b]]_vars
    <2> SUFFICES ASSUME IInv, Next, NEW t \in Task, state[t] = "CONNECTED",
                        state'[t] # "CONNECTED" \/ incarnation'[t] # incarnation[t],
                        NEW b \in BarrierId, t \in calls'[b]
                 PROVE  FALSE
      OBVIOUS
    <2>1. CASE Stop
      BY <2>1 DEF Stop
    <2>2. CASE Otherwise /\ ~Stop
      BY <2>2, OtherwiseIsQuiet
    <2>3. ASSUME NEW d, Handled(d), Settle(d) PROVE FALSE
      <3>1. t \notin Errors(d) \cup d.disc /\ ~(Recoverable /\ t \in d.leave)
        BY <2>3, WaitingAfter
      <3>2. incarnation'[t] = incarnation[t]
        BY <2>3, <3>1 DEF Handled, Careful
      <3>3. SettleTasks(d, Errors(d))
        BY <2>3 DEF Settle, Consequences
      <3>4. state'[t] = "CONNECTED"
        BY <3>1, <3>3 DEF SettleTasks
      <3> QED BY <3>2, <3>4
    <2> QED BY <2>1, <2>2, <2>3, EveryStep DEF ServiceStep
  <1> QED BY <1>1, Invariance, PTL DEF Spec, CallsEndWithConnection

-----------------------------------------------------------------------------
(* GetAliveTasks *)

\* RefreshAliveness ends a call exactly when no alive task is missing.
LEMMA SettleAlive ==
    ASSUME NEW d, IInv, Handled(d), Settle(d), AliveCallWaitsForSomeone
    PROVE  AliveCallWaitsForSomeone'
  <1> DEFINE err == Errors(d)
  <1>1. RefreshAliveness(d, err, incarnation') /\ SettleTasks(d, err)
    BY DEF Settle, Consequences
  <1>2. ~stopped /\ AliveArgs \subseteq SUBSET Task
    BY InputAssumption DEF Handled, Careful
  <1> HIDE DEF err
  <1> SUFFICES ASSUME NEW S \in AliveArgs, aliveCalls'[S] # {}
               PROVE  \E t \in S : state'[t] = "CONNECTED" /\ t \notin InBarrier(S)'
    BY DEF AliveCallWaitsForSomeone
  <1>3. /\ aliveCalls'[S] = aliveCalls[S] /\ aliveCalls[S] # {}
        /\ RefreshNeeded(d, err) => ~AllAliveAreIn(S, state', InBarrier(S))
    BY <1>1 DEF RefreshAliveness
  <1>4. InBarrier(S)' = InBarrier(S)
    BY <1>3 DEF InBarrier
  <1>5. CASE RefreshNeeded(d, err)
    BY <1>3, <1>4, <1>5 DEF AllAliveAreIn, AliveTasks
  <1>6. CASE ~RefreshNeeded(d, err)
    <2>1. err = {} /\ d.disc = {}
      BY <1>6 DEF RefreshNeeded
    <2>2. PICK t \in S : state[t] = "CONNECTED" /\ t \notin InBarrier(S)
      BY <1>2, <1>3 DEF AliveCallWaitsForSomeone
    <2>3. state'[t] = "CONNECTED"
      BY <1>1, <1>2, <2>1, <2>2 DEF SettleTasks
    <2> QED BY <1>4, <2>2, <2>3
  <1> QED BY <1>5, <1>6

\* GetAliveTasksAsync ends at once, or somebody is missing.
LEMMA CallAlive ==
    ASSUME IInv, NEW t \in Task, NEW S \in AliveArgs, GetAliveTasksAsync(t, S),
           AliveCallWaitsForSomeone
    PROVE  AliveCallWaitsForSomeone'
  <1> DEFINE now == aliveCalls[S] \cup {<<t, incarnation[t]>>}
             done == AllAliveAreIn(S, state, {c[1] : c \in now})
  <1>1. /\ UNCHANGED <<stopped, state>>
        /\ aliveCalls' = [aliveCalls EXCEPT ![S] = IF done THEN {} ELSE now]
    BY DEF GetAliveTasksAsync, taskVars
  <1>2. aliveCalls \in [AliveArgs -> SUBSET (Task \X Incarnation)]
    BY DEF IInv, TypeOK
  <1> SUFFICES ASSUME ~stopped', NEW U \in AliveArgs, aliveCalls'[U] # {}
               PROVE  \E u \in U : state'[u] = "CONNECTED" /\ u \notin InBarrier(U)'
    BY DEF AliveCallWaitsForSomeone
  <1>3. CASE U = S
    <2>1. ~done /\ aliveCalls'[S] = now
      BY <1>1, <1>2, <1>3
    <2>2. InBarrier(U)' = {c[1] : c \in now}
      BY <1>3, <2>1 DEF InBarrier
    <2> QED BY <1>1, <1>3, <2>1, <2>2 DEF AllAliveAreIn, AliveTasks
  <1>4. CASE U # S
    <2>1. aliveCalls'[U] = aliveCalls[U]
      BY <1>1, <1>2, <1>4
    <2>2. InBarrier(U)' = InBarrier(U)
      BY <2>1 DEF InBarrier
    <2> QED BY <1>1, <2>1, <2>2 DEF AliveCallWaitsForSomeone
  <1> QED BY <1>3, <1>4

\* RefreshAliveness, GetAliveTasksAsync: a pending GetAliveTasks call has some
\* alive task of its set left to wait for; none is forgotten when the last such
\* task disconnects, fails or calls.
THEOREM AliveCallsWait == Spec => []AliveCallWaitsForSomeone
  <1>1. Init => AliveCallWaitsForSomeone
    BY DEF Init, AliveCallWaitsForSomeone
  <1>2. IInv /\ AliveCallWaitsForSomeone /\ [Next]_vars => AliveCallWaitsForSomeone'
    <2> SUFFICES ASSUME IInv, AliveCallWaitsForSomeone, [Next]_vars
                 PROVE  AliveCallWaitsForSomeone'
      OBVIOUS
    <2>1. ASSUME NEW d, Handled(d), Settle(d) PROVE AliveCallWaitsForSomeone'
      BY <2>1, SettleAlive
    <2>2. ASSUME NEW t \in Task, NEW S \in AliveArgs, GetAliveTasksAsync(t, S)
          PROVE  AliveCallWaitsForSomeone'
      BY <2>2, CallAlive
    <2>3. ASSUME Stop PROVE AliveCallWaitsForSomeone'
      BY <2>3 DEF Stop, AliveCallWaitsForSomeone
    <2>4. ASSUME UNCHANGED <<stopped, state, aliveCalls>> PROVE AliveCallWaitsForSomeone'
      BY <2>4 DEF AliveCallWaitsForSomeone, InBarrier
    <2>5. ASSUME Otherwise, ~Stop, ~(\E t \in Task, S \in AliveArgs : GetAliveTasksAsync(t, S))
          PROVE  UNCHANGED <<stopped, state, aliveCalls>>
      <3>1. UNCHANGED <<stopped, state>>
        BY <2>5, OtherwiseIsQuiet
      <3>2. UNCHANGED aliveCalls
        BY <2>5 DEF Otherwise, RecordHeartbeat, RejectAfterStop, PollForErrorAsync,
                    WatchTasks, Clock
      <3> QED BY <3>1, <3>2
    <2>6. CASE UNCHANGED vars
      BY <2>4, <2>6 DEF vars, taskVars
    <2>7. CASE Next
      BY <2>1, <2>2, <2>3, <2>4, <2>5, <2>7, EveryStep DEF ServiceStep
    <2> QED BY <2>6, <2>7
  <1> QED BY <1>1, <1>2, Invariance, PTL DEF Spec

-----------------------------------------------------------------------------
(* WatchTasks *)

\* ClusterStateUpdated: a client that is up to date stays so or is told.
LEMMA SettleWatched ==
    ASSUME NEW d, IInv, Handled(d), Settle(d), NoMissedUpdate
    PROVE  NoMissedUpdate'
  <1> DEFINE err == Errors(d)
  <1>1. ClusterStateUpdated(Updates(d, err), JobNow') /\ SettleTasks(d, err)
    BY DEF Settle, Consequences
  <1>2. err \subseteq Task /\ d.updates \in Nat /\ ~stopped
    BY SettleParameters DEF Handled, Proper, Careful, IInv
  <1> HIDE DEF err
  <1>3. CASE Updates(d, err) = 0
    <2>1. Cardinality(err) \in Nat /\ (err # {} => Cardinality(err) > 0)
      BY <1>2, TaskSets
    <2>2. err = {} /\ d.updates = 0
      BY <1>2, <1>3, <2>1 DEF Updates
    <2>3. d.conn = {} /\ d.disc = {} /\ incarnation' = incarnation
      BY <2>2 DEF Handled, Careful
    <2>4. \A t \in Task : state'[t] = state[t] /\ status'[t] = status[t]
      BY <1>1, <2>2, <2>3 DEF SettleTasks
    <2>5. JobNow' = JobNow
      BY <2>3, <2>4 DEF JobNow
    <2> QED BY <1>1, <1>2, <1>3, <2>5 DEF ClusterStateUpdated, NoMissedUpdate, watchVars
  <1>4. CASE Updates(d, err) # 0
    BY <1>1, <1>4 DEF ClusterStateUpdated, NoMissedUpdate
  <1> QED BY <1>3, <1>4

\* WatchTasks: a client that holds the current version number holds the current
\* states, errors and incarnations of all tasks: nothing that changes them
\* forgets to call ClusterStateUpdated.
THEOREM UpdatesNotMissed == Spec => []NoMissedUpdate
  <1>1. Init => NoMissedUpdate
    BY DEF Init, NoMissedUpdate
  <1>2. IInv /\ NoMissedUpdate /\ [Next]_vars => NoMissedUpdate'
    <2> SUFFICES ASSUME IInv, NoMissedUpdate, [Next]_vars
                 PROVE  NoMissedUpdate'
      OBVIOUS
    <2>1. ASSUME NEW d, Handled(d), Settle(d) PROVE NoMissedUpdate'
      BY <2>1, SettleWatched
    <2>2. ASSUME Stop PROVE NoMissedUpdate'
      BY <2>2 DEF Stop, NoMissedUpdate
    <2>3. ASSUME UNCHANGED <<stopped, state, status, incarnation>> PROVE JobNow' = JobNow
      BY <2>3 DEF JobNow
    <2>4. ASSUME NEW c \in Watcher, WatchTasks(c), UNCHANGED <<stopped, state, status, incarnation>>
          PROVE  NoMissedUpdate'
      <3>1. known \in [Watcher -> JobState \cup {Behind}]
        BY DEF IInv, TypeOK
      <3> QED BY <2>3, <2>4, <3>1 DEF WatchTasks, NoMissedUpdate
    <2>5. ASSUME UNCHANGED <<stopped, state, status, incarnation, known>> PROVE NoMissedUpdate'
      BY <2>3, <2>5 DEF NoMissedUpdate
    <2>6. ASSUME Otherwise, ~Stop, ~(\E c \in Watcher : WatchTasks(c)) PROVE UNCHANGED known
      BY <2>6 DEF Otherwise, RecordHeartbeat, GetAliveTasksAsync, RejectAfterStop,
                  PollForErrorAsync, Clock, watchVars
    <2>7. ASSUME Otherwise PROVE NoMissedUpdate'
      BY <2>2, <2>4, <2>5, <2>6, <2>7, OtherwiseIsQuiet
    <2>8. CASE UNCHANGED vars
      BY <2>5, <2>8 DEF vars, taskVars, watchVars
    <2>9. CASE Next
      BY <2>1, <2>7, <2>9, EveryStep DEF ServiceStep
    <2> QED BY <2>8, <2>9
  <1> QED BY <1>1, <1>2, Invariance, PTL DEF Spec
=============================================================================
