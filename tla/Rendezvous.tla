----------------------------- MODULE Rendezvous -----------------------------
(***************************************************************************)
(* xla::Rendezvous: threads of one process meet at a key, the last one to  *)
(* arrive runs a function on the values of all and everybody gets its      *)
(* result; with RendezvousFlag, only until the flag is completed.  Every   *)
(* thread makes the calls of its program one after the other.  A state of  *)
(* the rendezvous map lives as long as a participant holds it.             *)
(*                                                                         *)
(* A caller's value is a variable on its stack: the pointer that is stored *)
(* for the leader is the thread, and reading it gives the call the thread  *)
(* is in at that moment.                                                   *)
(***************************************************************************)
EXTENDS Integers, FiniteSets, Sequences

CONSTANTS Thread,
          Key,        \* K of the rendezvous
          Barriers,   \* keys of rendezvous without a result (R = nullopt_t)
          Programs,   \* functions from threads to sequences of calls
          Timeouts    \* are warn_stuck_timeout and terminate_timeout finite?

kPending == 0
kCompleted == 2147483647

ASSUME ThreadAssumption == IsFiniteSet(Thread) /\ Cardinality(Thread) < kCompleted

\* The calls of program p that belong to the same round of a key.
Round(p, t, i) == Cardinality({j \in 1 .. i : p[t][j].key = p[t][i].key})
Together(p, t, i) ==
  {c \in UNION {{<<u, j>> : j \in DOMAIN p[u]} : u \in Thread} :
     /\ p[c[1]][c[2]].key = p[t][i].key
     /\ Round(p, c[1], c[2]) = Round(p, t, i)}

\* A key is unique to its group of threads: those that meet in a round are no
\* more than num_threads and pass the same arguments.
ASSUME ProgramsAssumption ==
  \A p \in Programs :
    /\ p \in [Thread -> Seq([key : Key, num_threads : Nat \ {0}, flagged : BOOLEAN])]
    /\ \A t \in Thread : \A i \in DOMAIN p[t] :
         /\ Cardinality(Together(p, t, i)) <= p[t][i].num_threads
         /\ \A c \in Together(p, t, i) : p[c[1]][c[2]] = p[t][i]

VARIABLES
  calls,    \* the program: calls [key, num_threads, flagged] of every thread
  step,     \* the call a thread is in, or makes next
  pc,       \* where it is in the call
  id,       \* id in Rendezvous
  stuck,    \* it has waited for warn_stuck_timeout
  state,    \* the RendezvousState it holds, 0 for none
  states,   \* all RendezvousStates, in the order of their creation
  map,      \* RendezvousMap::state_, 0 for a key that is not in it
  flag,     \* RendezvousFlag::state_
  got,      \* what the calls of a thread have returned
  process   \* "running", or "check" or "timeout" after it was aborted

vars == <<calls, step, pc, id, stuck, state, states, map, flag, got, process>>

NewState == [ack |-> 0, rel |-> 0, values |-> {}, ready |-> FALSE,
             result |-> [status |-> "none", values |-> {}]]
Skipped == [status |-> "skipped", values |-> {}]

Call(t) == calls[t][step[t]]
Held(t) == states[state[t]]
UseCount(s) == Cardinality({t \in Thread : state[t] = s})

Init ==
  /\ calls \in Programs
  /\ step = [t \in Thread |-> 1]
  /\ pc = [t \in Thread |-> "idle"]
  /\ id = [t \in Thread |-> 0]
  /\ stuck = [t \in Thread |-> FALSE]
  /\ state = [t \in Thread |-> 0]
  /\ states = <<>>
  /\ map = [k \in Key |-> 0]
  /\ flag = kPending
  /\ got = [t \in Thread |-> <<>>]
  /\ process = "running"

Goes(t, p) == pc' = [pc EXCEPT ![t] = p]
Sets(t, r) == states' = [states EXCEPT ![state[t]] = r]

\* CHECK: the process is aborted if the condition does not hold.
Check(cond) == process' = IF cond THEN "running" ELSE "check"

\* CondVar::SignalAll of the state t holds: who waits looks at ready again.
SignalAllMutant(t, p) ==
  pc' = [u \in Thread |->
           CASE u = t -> p
             [] u # t /\ pc[u] = "waiting" /\ state[u] = state[t] -> "return"
             [] OTHER -> pc[u]]
SignalAll(t, p) ==
  pc' = [u \in Thread |->
           CASE u = t -> p
             [] u # t /\ pc[u] = "waiting" /\ state[u] = state[t] -> "await"
             [] OTHER -> pc[u]]
-----------------------------------------------------------------------------
(* The call begins: with a flag, only if TryJoin succeeds.                 *)

Begin(t) == IF Call(t).num_threads = 1 THEN "alone" ELSE "join"

Returns(t, r) ==
  /\ got' = [got EXCEPT ![t] = Append(@, r)]
  /\ step' = [step EXCEPT ![t] = @ + 1]

TryJoin(t) ==
  IF flag = kCompleted
    THEN Returns(t, Skipped) /\ UNCHANGED <<flag, pc>>
    ELSE flag' = flag + 1 /\ Goes(t, Begin(t)) /\ UNCHANGED <<got, step>>

Calls(t) ==
  /\ pc[t] = "idle" /\ step[t] <= Len(calls[t])
  /\ IF Call(t).flagged THEN TryJoin(t)
     ELSE Goes(t, Begin(t)) /\ UNCHANGED <<flag, got, step>>
  /\ UNCHANGED <<calls, id, stuck, state, states, map, process>>

\* The result is returned, the state released, the flag left last.
End(t, r) ==
  /\ state' = [state EXCEPT ![t] = 0]
  /\ IF Call(t).flagged
       THEN Goes(t, "leave") /\ got' = [got EXCEPT ![t] = Append(@, r)] /\ UNCHANGED step
       ELSE Goes(t, "idle") /\ Returns(t, r)

\* InvokeRendezvous: the function reads the values; it may return an error.
Results(values) ==
  {[status |-> "ok", values |-> {<<u, step[u]>> : u \in values}],
   [status |-> "error", values |-> {}]}

Alone(t) ==
  /\ pc[t] = "alone"
  /\ \E r \in Results({t}) : End(t, r)
  /\ UNCHANGED <<calls, id, stuck, states, map, flag, process>>
-----------------------------------------------------------------------------
\* RendezvousMap::Join, under the mutex of the map.
InMap == [k \in Key |-> IF UseCount(map[k]) > 0 THEN map[k] ELSE 0]

Join(t) ==
  /\ pc[t] = "join"
  /\ LET s == IF InMap[Call(t).key] # 0 THEN InMap[Call(t).key] ELSE Len(states) + 1
     IN  /\ states' = IF s > Len(states) THEN Append(states, NewState) ELSE states
         /\ state' = [state EXCEPT ![t] = s]
         /\ map' = [InMap EXCEPT ![Call(t).key] = s]
  /\ Goes(t, "ack")
  /\ UNCHANGED <<calls, step, id, stuck, flag, got, process>>

Acknowledge(t) ==
  /\ pc[t] = "ack"
  /\ id' = [id EXCEPT ![t] = Held(t).ack]
  /\ Sets(t, [Held(t) EXCEPT !.ack = @ + 1])
  /\ Check(Held(t).ack < Call(t).num_threads)
  /\ SignalAll(t, "write")
  /\ UNCHANGED <<calls, step, stuck, state, map, flag, got>>

WriteValue(t) ==
  /\ pc[t] = "write"
  /\ Sets(t, [Held(t) EXCEPT !.values = @ \cup {t}])
  /\ Goes(t, "publish")
  /\ UNCHANGED <<calls, step, id, stuck, state, map, flag, got, process>>

\* The second counter; a rendezvous without a result does not use it.
PublishMutant(t) ==
  /\ pc[t] = "publish"
  /\ Goes(t, IF id[t] < Call(t).num_threads - 1 THEN "await" ELSE "complete")
  /\ UNCHANGED <<calls, step, id, stuck, state, states, map, flag, got, process>>
Publish(t) ==
  LET last == IF Call(t).key \in Barriers THEN id[t] ELSE Held(t).rel IN
  /\ pc[t] = "publish"
  /\ id' = [id EXCEPT ![t] = last]
  /\ IF Call(t).key \in Barriers THEN UNCHANGED states
                                 ELSE Sets(t, [Held(t) EXCEPT !.rel = @ + 1])
  /\ Goes(t, IF last < Call(t).num_threads - 1 THEN "await" ELSE "complete")
  /\ UNCHANGED <<calls, step, stuck, state, map, flag, got, process>>
-----------------------------------------------------------------------------
(* The last thread to arrive leads.                                        *)

\* RendezvousMap::Complete.
Complete(t) ==
  /\ pc[t] = "complete"
  /\ map' = [map EXCEPT ![Call(t).key] = 0]
  /\ Goes(t, "invoke")
  /\ UNCHANGED <<calls, step, id, stuck, state, states, flag, got, process>>

Invoke(t) ==
  /\ pc[t] = "invoke"
  /\ Check(UseCount(state[t]) = Call(t).num_threads)
  /\ \E r \in Results(Held(t).values) : Sets(t, [Held(t) EXCEPT !.result = r])
  /\ Goes(t, "finish")
  /\ UNCHANGED <<calls, step, id, stuck, state, map, flag, got>>

SetReady(t) ==
  /\ pc[t] = "finish"
  /\ Sets(t, [Held(t) EXCEPT !.ready = TRUE])
  /\ Goes(t, "notify")
  /\ UNCHANGED <<calls, step, id, stuck, state, map, flag, got, process>>

NotifyMutant(t) ==
  /\ pc[t] = "notify"
  /\ LET waiting == {u \in Thread : pc[u] = "waiting" /\ state[u] = state[t]} IN
     IF waiting = {} THEN Goes(t, "return")
     ELSE \E u \in waiting : pc' = [pc EXCEPT ![u] = "await", ![t] = "return"]
  /\ UNCHANGED <<calls, step, id, stuck, state, states, map, flag, got, process>>
Notify(t) ==
  /\ pc[t] = "notify"
  /\ SignalAll(t, "return")
  /\ UNCHANGED <<calls, step, id, stuck, state, states, map, flag, got, process>>
-----------------------------------------------------------------------------
(* The others wait: WaitForReadyWithTimeout.                               *)

Await(t) ==
  /\ pc[t] = "await"
  /\ Goes(t, IF Held(t).ready THEN "return" ELSE "waiting")
  /\ UNCHANGED <<calls, step, id, stuck, state, states, map, flag, got, process>>

\* AwaitAndLogIfStuck: a warning after the first timeout, and the end of the
\* process after the second.
TimeOut(t) ==
  /\ Timeouts /\ pc[t] = "waiting"
  /\ \/ Held(t).ready /\ Goes(t, "return") /\ UNCHANGED <<stuck, process>>
     \/ /\ ~Held(t).ready /\ ~stuck[t]
        /\ stuck' = [stuck EXCEPT ![t] = TRUE] /\ Goes(t, "await")
        /\ UNCHANGED process
     \/ ~Held(t).ready /\ stuck[t] /\ process' = "timeout" /\ UNCHANGED <<stuck, pc>>
  /\ UNCHANGED <<calls, step, id, state, states, map, flag, got>>

ReturnMutant(t) ==
  /\ pc[t] = "return"
  /\ End(t, Held(t).result)
  /\ Sets(t, [Held(t) EXCEPT !.result = NewState.result])
  /\ stuck' = [stuck EXCEPT ![t] = FALSE]
  /\ UNCHANGED <<calls, id, map, flag, process>>
Return(t) ==
  /\ pc[t] = "return"
  /\ End(t, Held(t).result)
  /\ stuck' = [stuck EXCEPT ![t] = FALSE]
  /\ UNCHANGED <<calls, id, states, map, flag, process>>

\* ~InFlightRendezvous.
LeaveMutant(t) ==
  /\ pc[t] = "leave"
  /\ Check(flag \notin {kPending, kCompleted})
  /\ flag' = kCompleted
  /\ step' = [step EXCEPT ![t] = @ + 1]
  /\ Goes(t, "idle")
  /\ UNCHANGED <<calls, id, stuck, state, states, map, got>>
Leave(t) ==
  /\ pc[t] = "leave"
  /\ Check(flag \notin {kPending, kCompleted})
  /\ flag' = IF flag = 1 THEN kCompleted ELSE flag - 1
  /\ step' = [step EXCEPT ![t] = @ + 1]
  /\ Goes(t, "idle")
  /\ UNCHANGED <<calls, id, stuck, state, states, map, got>>
-----------------------------------------------------------------------------
Runs(t) ==
  \/ Calls(t) \/ Alone(t) \/ Join(t) \/ Acknowledge(t) \/ WriteValue(t) \/ Publish(t)
  \/ Complete(t) \/ Invoke(t) \/ SetReady(t) \/ Notify(t)
  \/ Await(t) \/ Return(t) \/ Leave(t)

Next == process = "running" /\ \E t \in Thread : Runs(t) \/ TimeOut(t)

Spec == Init /\ [][Next]_vars

\* Every thread makes its calls and is scheduled; timeouts need not happen.
FairSpec == Spec /\ \A t \in Thread : WF_vars(process = "running" /\ Runs(t))
-----------------------------------------------------------------------------
\* As long as no more than num_threads threads use a key at the same time, the
\* CHECKs of Rendezvous and of RendezvousFlag never abort the process: rounds
\* with the same key that follow each other do not mix.
ChecksHold == process # "check"

\* All participants of a round get the same result, and all or none of them
\* skip it because of the flag.
ParticipantsAgree ==
  \A t \in Thread : \A i \in DOMAIN got[t] : \A c \in Together(calls, t, i) :
    c[2] \in DOMAIN got[c[1]] => got[c[1]][c[2]] = got[t][i]

\* The function sees the values of all participants of its round, each while
\* its owner is still in the call.  (A rendezvous without a result reads none.)
AllValuesSeen ==
  \A t \in Thread : \A i \in DOMAIN got[t] :
    got[t][i].status = "ok" /\ calls[t][i].key \notin Barriers =>
      got[t][i].values = Together(calls, t, i)

\* Nobody leaves a rendezvous before everybody has come.
NobodyLeavesEarly ==
  \A t \in Thread : \A i \in DOMAIN got[t] :
    got[t][i].status # "skipped" =>
      \A c \in Together(calls, t, i) :
        step[c[1]] > c[2] \/ (step[c[1]] = c[2] /\ pc[c[1]] # "idle")

\* If everybody comes, all calls return, unless a timeout ends the process: no
\* wake-up is lost and nobody waits for a thread that skips the round.
AllReturn ==
  <>(process # "running" \/ \A t \in Thread : Len(got[t]) = Len(calls[t]))
=============================================================================
