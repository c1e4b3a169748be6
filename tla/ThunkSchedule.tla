---------------------------- MODULE ThunkSchedule ----------------------------
(***************************************************************************)
(* What ThunkExecutor::Execute promises its caller, without queues,        *)
(* counters or threads (thunk_executor.h:83-88 and the two edge kinds of   *)
(* execution_graph.h:117-138): a thunk starts at most once, after every    *)
(* thunk it has an execution edge from has finished and every thunk it has *)
(* a scheduling edge from has started; the returned event becomes          *)
(* available once, when no thunk is running, concrete if all thunks ran    *)
(* without an error and with the error of a failed thunk otherwise.        *)
(***************************************************************************)
EXTENDS Integers

CONSTANTS Node,      \* the thunks
          Graphs     \* the execution graphs, sets of edges over Node

VARIABLES edges,     \* the execution graph of this execution
          started,   \* thunks whose Execute was called
          finished,  \* thunks whose execute event is available
          failed,    \* thunks whose execute event is an error
          event      \* the returned execute event

vars == <<edges, started, finished, failed, event>>

Init ==
  /\ edges \in Graphs
  /\ started = {} /\ finished = {} /\ failed = {}
  /\ event = "pending"

Start(n) ==
  /\ event = "pending"
  /\ n \notin started
  /\ \A e \in edges : e.to = n =>
       IF e.kind = "execution" THEN e.from \in finished ELSE e.from \in started
  /\ started' = started \cup {n}
  /\ UNCHANGED <<edges, finished, failed, event>>

Finish(n, ok) ==
  /\ n \in started \ finished
  /\ finished' = finished \cup {n}
  /\ failed' = IF ok THEN failed ELSE failed \cup {n}
  /\ UNCHANGED <<edges, started, event>>

Complete ==
  /\ event = "pending"
  /\ started = finished
  /\ \/ failed = {} /\ finished = Node /\ event' = "ok"
     \/ failed # {} /\ event' = "error"
  /\ UNCHANGED <<edges, started, finished, failed>>

Next ==
  \/ \E n \in Node : Start(n) \/ \E ok \in BOOLEAN : Finish(n, ok)
  \/ Complete

Spec == Init /\ [][Next]_vars
=============================================================================
