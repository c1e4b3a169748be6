------------------------ MODULE MCCoordinationAgent ------------------------
(* Instances of CoordinationAgent for TLC. *)
EXTENDS CoordinationAgent, TLC

AllTasks == {{}}
Symmetric == Permutations(Task)
=============================================================================
