----------------------- MODULE MCCoordinationService -----------------------
(* Instances of CoordinationService for TLC. *)
EXTENDS CoordinationService, TLC

CONSTANTS t1, t2, x

AllTasks == {{}}
Subsets == {{}, {t1}, {t1, t2}, {t1, x}}
Pair == {{t1, t2}}
Symmetric == Permutations(Task)
=============================================================================
