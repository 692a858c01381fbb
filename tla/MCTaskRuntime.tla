--------------------------- MODULE MCTaskRuntime ---------------------------
(***************************************************************************)
(* TLC instances of TaskRuntime: an external task, and either a second one *)
(* of the same account or a sync task.                                     *)
(***************************************************************************)
EXTENDS TaskRuntime, TLC

CONSTANTS t1, t2, a1, e1, e2

MCAccountOf   == [t \in Tasks |-> a1]
MCPriority    == [t \in Tasks |-> IF t = t1 THEN 1 ELSE 0]
MCMaxAttempts == [t \in Tasks |-> IF t = t1 THEN 2 ELSE 1]
MCOneAttempt  == [t \in Tasks |-> 1]
SameExecutors == Permutations(Executors)
=============================================================================
