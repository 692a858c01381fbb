---------------------------- MODULE MCCoreQueue ----------------------------
(* An external and a sync task; the external one has more attempts than    *)
(* the policy grants and the sync one goes first.                          *)
EXTENDS CoreQueue

CONSTANTS t1, t2

MCPriority    == [t \in Tasks |-> IF t = t2 THEN 1 ELSE 0]
MCMaxAttempts == [t \in Tasks |-> IF t = t1 THEN 3 ELSE 1]
=============================================================================
