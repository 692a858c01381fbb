---------------------------- MODULE MCAuditChain ----------------------------
(***************************************************************************)
(* The TLC instance of AuditChain in which a link command on the main      *)
(* thread meets the appends of a worker.                                   *)
(***************************************************************************)
EXTENDS AuditChain, TLC

CONSTANTS main, worker

=============================================================================
