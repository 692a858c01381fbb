--------------------------- MODULE MCAuditAppends ----------------------------
(***************************************************************************)
(* The TLC instance of AuditChain in which every append is safe: either    *)
(* all of them run in transactions, on any thread, or the main thread is   *)
(* alone and runs also the link commands, which have no transaction.       *)
(* "alone" is chosen in the initial state.                                 *)
(***************************************************************************)
EXTENDS AuditChain

CONSTANTS main, worker

ASSUME MainAssumption == main \in Threads

VARIABLE alone

MCInit == Init /\ alone \in BOOLEAN

Appends(t) == write_audit(t) \/ append_operational_event(t) \/ AppendAnother(t) \/ Step(t)

MCNext ==
    /\ \/ ~alone /\ \E t \in Threads : Appends(t)
       \/ alone /\ (Appends(main) \/ link_audit(main))
       \/ Crash
    /\ UNCHANGED alone

MCSpec == MCInit /\ [][MCNext]_<<vars, alone>> /\ \A t \in Threads : WF_vars(Step(t))

(* The rows and the events agree where every append is a transaction: a row *)
(* of a link command is on its own until its event follows.                 *)
TransactionsPublish == ~alone => EveryRowPublished
=============================================================================
