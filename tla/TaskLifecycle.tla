--------------------------- MODULE TaskLifecycle ---------------------------
(***************************************************************************)
(* What the desktop runtime and the core library promise about their       *)
(* tasks, whatever commands, executors, crashes and restarts do: a task    *)
(* only moves along the legal edges of its life cycle, a finished task     *)
(* never moves again, and no executor hands a task to the provider while   *)
(* another one's request for it is there.  TaskRuntime and CoreQueue       *)
(* implement this specification.                                           *)
(***************************************************************************)

CONSTANTS Tasks,        \* task identities
          Sync,         \* the tasks of kind "sync", which are never sent
          Executors     \* who may send a task

VARIABLES status,       \* the column tasks.status; "absent" before the INSERT
          sending       \* the requests at the provider: <<task, executor>>

vars == <<status, sending>>

Active   == {"pending", "running", "awaiting_approval", "awaiting_user_action"}
Terminal == {"succeeded", "failed", "blocked", "cancelled"}
Status   == {"absent"} \cup Active \cup Terminal

\* The edges of the life cycle, over every command and the recovery.
Edges ==
    {<<"pending", "running">>, <<"running", "pending">>,
     <<"awaiting_approval", "pending">>, <<"awaiting_user_action", "pending">>,
     <<"running", "succeeded">>, <<"running", "failed">>}
    \cup {"pending", "running"} \X
         {"awaiting_approval", "awaiting_user_action", "blocked", "cancelled"}

Init == /\ status = [t \in Tasks |-> "absent"]
        /\ sending = {}

\* Tasks enter the table, several at once from a bulk request.
Accept(S) == /\ \A t \in S : status[t] = "absent"
             /\ status' = [t \in Tasks |-> IF t \in S THEN "pending" ELSE status[t]]
             /\ UNCHANGED sending

Move(t) == /\ \E s \in Status : /\ <<status[t], s>> \in Edges
                              /\ status' = [status EXCEPT ![t] = s]
           /\ UNCHANGED sending

StartSend(t, e) == /\ t \notin Sync
                   /\ \A request \in sending : request[1] # t
                   /\ sending' = sending \cup {<<t, e>>}
                   /\ UNCHANGED status

EndSend(t, e) == /\ <<t, e>> \in sending
                 /\ sending' = sending \ {<<t, e>>}
                 /\ UNCHANGED status

\* The process dies: every request it was waiting for is abandoned.
Die == /\ sending' = {}
       /\ UNCHANGED status

Next == \/ \E S \in SUBSET Tasks : Accept(S)
        \/ \E t \in Tasks : Move(t)
        \/ \E t \in Tasks, e \in Executors : StartSend(t, e) \/ EndSend(t, e)
        \/ Die

Spec == Init /\ [][Next]_vars
=============================================================================
