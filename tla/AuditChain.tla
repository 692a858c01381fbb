----------------------------- MODULE AuditChain -----------------------------
(***************************************************************************)
(* The audit log of one workspace and the operational events bridged from  *)
(* it.  append_audit_event makes four statements: read the hash of the     *)
(* last row, insert the new row, read the next event sequence, insert the  *)
(* event.  Almost every caller runs them in a write transaction; the two   *)
(* link commands run them on a bare connection, where each statement       *)
(* commits by itself.  Several threads append: the main thread runs the    *)
(* synchronous commands, the runtime's workers the Telegram executions.    *)
(*                                                                         *)
(* Abstractions.  Rows are only inserted and SHA-256 does not collide, so  *)
(* the position of a row stands for its hash and a row is the position its *)
(* previous_hash names (0 for GENESIS).  Every query filters on the        *)
(* workspace, so one log is modelled.                                      *)
(***************************************************************************)
EXTENDS Naturals, Sequences, FiniteSetsExt

CONSTANTS
    Threads,        \* the main thread and the workers
    LinkThreads,    \* those that also run the commands of links.rs
    MaxRows,        \* bound: audit rows
    MaxEvents       \* bound: operational events

ASSUME ThreadsAssumption ==
    /\ LinkThreads \subseteq Threads
    /\ MaxRows \in Nat
    /\ MaxEvents \in Nat

None == "none"
ASSUME NoneIsNoThread == None \notin Threads

VARIABLES
    db,         \* what is committed: audit_events and operational_events
    draft,      \* the database as the open write transaction sees it
    lock,       \* the thread whose write transaction is open
    pc,         \* the next statement of a thread
    head,       \* the previous hash it read
    row,        \* the audit row it inserted (0: an event of its own)
    sequence    \* the event sequence it read

local == <<pc, head, row, sequence>>
vars  == <<db, draft, lock, pc, head, row, sequence>>

Empty == [audit |-> <<>>, events |-> <<>>]

Database == [audit : Seq(0..MaxRows),
             events : Seq([sequence : 1..MaxEvents, audit : 0..MaxRows])]

TypeOK ==
    /\ db \in Database
    /\ draft \in Database
    /\ lock \in Threads \cup {None}
    /\ pc \in [Threads -> {"idle", "head", "row", "sequence", "event", "commit"}]
    /\ head \in [Threads -> 0..MaxRows]
    /\ row \in [Threads -> 0..MaxRows]
    /\ sequence \in [Threads -> 0..MaxEvents + 1]

Init ==
    /\ db = Empty
    /\ draft = Empty
    /\ lock = None
    /\ pc = [t \in Threads |-> "idle"]
    /\ head = [t \in Threads |-> 0]
    /\ row = [t \in Threads |-> 0]
    /\ sequence = [t \in Threads |-> 0]

-----------------------------------------------------------------------------
(* The database: a transaction sees its own rows, everybody else sees what *)
(* is committed; a bare INSERT commits at once when no transaction is open.*)

Goto(t, l) == pc' = [pc EXCEPT ![t] = l]

View(t) == IF lock = t THEN draft ELSE db

Write(t, d) ==
    \/ lock = t    /\ draft' = d /\ UNCHANGED <<db, lock>>
    \/ lock = None /\ db' = d    /\ UNCHANGED <<draft, lock>>

\* Mutant of BeginWrite: no transaction, every statement is on its own.
BeginNothing(t) ==
    /\ lock = None
    /\ UNCHANGED <<db, draft, lock>>

\* BEGIN IMMEDIATE, or the first INSERT of a deferred transaction.
BeginWrite(t) ==
    /\ lock = None
    /\ lock' = t
    /\ draft' = db
    /\ UNCHANGED db

\* Mutants of Rollback: the rows of the failed transaction are committed; the
\* transaction is left open.
RollbackKeepsRows(t) ==
    /\ lock' = IF lock = t THEN None ELSE lock
    /\ db' = IF lock = t THEN draft ELSE db
    /\ draft' = IF lock = t THEN Empty ELSE draft

RollbackLeaksLock(t) ==
    UNCHANGED <<db, draft, lock>>

\* ROLLBACK, or the connection is closed with its transaction open.
Rollback(t) ==
    /\ lock' = IF lock = t THEN None ELSE lock
    /\ draft' = IF lock = t THEN Empty ELSE draft
    /\ UNCHANGED db

-----------------------------------------------------------------------------
(* append_audit_event, statement by statement.                             *)

\* write_audit_for_workspace and every command with a transaction of its own.
write_audit(t) ==
    /\ pc[t] = "idle"
    /\ BeginWrite(t)
    /\ Goto(t, "head")
    /\ UNCHANGED <<head, row, sequence>>

\* marketing_link_upsert and marketing_link_evidence_add: no transaction.
link_audit(t) ==
    /\ t \in LinkThreads
    /\ pc[t] = "idle"
    /\ Goto(t, "head")
    /\ UNCHANGED <<db, draft, lock, head, row, sequence>>

\* append_operational_event: a transaction with an event and no audit row.
append_operational_event(t) ==
    /\ pc[t] = "idle"
    /\ BeginWrite(t)
    /\ Goto(t, "sequence")
    /\ row' = [row EXCEPT ![t] = 0]
    /\ UNCHANGED <<head, sequence>>

\* Mutants of LastHash: ORDER BY rowid ASC; the hash of the new row itself.
FirstHash(d) == IF d.audit = <<>> THEN 0 ELSE 1

OwnHash(d) == Len(d.audit) + 1

\* SELECT hash ... ORDER BY rowid DESC LIMIT 1, GENESIS when there is none.
LastHash(d) == Len(d.audit)

ReadHead(t) ==
    /\ pc[t] = "head"
    /\ head' = [head EXCEPT ![t] = LastHash(View(t))]
    /\ Goto(t, "row")
    /\ UNCHANGED <<db, draft, lock, row, sequence>>

InsertRow(t) ==
    /\ pc[t] = "row"
    /\ Len(View(t).audit) < MaxRows
    /\ Write(t, [View(t) EXCEPT !.audit = Append(@, head[t])])
    /\ row' = [row EXCEPT ![t] = Len(View(t).audit) + 1]
    /\ Goto(t, "sequence")
    /\ UNCHANGED <<head, sequence>>

Sequences(d) == {d.events[n].sequence : n \in DOMAIN d.events}

\* SELECT COALESCE(MAX(sequence), 0) + 1
NextSequence(d) == Max(Sequences(d) \cup {0}) + 1

ReadSequence(t) ==
    /\ pc[t] = "sequence"
    /\ sequence' = [sequence EXCEPT ![t] = NextSequence(View(t))]
    /\ Goto(t, "event")
    /\ UNCHANGED <<db, draft, lock, head, row>>

\* A bare connection is done after the event, a transaction commits.
InsertEvent(t) ==
    /\ pc[t] = "event"
    /\ Len(View(t).events) < MaxEvents
    /\ sequence[t] \notin Sequences(View(t))
    /\ Write(t, [View(t) EXCEPT !.events =
                    Append(@, [sequence |-> sequence[t], audit |-> row[t]])])
    /\ Goto(t, IF lock = t THEN "commit" ELSE "idle")
    /\ UNCHANGED <<head, row, sequence>>

\* task_enqueue_bulk appends once per task in one transaction.
AppendAnother(t) ==
    /\ pc[t] = "commit"
    /\ Goto(t, "head")
    /\ UNCHANGED <<db, draft, lock, head, row, sequence>>

Commit(t) ==
    /\ pc[t] = "commit"
    /\ db' = draft
    /\ draft' = Empty
    /\ lock' = None
    /\ Goto(t, "idle")
    /\ UNCHANGED <<head, row, sequence>>

\* A statement fails (busy database, full disk, ux_operational_events_sequence).
Fail(t) ==
    /\ pc[t] # "idle"
    /\ Rollback(t)
    /\ Goto(t, "idle")
    /\ UNCHANGED <<head, row, sequence>>

\* The process dies; the journal rolls the open transaction back at the next open.
Crash ==
    /\ draft' = Empty
    /\ lock' = None
    /\ pc' = [t \in Threads |-> "idle"]
    /\ UNCHANGED <<db, head, row, sequence>>

Step(t) ==
    \/ ReadHead(t) \/ InsertRow(t) \/ ReadSequence(t) \/ InsertEvent(t)
    \/ Commit(t) \/ Fail(t)

Next ==
    \/ \E t \in Threads : \/ write_audit(t) \/ link_audit(t) \/ append_operational_event(t)
                          \/ AppendAnother(t) \/ Step(t)
    \/ Crash

Spec == Init /\ [][Next]_vars

\* A thread that started an append goes on or fails: busy_timeout bounds its waits.
FairSpec == Spec /\ \A t \in Threads : WF_vars(Step(t))

-----------------------------------------------------------------------------
(* Properties.                                                             *)

\* verify_audit_chain over the rows in rowid order.
verify_audit_chain(audit) == \A n \in DOMAIN audit : audit[n] = n - 1

(* Whatever the threads, the failures and the crashes, the committed rows  *)
(* form one chain, so no send and no restore is refused for a broken one.  *)
ChainVerifies == verify_audit_chain(db.audit)

\* The events name the first n audit rows, each once and in their order.
Publishes(events, n) ==
    /\ \A k \in DOMAIN events : events[k].audit <= n
    /\ \A r \in 1..n : \E k \in DOMAIN events : events[k].audit = r
    /\ \A k, l \in DOMAIN events :
          k < l /\ events[k].audit # 0 /\ events[l].audit # 0 => events[k].audit < events[l].audit

(* The audit rows and the event log never part: the events are numbered    *)
(* 1, 2, ... as inserted, and those bridged from the audit log name each   *)
(* committed row once, in the order of the rows.                           *)
EveryRowPublished ==
    /\ \A k \in DOMAIN db.events : db.events[k].sequence = k
    /\ Publishes(db.events, Len(db.audit))

(* No path through an append, not even a failing one, leaves the write     *)
(* transaction open and every other writer waiting.                        *)
LockReleased == \A t \in Threads : lock = t ~> lock # t
=============================================================================
