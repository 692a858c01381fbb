---------------------------- MODULE DatabaseSwap ----------------------------
(***************************************************************************)
(* The files behind the database: orbit.sqlite3 (target), the restored     *)
(* copy orbit.restore.sqlite3 (temporary) and the replaced one             *)
(* orbit.previous.sqlite3 (previous).  backup_restore moves them on the    *)
(* main thread; open_db, which every command and every Telegram execution  *)
(* runs first, repairs and cleans them; the process may die between two    *)
(* file operations, and any operation may fail.                            *)
(*                                                                         *)
(* Abstractions.  A file is what it holds: a database is the number of the *)
(* restore that brought it (0 for the first one).  An exists() check and   *)
(* the removal it guards are one step: only the removal has an effect.     *)
(***************************************************************************)
EXTENDS Integers

CONSTANTS
    Workers,        \* concurrent Telegram executions
    MaxRestores,    \* bound: restores started
    IOErrors        \* bound: whether file operations may fail

ASSUME SwapAssumption == MaxRestores \in Nat /\ IOErrors \in BOOLEAN

Main == "main"
Threads == {Main} \cup Workers

VARIABLES
    target, temporary, previous,    \* the contents of the three files
    up,                             \* startup is over: commands are served
    pc,                             \* the next file operation of a thread
    restores,                       \* how many restores were started
    reported                        \* what the last restore told the user

files == <<target, temporary, previous>>
vars  == <<target, temporary, previous, up, pc, restores, reported>>

Databases == 0..MaxRestores
Absent    == -1
Bad       == -2     \* what prepare_backup_database_for_restore refuses
Empty     == -3     \* what SQLite creates when it opens a missing file
File      == Databases \cup {Absent, Bad, Empty}

Opening   == {"check", "recover", "clear", "connect", "clean_copy", "clean_previous"}
\* The restored database is in place and not yet known to be usable.
Validating == {"validate", "drop_target", "put_back"}

\* backup_restore is past its own open_db and has not returned.
Restoring == {"write", "prepare", "drop_previous", "set_aside", "move_in", "forget"}
                \cup Validating

\* What was refused never leaves the copy.
TypeOK ==
    /\ temporary \in File
    /\ target \in File \ {Bad} /\ previous \in File \ {Bad}
    /\ up \in BOOLEAN
    /\ pc \in [Threads -> {"idle"} \cup Opening \cup Restoring]
    /\ restores \in Databases
    /\ reported \in {"nothing", "done", "failed"}

Init ==
    /\ target = 0 /\ temporary = Absent /\ previous = Absent
    /\ up = FALSE
    /\ pc = [p \in Threads |-> "idle"]
    /\ restores = 0
    /\ reported = "nothing"

Goto(p, l) == pc' = [pc EXCEPT ![p] = l]

-----------------------------------------------------------------------------
(* open_db, by a command of the main thread (startup included) or by a     *)
(* Telegram execution.                                                     *)

\* The command that opens the database is backup_restore.
RestoreStart ==
    /\ restores < MaxRestores
    /\ restores' = restores + 1
    /\ reported' = "nothing"
    /\ Goto(Main, "write")

OpenStart(p) ==
    /\ pc[p] = "idle"
    /\ p = Main \/ up
    /\ Goto(p, "check")
    /\ UNCHANGED <<files, up, restores, reported>>

\* recover_database_before_open: the check, then the rename it guards.
RecoverCheck(p) ==
    /\ pc[p] = "check"
    /\ Goto(p, IF target = Absent /\ previous # Absent THEN "recover" ELSE "clear")
    /\ UNCHANGED <<files, up, restores, reported>>

\* Mutant of RecoverRename: the recovery copy is ignored.
RecoverNothing(p) ==
    /\ pc[p] = "recover"
    /\ Goto(p, "clear")
    /\ UNCHANGED <<files, up, restores, reported>>

RecoverRename(p) ==
    /\ pc[p] = "recover"
    /\ previous # Absent
    /\ target' = previous
    /\ previous' = Absent
    /\ Goto(p, "clear")
    /\ UNCHANGED <<temporary, up, restores, reported>>

RecoverClear(p) ==
    /\ pc[p] = "clear"
    /\ temporary' = Absent
    /\ Goto(p, "connect")
    /\ UNCHANGED <<target, previous, up, restores, reported>>

\* Connection::open creates a missing file; then the schema and the migrations.
Connect(p) ==
    /\ pc[p] = "connect"
    /\ target' = IF target = Absent THEN Empty ELSE target
    /\ Goto(p, "clean_copy")
    /\ UNCHANGED <<temporary, previous, up, restores, reported>>

\* cleanup_stale_database_artifacts.
CleanCopy(p) ==
    /\ pc[p] = "clean_copy"
    /\ temporary' = Absent
    /\ Goto(p, "clean_previous")
    /\ UNCHANGED <<target, previous, up, restores, reported>>

\* The database is open: a restore goes on, other callers do what they do with it.
CleanPrevious(p) ==
    /\ pc[p] = "clean_previous"
    /\ previous' = Absent
    /\ up' = TRUE
    /\ \/ Goto(p, "idle") /\ UNCHANGED <<restores, reported>>
       \/ p = Main /\ up /\ RestoreStart
    /\ UNCHANGED <<target, temporary>>

\* The ? of every operation of open_db; at startup the application does not start.
OpenFails(p) ==
    /\ \/ IOErrors /\ pc[p] \in Opening
       \/ pc[p] = "recover" /\ previous = Absent
    /\ Goto(p, "idle")
    /\ UNCHANGED <<files, up, restores, reported>>

open_db(p) ==
    \/ RecoverCheck(p) \/ RecoverRename(p) \/ RecoverClear(p) \/ Connect(p)
    \/ CleanCopy(p) \/ CleanPrevious(p) \/ OpenFails(p)

-----------------------------------------------------------------------------
(* backup_restore, after its own open_db.                                  *)

Report(r) ==
    /\ reported' = r
    /\ Goto(Main, "idle")

\* The decrypted bytes, which may be no valid database or only a part of one.
WriteCopy ==
    /\ pc[Main] = "write"
    /\ temporary' \in {restores, Bad}
    /\ Goto(Main, "prepare")
    /\ UNCHANGED <<target, previous, up, restores, reported>>

\* Mutant of Accepted: the integrity checks are skipped.
AcceptedUnchecked == TRUE

\* prepare_backup_database_for_restore: integrity, schema version, audit chains.
Accepted == temporary # Bad

\* Opening the copy creates it when it is gone, and an empty database is accepted.
Prepare ==
    /\ pc[Main] = "prepare"
    /\ Accepted
    /\ temporary' = IF temporary = Absent THEN Empty ELSE temporary
    /\ Goto(Main, "drop_previous")
    /\ UNCHANGED <<target, previous, up, restores, reported>>

\* A step before the swap fails; what is left of the copy is cleaned at the next open.
RestoreRefused ==
    /\ \/ IOErrors /\ pc[Main] \in {"write", "prepare", "drop_previous"}
       \/ pc[Main] = "prepare" /\ ~Accepted
    /\ Report("failed")
    /\ UNCHANGED <<files, up, restores>>

DropPrevious ==
    /\ pc[Main] = "drop_previous"
    /\ previous' = Absent
    /\ Goto(Main, "set_aside")
    /\ UNCHANGED <<target, temporary, up, restores, reported>>

\* Mutant of SetAside: the database is removed instead of renamed.
RemoveTarget ==
    /\ pc[Main] = "set_aside"
    /\ target' = Absent
    /\ UNCHANGED previous
    /\ Goto(Main, "move_in")
    /\ UNCHANGED <<temporary, up, restores, reported>>

SetAside ==
    /\ pc[Main] = "set_aside"
    /\ target' = Absent
    /\ previous' = IF target = Absent THEN previous ELSE target
    /\ Goto(Main, "move_in")
    /\ UNCHANGED <<temporary, up, restores, reported>>

SetAsideFails ==
    /\ IOErrors
    /\ pc[Main] = "set_aside"
    /\ temporary' = Absent
    /\ Report("failed")
    /\ UNCHANGED <<target, previous, up, restores>>

MoveIn ==
    /\ pc[Main] = "move_in"
    /\ temporary # Absent
    /\ target' = temporary
    /\ temporary' = Absent
    /\ Goto(Main, "validate")
    /\ UNCHANGED <<previous, up, restores, reported>>

\* A rename whose failure is ignored.
PutPreviousBack ==
    \/ /\ previous # Absent
       /\ target' = previous
       /\ previous' = Absent
    \/ /\ IOErrors \/ previous = Absent
       /\ UNCHANGED <<target, previous>>

\* Mutant of MoveInFails: the error is not returned.
MoveInFailsSilently ==
    /\ pc[Main] = "move_in"
    /\ IOErrors \/ temporary = Absent
    /\ temporary' = Absent
    /\ PutPreviousBack
    /\ Report("done")
    /\ UNCHANGED <<up, restores>>

MoveInFails ==
    /\ pc[Main] = "move_in"
    /\ IOErrors \/ temporary = Absent
    /\ temporary' = Absent
    /\ PutPreviousBack
    /\ Report("failed")
    /\ UNCHANGED <<up, restores>>

\* Permissions, schema, migrations, triggers, context and the audit row: all or not.
Validate ==
    /\ pc[Main] = "validate"
    /\ \/ target # Absent /\ Goto(Main, "forget")
       \/ Goto(Main, "drop_target")
    /\ UNCHANGED <<files, up, restores, reported>>

DropTarget ==
    /\ pc[Main] = "drop_target"
    /\ \/ target' = Absent
       \/ IOErrors /\ UNCHANGED target
    /\ Goto(Main, "put_back")
    /\ UNCHANGED <<temporary, previous, up, restores, reported>>

PutBack ==
    /\ pc[Main] = "put_back"
    /\ PutPreviousBack
    /\ Report("failed")
    /\ UNCHANGED <<temporary, up, restores>>

\* The restore is done even when this last removal fails and an error is returned.
Forget ==
    /\ pc[Main] = "forget"
    /\ \/ previous # Absent /\ previous' = Absent /\ Report("done")
       \/ (IOErrors \/ previous = Absent) /\ UNCHANGED previous /\ Report("failed")
    /\ UNCHANGED <<target, temporary, up, restores>>

backup_restore ==
    \/ WriteCopy \/ Prepare \/ RestoreRefused \/ DropPrevious
    \/ SetAside \/ SetAsideFails \/ MoveIn \/ MoveInFails \/ Validate
    \/ DropTarget \/ PutBack \/ Forget

-----------------------------------------------------------------------------
\* The process dies; the files stay.
Crash ==
    /\ up' = FALSE
    /\ pc' = [p \in Threads |-> "idle"]
    /\ reported' = "nothing"
    /\ UNCHANGED <<files, restores>>

Next ==
    \/ \E p \in Threads : OpenStart(p) \/ open_db(p)
    \/ backup_restore
    \/ Crash

Spec == Init /\ [][Next]_vars

-----------------------------------------------------------------------------
(* Properties.                                                             *)

(* What the code does not ensure and the properties need: no Telegram      *)
(* execution opens the database while a restore is moving the files.       *)
RestoreIsAlone == pc[Main] \in Restoring => \A p \in Workers : pc[p] = "idle"

(* docs/OPERATIONS.md:30: the previous database is retained as a recovery  *)
(* copy during replacement: while the restored one is in place and not yet *)
(* known to be usable, the replaced one is still there to be put back.     *)
RecoveryCopyKept == pc[Main] \in Validating => previous \in Databases

(* A restore reported as done has brought the database of its backup, and  *)
(* nothing else took its place.                                            *)
SuccessIsReal == reported = "done" => target = restores

(* Three files, renames, failures and crashes amount to one database that  *)
(* is replaced at once and can be taken back while the old one is kept.    *)
InUse == IF target # Absent THEN target ELSE previous
Kept  == IF previous # Absent THEN previous ELSE InUse
Atomic == INSTANCE AtomicDatabase
            WITH inUse <- InUse, kept <- Kept, First <- 0
ReplacesAtomically == Atomic!Spec
=============================================================================
