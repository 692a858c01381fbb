----------------------- MODULE DatabaseOpeningProofs ------------------------
(***************************************************************************)
(* The properties of two parts of open_db that share no variable: the      *)
(* files behind the database, and the active workspace.                    *)
(*                                                                         *)
(* Files, for any number of restores and executions.  The invariant says   *)
(* where the old and the restored database are at each step of a restore   *)
(* and what an opening relies on; but for the types it needs that nobody   *)
(* opens the database during a restore.                                    *)
(*                                                                         *)
(* Workspace, for any number of workers.  The invariant has two parts:     *)
(* what an opening has read names a workspace it may make active, whoever  *)
(* interferes; and, while no worker opened the database beside a command,  *)
(* every copy of the active workspace (stored, in memory, read by an       *)
(* opening, captured) agrees.                                              *)
(***************************************************************************)
EXTENDS DatabaseSwap, WorkspaceContext, TLAPS

-----------------------------------------------------------------------------
(* DatabaseSwap.                                                           *)

(* The restored copy was accepted, and is not yet moved in. *)
Taken == {"drop_previous", "set_aside", "move_in"}

FilesTyped == TypeOK /\ (pc[Main] \in Taken => temporary # Bad)

(* Past the check of recover_database_before_open. *)
PastCheck == {"clear", "connect", "clean_copy", "clean_previous"}

(* What an opening relies on: there is a database in its place, unless it   *)
(* is about to be recovered.                                                *)
OpeningInv ==
    /\ InUse \in Databases
    /\ \A p \in Threads : /\ pc[p] \in PastCheck => target \in Databases
                          /\ pc[p] = "recover" /\ previous # Absent => target = Absent
    /\ \A p \in Workers \ {Main} : pc[p] \in {"idle"} \cup Opening

(* Where the old and the restored database are at each step of a restore. *)
RestoreInv ==
    /\ pc[Main] \in {"write", "prepare", "drop_previous", "set_aside"} => target \in Databases
    /\ pc[Main] = "prepare" => temporary \in {restores, Bad}
    /\ pc[Main] \in Taken => temporary = restores
    /\ pc[Main] = "set_aside" => previous = Absent
    /\ pc[Main] = "move_in" => target = Absent /\ previous \in Databases
    /\ pc[Main] \in {"validate", "drop_target", "forget"} => target = restores
    /\ pc[Main] = "put_back" => target \in {restores, Absent}
    /\ pc[Main] \in Validating \cup {"forget"} => previous \in Databases
    /\ pc[Main] \in Restoring => reported = "nothing"
    /\ reported = "done" => target = restores

SwapInv == FilesTyped /\ OpeningInv /\ RestoreInv

-----------------------------------------------------------------------------
LEMMA DistinctContents ==
    /\ Absent \notin Databases /\ Bad \notin Databases /\ Empty \notin Databases
    /\ Absent # Bad /\ Absent # Empty /\ Bad # Empty
    /\ 0 \in Databases
BY SwapAssumption DEF Absent, Bad, Empty, Databases

LEMMA FilesTypedStep == ASSUME FilesTyped, [Next]_vars PROVE FilesTyped'
<1> USE DistinctContents DEF FilesTyped, TypeOK, Goto, Taken, File
<1>1. CASE UNCHANGED vars
  BY <1>1 DEF vars
<1>2. ASSUME NEW p \in Threads, OpenStart(p) PROVE FilesTyped'
  BY <1>2 DEF OpenStart, files, Opening
<1>3. ASSUME NEW p \in Threads, open_db(p) PROVE FilesTyped'
  <2>1. CASE RecoverCheck(p)
    BY <2>1 DEF RecoverCheck, files, Opening
  <2>2. CASE RecoverRename(p)
    BY <2>2 DEF RecoverRename, Opening
  <2>3. CASE RecoverClear(p)
    BY <2>3 DEF RecoverClear, Opening
  <2>4. CASE Connect(p)
    BY <2>4 DEF Connect, Opening
  <2>5. CASE CleanCopy(p)
    BY <2>5 DEF CleanCopy, Opening
  <2>6. CASE CleanPrevious(p)
    <3>1. /\ previous' = Absent /\ UNCHANGED <<target, temporary>> /\ up' \in BOOLEAN
          /\ \E l \in {"idle", "write"} : pc' = [pc EXCEPT ![p] = l]
      BY <2>6 DEF CleanPrevious, RestoreStart, Main
    <3>2. restores' \in Databases /\ reported' \in {"nothing", "done", "failed"}
      BY <2>6, SwapAssumption DEF CleanPrevious, RestoreStart, Databases
    <3>3. pc'[Main] \in Taken => pc[Main] \in Taken
      BY <3>1
    <3> QED BY <3>1, <3>2, <3>3 DEF Restoring
  <2>7. CASE OpenFails(p)
    BY <2>7 DEF OpenFails, files, Opening
  <2> QED BY <1>3, <2>1, <2>2, <2>3, <2>4, <2>5, <2>6, <2>7 DEF open_db
<1>4. CASE backup_restore
  <2> USE DEF Main, Threads, Restoring, Validating, Report
  <2>1. CASE WriteCopy \/ Prepare \/ RestoreRefused
    BY <2>1 DEF WriteCopy, Prepare, RestoreRefused, Accepted, files
  <2>2. CASE DropPrevious \/ SetAside \/ SetAsideFails
    BY <2>2 DEF DropPrevious, SetAside, SetAsideFails
  <2>3. CASE MoveIn \/ MoveInFails
    BY <2>3 DEF MoveIn, MoveInFails, PutPreviousBack
  <2>4. CASE Validate \/ DropTarget
    BY <2>4 DEF Validate, DropTarget, files
  <2>5. CASE PutBack \/ Forget
    BY <2>5 DEF PutBack, PutPreviousBack, Forget
  <2> QED BY <1>4, <2>1, <2>2, <2>3, <2>4, <2>5 DEF backup_restore
<1>5. CASE Crash
  BY <1>5 DEF Crash, files, Threads
<1> QED BY <1>1, <1>2, <1>3, <1>4, <1>5 DEF Next

LEMMA SwapInvInit == Init => SwapInv
BY DistinctContents
DEF Init, SwapInv, FilesTyped, TypeOK, OpeningInv, RestoreInv, InUse, Taken, PastCheck, Threads,
    Main, Opening, Restoring, Validating, File

(* Nobody opens the database beside a restore, which is past its opening.   *)
LEMMA OpensOutsideRestores ==
    ASSUME SwapInv, RestoreIsAlone, RestoreIsAlone', NEW p \in Threads, OpenStart(p) \/ open_db(p)
    PROVE  /\ pc[p] \in {"idle"} \cup Opening
           /\ pc[Main] \notin Restoring
<1>1. pc[p] \in {"idle"} \cup Opening
  BY DEF OpenStart, open_db, RecoverCheck, RecoverRename, RecoverClear, Connect, CleanCopy,
         CleanPrevious, OpenFails, Opening
<1>2. \A l \in {"idle"} \cup Opening : l \notin Restoring
  BY DEF Opening, Restoring, Validating
<1>3. CASE p = Main
  BY <1>1, <1>2, <1>3
<1>4. CASE p # Main
  <2>1. p \in Workers
    BY <1>4 DEF Threads
  <2>2. CASE OpenStart(p)
    BY <1>4, <2>1, <2>2 DEF OpenStart, Goto, RestoreIsAlone, SwapInv, FilesTyped, TypeOK, Opening, Threads
  <2>3. CASE open_db(p)
    BY <2>1, <2>3 DEF RestoreIsAlone, open_db, RecoverCheck, RecoverRename, RecoverClear, Connect,
                      CleanCopy, CleanPrevious, OpenFails, Opening
  <2> QED BY <2>2, <2>3
<1> QED BY <1>1, <1>3, <1>4

(* An opening leaves a database in its place and the restores alone.        *)
LEMMA OpeningKeepsInv ==
    ASSUME SwapInv, RestoreIsAlone, RestoreIsAlone', NEW p \in Threads, OpenStart(p) \/ open_db(p)
    PROVE  OpeningInv' /\ RestoreInv'
<1>1. /\ pc[p] \in {"idle"} \cup Opening /\ pc[Main] \notin Restoring
      /\ Main \in Threads /\ pc \in [Threads -> {"idle"} \cup Opening \cup Restoring]
      /\ reported = "done" => target \in Databases /\ target = restores
      /\ restores \in Databases
  BY OpensOutsideRestores DEF SwapInv, FilesTyped, TypeOK, Threads, RestoreInv
<1>2. "idle" \notin Restoring /\ \A l \in Opening : l \notin Restoring
  BY DEF Opening, Restoring, Validating
<1>3. /\ Taken \subseteq Restoring /\ Validating \subseteq Restoring
      /\ {"write", "prepare", "forget"} \subseteq Restoring
      /\ "validate" \in Validating /\ "drop_target" \in Validating /\ "put_back" \in Validating
  BY DEF Taken, Restoring, Validating
<1>4. OpeningInv
  BY DEF SwapInv
\* No restore begins: what was reported stays true.
<1>5. ASSUME NEW l \in {"idle"} \cup Opening, pc' = [pc EXCEPT ![p] = l],
             UNCHANGED <<restores, reported>>,
             target' = target \/ target = Absent
      PROVE  RestoreInv'
  <2>1. pc'[Main] \notin Restoring
    BY <1>1, <1>2, <1>5
  <2>2. reported' = "done" => target' = restores'
    BY <1>1, <1>5, DistinctContents
  <2> QED BY <2>1, <2>2, <1>3 DEF RestoreInv, Taken
<1>6. CASE OpenStart(p) \/ RecoverCheck(p) \/ OpenFails(p)
  <2>1. /\ UNCHANGED <<files, restores, reported>>
        /\ \E l \in {"idle"} \cup Opening :
              /\ pc' = [pc EXCEPT ![p] = l]
              /\ l \in PastCheck => target \in Databases
              /\ l = "recover" => target = Absent
    BY <1>4, <1>6
    DEF OpenStart, RecoverCheck, OpenFails, Goto, Opening, PastCheck, OpeningInv, InUse, files
  <2>2. PICK l \in {"idle"} \cup Opening :
              /\ pc' = [pc EXCEPT ![p] = l]
              /\ l \in PastCheck => target \in Databases
              /\ l = "recover" => target = Absent
    BY <2>1
  <2>3. OpeningInv'
    BY <1>1, <1>4, <2>1, <2>2 DEF OpeningInv, InUse, files
  <2>4. RestoreInv'
    BY <1>5, <2>1, <2>2 DEF files
  <2> QED BY <2>3, <2>4
<1>7. CASE RecoverRename(p)
  <2>1. /\ target = Absent /\ previous \in Databases /\ target' = previous /\ previous' = Absent
        /\ pc' = [pc EXCEPT ![p] = "clear"] /\ UNCHANGED <<restores, reported>>
    BY <1>4, <1>7 DEF RecoverRename, Goto, OpeningInv, InUse
  <2>2. OpeningInv'
    BY <1>1, <1>4, <2>1, DistinctContents DEF OpeningInv, InUse, Opening
  <2> QED BY <2>1, <2>2, <1>5 DEF Opening
<1>8. CASE RecoverClear(p) \/ Connect(p) \/ CleanCopy(p)
  <2>1. /\ target \in Databases /\ target' = target /\ previous' = previous
        /\ \E l \in PastCheck : pc' = [pc EXCEPT ![p] = l]
        /\ UNCHANGED <<restores, reported>>
    BY <1>4, <1>8, DistinctContents
    DEF RecoverClear, Connect, CleanCopy, Goto, OpeningInv, PastCheck
  <2>2. OpeningInv'
    BY <1>1, <1>4, <2>1 DEF OpeningInv, InUse, Opening, PastCheck
  <2> QED BY <2>1, <2>2, <1>5 DEF Opening, PastCheck
<1>9. CASE CleanPrevious(p)
  <2>1. /\ target \in Databases /\ target' = target /\ previous' = Absent
        /\ \/ pc' = [pc EXCEPT ![p] = "idle"] /\ UNCHANGED <<restores, reported>>
           \/ p = Main /\ pc' = [pc EXCEPT ![Main] = "write"] /\ reported' = "nothing"
    BY <1>4, <1>9 DEF CleanPrevious, RestoreStart, Goto, OpeningInv, PastCheck
  <2>2. OpeningInv'
    <3>1. \E l \in {"idle", "write"} : pc' = [pc EXCEPT ![p] = l] /\ (l = "idle" \/ p = Main)
      BY <2>1
    <3> QED BY <1>1, <1>4, <2>1, <3>1, DistinctContents DEF OpeningInv, InUse, Opening, PastCheck
  <2>3. CASE p = Main /\ pc' = [pc EXCEPT ![Main] = "write"] /\ reported' = "nothing"
    <3>1. pc'[Main] = "write"
      BY <1>1, <2>3
    <3> QED BY <2>1, <2>2, <2>3, <3>1 DEF RestoreInv, Taken, Validating
  <2> QED BY <2>1, <2>2, <2>3, <1>5
<1> QED BY <1>6, <1>7, <1>8, <1>9 DEF open_db

LEMMA RestoreKeepsInv ==
    ASSUME SwapInv, RestoreIsAlone, backup_restore, FilesTyped'
    PROVE  OpeningInv' /\ RestoreInv'
<1>1. /\ OpeningInv /\ RestoreInv /\ Main \in Threads
      /\ pc \in [Threads -> {"idle"} \cup Opening \cup Restoring]
      /\ temporary \in File /\ restores \in Databases /\ restores # Absent
  BY DistinctContents DEF SwapInv, FilesTyped, TypeOK, Threads
\* The workers are idle, so what an opening relies on is the database in use.
<1>2. ASSUME NEW l \in {"idle"} \cup Restoring, pc[Main] \in Restoring, pc' = [pc EXCEPT ![Main] = l],
             InUse' \in Databases
      PROVE  OpeningInv'
  <2>1. \A p \in Threads : pc'[p] = IF p = Main THEN l ELSE "idle"
    BY <1>1, <1>2 DEF RestoreIsAlone, Threads
  <2>2. "idle" \notin PastCheck /\ "recover" \notin Restoring /\ \A q \in PastCheck : q \notin Restoring
    BY DEF PastCheck, Restoring, Validating
  <2> QED BY <1>2, <2>1, <2>2 DEF OpeningInv, Threads
<1>3. \A l \in {"write", "prepare", "drop_previous", "set_aside", "move_in", "validate",
                "drop_target", "put_back", "forget"} : l \in Restoring
  BY DEF Restoring, Validating
<1> USE <1>1, <1>2, <1>3, DistinctContents DEF Goto, Report, InUse, files
<1>4. CASE WriteCopy \/ Prepare \/ DropPrevious
  <2>1. OpeningInv'
    BY <1>4 DEF WriteCopy, Prepare, DropPrevious, OpeningInv, RestoreInv, Taken
  <2>2. RestoreInv'
    BY <1>4 DEF WriteCopy, Prepare, Accepted, DropPrevious, RestoreInv, Taken, Validating
  <2> QED BY <2>1, <2>2
<1>5. CASE RestoreRefused \/ SetAsideFails
  <2>1. OpeningInv'
    BY <1>5 DEF RestoreRefused, SetAsideFails, OpeningInv
  <2>2. RestoreInv'
    BY <1>5 DEF RestoreRefused, SetAsideFails, RestoreInv, Taken, Validating, Restoring
  <2> QED BY <2>1, <2>2
<1>6. CASE SetAside \/ MoveIn
  <2>1. OpeningInv'
    BY <1>6 DEF SetAside, MoveIn, OpeningInv, RestoreInv, Taken
  <2>2. RestoreInv'
    BY <1>6 DEF SetAside, MoveIn, RestoreInv, Taken, Validating
  <2> QED BY <2>1, <2>2
<1>7. CASE MoveInFails \/ PutBack
  <2>1. OpeningInv'
    BY <1>7 DEF MoveInFails, PutBack, PutPreviousBack, OpeningInv, RestoreInv, Validating
  <2>2. RestoreInv'
    BY <1>7 DEF MoveInFails, PutBack, RestoreInv, Taken, Validating, Restoring
  <2> QED BY <2>1, <2>2
<1>8. CASE Validate \/ DropTarget
  <2>1. OpeningInv'
    BY <1>8 DEF Validate, DropTarget, OpeningInv, RestoreInv, Validating
  <2>2. RestoreInv'
    BY <1>8 DEF Validate, DropTarget, RestoreInv, Taken, Validating
  <2> QED BY <2>1, <2>2
<1>9. CASE Forget
  <2>1. OpeningInv'
    BY <1>9 DEF Forget, OpeningInv, RestoreInv
  <2>2. RestoreInv'
    BY <1>9 DEF Forget, RestoreInv, Taken, Validating, Restoring
  <2> QED BY <2>1, <2>2
<1> QED BY <1>4, <1>5, <1>6, <1>7, <1>8, <1>9 DEF backup_restore

LEMMA SwapStep == ASSUME SwapInv, RestoreIsAlone, RestoreIsAlone', [Next]_vars PROVE SwapInv'
<1>1. FilesTyped'
  BY FilesTypedStep DEF SwapInv
<1>2. CASE UNCHANGED vars
  BY <1>1, <1>2 DEF vars, SwapInv, OpeningInv, RestoreInv, InUse
<1>3. CASE \E p \in Threads : OpenStart(p) \/ open_db(p)
  BY <1>1, <1>3, OpeningKeepsInv DEF SwapInv
<1>4. CASE backup_restore
  BY <1>1, <1>4, RestoreKeepsInv DEF SwapInv
<1>5. CASE Crash
  <2>1. \A p \in Threads : pc'[p] = "idle"
    BY <1>5 DEF Crash
  <2>2. UNCHANGED <<target, temporary, previous, restores>> /\ reported' = "nothing"
    BY <1>5 DEF Crash, files
  <2>3. OpeningInv'
    BY <2>1, <2>2 DEF SwapInv, OpeningInv, InUse, PastCheck, Threads
  <2>4. RestoreInv'
    BY <2>1, <2>2 DEF RestoreInv, Taken, Validating, Threads
  <2> QED BY <1>1, <2>3, <2>4 DEF SwapInv
<1> QED BY <1>2, <1>3, <1>4, <1>5 DEF Next

LEMMA SwapInvariant == Spec /\ []RestoreIsAlone => []SwapInv
<1>1. SwapInv /\ RestoreIsAlone /\ RestoreIsAlone' /\ [Next]_vars => SwapInv'
  BY SwapStep
<1> QED BY SwapInvInit, <1>1, PTL DEF Spec

(* The files hold what they may hold, also when executions open the         *)
(* database during a restore: what prepare_backup_database_for_restore      *)
(* refused never becomes the database.                                      *)
THEOREM FilesTypeCorrect == Spec => []TypeOK
<1>1. Init => FilesTyped
  BY SwapInvInit DEF SwapInv
<1>2. FilesTyped /\ [Next]_vars => FilesTyped'
  BY FilesTypedStep
<1>3. FilesTyped => TypeOK
  BY DEF FilesTyped
<1> QED BY <1>1, <1>2, <1>3, PTL DEF Spec

(* The replaced database stays until the restored one is known to be        *)
(* usable, for any number of restores, failures, crashes and executions,    *)
(* provided that no execution opens the database during a restore.          *)
THEOREM RecoveryCopyLasts == Spec /\ []RestoreIsAlone => []RecoveryCopyKept
<1>1. SwapInv => RecoveryCopyKept
  BY DEF SwapInv, RestoreInv, RecoveryCopyKept
<1> QED BY SwapInvariant, <1>1, PTL

(* Under the same condition a restore reported as done did replace the      *)
(* database by the one of its backup, and it is still there.                *)
THEOREM SuccessHolds == Spec /\ []RestoreIsAlone => []SuccessIsReal
<1>1. SwapInv => SuccessIsReal
  BY DEF SwapInv, RestoreInv, SuccessIsReal
<1> QED BY SwapInvariant, <1>1, PTL

(* There is a database to open at every moment: it is in its place or in    *)
(* the one recover_database_before_open takes it from.                      *)
THEOREM AlwaysADatabase == Spec /\ []RestoreIsAlone => [](InUse \in Databases)
<1>1. SwapInv => InUse \in Databases
  BY DEF SwapInv, OpeningInv
<1> QED BY SwapInvariant, <1>1, PTL

-----------------------------------------------------------------------------
(* The refinement.                                                          *)

AtomicStep == Atomic!Replace \/ Atomic!TakeBack \/ Atomic!Forget

LEMMA StepIsAtomic ==
    ASSUME SwapInv, SwapInv', RestoreIsAlone, RestoreIsAlone', [Next]_vars
    PROVE  [AtomicStep]_<<InUse, Kept>>
<1>1. /\ OpeningInv /\ RestoreInv /\ restores \in Databases /\ restores # Absent /\ InUse' \in Databases
  BY DistinctContents DEF SwapInv, FilesTyped, TypeOK, OpeningInv
<1> USE <1>1, DistinctContents
    DEF AtomicStep, Atomic!Replace, Atomic!TakeBack, Atomic!Forget, InUse, Kept, files
<1>2. CASE UNCHANGED files
  BY <1>2
\* A copy is forgotten while the database is in its place.
<1>3. ASSUME target \in Databases, target' = target, previous' = Absent
      PROVE  Atomic!Forget
  BY <1>3
<1>4. ASSUME NEW p \in Threads, OpenStart(p) \/ open_db(p)
      PROVE  [AtomicStep]_<<InUse, Kept>>
  <2>1. CASE OpenStart(p) \/ RecoverCheck(p) \/ OpenFails(p) \/ RecoverClear(p) \/ CleanCopy(p)
    BY <2>1 DEF OpenStart, RecoverCheck, OpenFails, RecoverClear, CleanCopy
  <2>2. CASE RecoverRename(p)
    BY <2>2 DEF RecoverRename, OpeningInv
  <2>3. CASE Connect(p)
    BY <2>3 DEF Connect, OpeningInv, PastCheck
  <2>4. CASE CleanPrevious(p)
    BY <1>3, <2>4 DEF CleanPrevious, OpeningInv, PastCheck
  <2> QED BY <1>4, <2>1, <2>2, <2>3, <2>4 DEF open_db
<1>5. CASE backup_restore
  <2>1. CASE WriteCopy \/ Prepare \/ RestoreRefused \/ SetAsideFails \/ Validate
    BY <2>1 DEF WriteCopy, Prepare, RestoreRefused, SetAsideFails, Validate
  <2>2. CASE DropPrevious
    BY <1>3, <2>2 DEF DropPrevious, RestoreInv, Taken
  <2>3. CASE SetAside
    BY <2>3 DEF SetAside, RestoreInv, Taken
  <2>4. CASE MoveIn
    BY <2>4 DEF MoveIn, RestoreInv, Taken
  <2>5. CASE MoveInFails
    BY <2>5 DEF MoveInFails, PutPreviousBack, RestoreInv
  <2>6. CASE DropTarget
    BY <2>6 DEF DropTarget, RestoreInv, Validating
  <2>7. CASE PutBack
    BY <2>7 DEF PutBack, PutPreviousBack, RestoreInv, Validating
  <2>8. CASE Forget
    BY <1>3, <2>8 DEF Forget, RestoreInv
  <2> QED BY <1>5, <2>1, <2>2, <2>3, <2>4, <2>5, <2>6, <2>7, <2>8 DEF backup_restore
<1>6. CASE Crash
  BY <1>6 DEF Crash
<1> QED BY <1>2, <1>4, <1>5, <1>6 DEF Next, vars

(* Files, renames, failures and crashes are one database that is replaced   *)
(* in one step, as long as no execution opens it during a restore.          *)
THEOREM SwapIsAtomic == Spec /\ []RestoreIsAlone => ReplacesAtomically
<1>1. Init => Atomic!Init
  BY DistinctContents DEF Init, Atomic!Init, InUse, Kept
<1>2. /\ SwapInv /\ SwapInv' /\ RestoreIsAlone /\ RestoreIsAlone' /\ [Next]_vars
      => [Atomic!Replace \/ Atomic!TakeBack \/ Atomic!Forget]_<<InUse, Kept>>
  BY StepIsAtomic DEF AtomicStep
<1> QED BY SwapInvariant, <1>1, <1>2, PTL DEF Spec, ReplacesAtomically, Atomic!Spec

-----------------------------------------------------------------------------
(* WorkspaceContext.                                                       *)

(* An opening that has selected a workspace, or has read the stored one.    *)
HasSelected(t) == at[t] \in {"write_stored", "add_default", "set_active"}

HasRead(t)     == at[t] = "read_members" \/ HasSelected(t)

(* The startup's opening is complete. *)
Ready ==
    /\ at[MainThread] # "down"
    /\ command.kind # "setup" \/ at[MainThread] \in {"body", "idle"}

Writing == command.kind \in {"write", "publish"}

AccessInv ==
    /\ Ready => Accessible(active)
    /\ \A t \in ContextThreads :
          /\ HasRead(t) => pick[t] \in Workspaces
          /\ HasSelected(t) => pick[t] \in members \cup {DefaultWorkspace}
          /\ at[t] = "set_active" => Accessible(DefaultWorkspace)
    /\ \A t \in TelegramWorkers :
          /\ at[t] \in OpeningSteps \cup {"idle"}
          /\ Busy(t) => Ready
    /\ command.kind # "setup" => command.ws \in Workspaces
    /\ Writing => Accessible(command.ws)
    /\ at[MainThread] = "activate" => command.ws \in members /\ command.kind # "setup"
    /\ at[MainThread] = "audit" => Writing /\ command.ws \in members

(* A startup that found no workspace to enter has selected the default one. *)
StartupAgrees ==
    /\ at[MainThread] = "read_members" /\ stored # NoWorkspace => pick[MainThread] = stored
    /\ at[MainThread] = "write_stored" /\ stored \in members => pick[MainThread] = stored
    /\ at[MainThread] \in {"add_default", "set_active"} => pick[MainThread] = stored
    /\ HasSelected(MainThread) /\ pick[MainThread] \notin members =>
          pick[MainThread] = DefaultWorkspace /\ members = {}

(* The workspace that an opening selects is the same for all: the stored    *)
(* one, or, while that is the default one without an active membership, the *)
(* only one there is to enter.                                              *)
SelectionAgrees ==
    /\ stored \notin members => stored = DefaultWorkspace /\ DefaultWorkspace \in inactive
    /\ stored \notin members \/ active \notin members => \A v, w \in members : v = w
    /\ \A t \in ContextThreads :
          /\ at[t] = "read_members" /\ pick[t] # stored =>
                /\ stored \in members /\ pick[t] = DefaultWorkspace
                /\ DefaultWorkspace \in inactive
                /\ \A v, w \in members : v = w
          /\ HasSelected(t) =>
                IF stored \in members \/ members = {} THEN pick[t] = stored
                                                     ELSE pick[t] \in members
          /\ at[t] \in {"add_default", "set_active"} => pick[t] = stored

Agreement ==
    /\ \A t \in TelegramWorkers : Busy(t) => at[MainThread] = "idle"
    /\ choice # NoWorkspace => choice \in members /\ stored = choice
    /\ ~Ready => StartupAgrees
    /\ Ready => SelectionAgrees
    /\ Ready /\ at[MainThread] # "activate" /\ stored # active =>
          /\ active \notin members /\ choice = NoWorkspace
          /\ \E t \in ContextThreads : at[t] \in {"add_default", "set_active"}
    /\ at[MainThread] = "activate" => stored = command.ws
    /\ at[MainThread] = "body" /\ stored \notin members => members = {}
    /\ Writing /\ at[MainThread] \notin {"idle", "down"} /\ command.ws \in members =>
          command.ws = active
    /\ trail.row = trail.audit

ContextInv == ContextTypeOK /\ AccessInv /\ (~overlapped => Agreement)

-----------------------------------------------------------------------------
LEMMA InitContextInv == ContextInit => ContextInv
<1> SUFFICES ASSUME ContextInit PROVE ContextInv
  OBVIOUS
<1>1. /\ at[MainThread] = "down"
      /\ \A t \in TelegramWorkers : at[t] = "idle"
      /\ command.kind = "setup"
  BY ContextAssumption DEF ContextInit, ContextThreads, NoCommand
<1>2. ContextTypeOK
  BY ContextAssumption DEF ContextInit, ContextTypeOK, ContextThreads, CommandSteps, Kinds,
     NoCommand
<1>3. AccessInv /\ Agreement
  BY <1>1 DEF ContextInit, ContextThreads, AccessInv, Agreement, HasRead, HasSelected, Ready,
     Writing, Busy, Accessible, StartupAgrees, SelectionAgrees
<1> QED BY <1>2, <1>3 DEF ContextInv

LEMMA ReadStoredKeepsInv == ASSUME ContextInv, NEW t \in ContextThreads, ReadStored(t) PROVE ContextInv'
<1> USE ContextAssumption DEF ReadStored, GoOn, ContextThreads, MainThread, NoWorkspace
<1>1. ContextTypeOK'
  BY DEF ContextInv, ContextTypeOK, AccessInv, OpeningSteps, CommandSteps, Kinds, HasRead,
         HasSelected
<1>2. AccessInv'
  BY DEF ContextInv, ContextTypeOK, AccessInv, OpeningSteps, CommandSteps, Kinds, HasRead,
         HasSelected, Ready, Writing, Busy, Accessible
<1>3. ~overlapped' => Agreement'
  BY DEF ContextInv, ContextTypeOK, AccessInv, Agreement, OpeningSteps, CommandSteps, Kinds,
         HasRead, HasSelected, Ready, Writing, Busy, Accessible, StartupAgrees,
         SelectionAgrees
<1> QED BY <1>1, <1>2, <1>3 DEF ContextInv

LEMMA ReadMembersKeepsInv == ASSUME ContextInv, NEW t \in ContextThreads, ReadMembers(t) PROVE ContextInv'
<1> USE ContextAssumption DEF ReadMembers, Selectable, GoOn, ContextThreads, MainThread, NoWorkspace
<1>1. ContextTypeOK'
  BY DEF ContextInv, ContextTypeOK, AccessInv, OpeningSteps, CommandSteps, Kinds, HasRead,
         HasSelected
<1>2. AccessInv'
  BY DEF ContextInv, ContextTypeOK, AccessInv, OpeningSteps, CommandSteps, Kinds, HasRead,
         HasSelected, Ready, Writing, Busy, Accessible
<1>3. ~overlapped' => Agreement'
  BY DEF ContextInv, ContextTypeOK, AccessInv, Agreement, OpeningSteps, CommandSteps, Kinds,
         HasRead, HasSelected, Ready, Writing, Busy, Accessible, StartupAgrees,
         SelectionAgrees
<1> QED BY <1>1, <1>2, <1>3 DEF ContextInv

LEMMA WriteStoredKeepsInv == ASSUME ContextInv, NEW t \in ContextThreads, WriteStored(t) PROVE ContextInv'
<1> USE ContextAssumption DEF WriteStored, GoOn, ContextThreads, MainThread, NoWorkspace
<1>1. ContextTypeOK'
  BY DEF ContextInv, ContextTypeOK, AccessInv, OpeningSteps, CommandSteps, Kinds, HasRead,
         HasSelected
<1>2. AccessInv'
  BY DEF ContextInv, ContextTypeOK, AccessInv, OpeningSteps, CommandSteps, Kinds, HasRead,
         HasSelected, Ready, Writing, Busy, Accessible
<1>3. ~overlapped' => Agreement'
  BY DEF ContextInv, ContextTypeOK, AccessInv, Agreement, OpeningSteps, CommandSteps, Kinds,
         HasRead, HasSelected, Ready, Writing, Busy, Accessible, StartupAgrees,
         SelectionAgrees
<1> QED BY <1>1, <1>2, <1>3 DEF ContextInv

LEMMA AddDefaultKeepsInv == ASSUME ContextInv, NEW t \in ContextThreads, AddDefault(t) PROVE ContextInv'
<1> USE ContextAssumption DEF AddDefault, GoOn, ContextThreads, MainThread, NoWorkspace
<1>1. ContextTypeOK'
  BY DEF ContextInv, ContextTypeOK, AccessInv, OpeningSteps, CommandSteps, Kinds, HasRead,
         HasSelected
<1>2. AccessInv'
  BY DEF ContextInv, ContextTypeOK, AccessInv, OpeningSteps, CommandSteps, Kinds, HasRead,
         HasSelected, Ready, Writing, Busy, Accessible
<1>3. ~overlapped' => Agreement'
  BY DEF ContextInv, ContextTypeOK, AccessInv, Agreement, OpeningSteps, CommandSteps, Kinds,
         HasRead, HasSelected, Ready, Writing, Busy, Accessible, StartupAgrees,
         SelectionAgrees
<1> QED BY <1>1, <1>2, <1>3 DEF ContextInv

LEMMA SetActiveKeepsInv == ASSUME ContextInv, NEW t \in ContextThreads, SetActive(t) PROVE ContextInv'
<1> USE ContextAssumption DEF SetActive, GoOn, ContextThreads, MainThread, NoWorkspace
<1>1. ContextTypeOK'
  BY DEF ContextInv, ContextTypeOK, AccessInv, OpeningSteps, CommandSteps, Kinds, HasRead,
         HasSelected
<1>2. AccessInv'
  BY DEF ContextInv, ContextTypeOK, AccessInv, OpeningSteps, CommandSteps, Kinds, HasRead,
         HasSelected, Ready, Writing, Busy, Accessible
<1>3. ~overlapped' => Agreement'
  <2> SUFFICES ASSUME ~overlapped' PROVE Agreement'
    OBVIOUS
  <2> USE DEF ContextInv, ContextTypeOK, AccessInv, Agreement, OpeningSteps, CommandSteps,
              Kinds, HasRead, HasSelected, Ready, Writing, Busy
  <2>1. CASE Ready
    <3>1. SelectionAgrees /\ SelectionAgrees'
      BY <2>1 DEF SelectionAgrees
    <3> QED BY <2>1, <3>1 DEF SelectionAgrees
  <2>2. CASE ~Ready
    <3>1. t = MainThread /\ StartupAgrees
      BY <2>2
    <3>2. SelectionAgrees'
      BY <2>2, <3>1 DEF StartupAgrees, SelectionAgrees, Accessible
    <3> QED BY <2>2, <3>1, <3>2 DEF StartupAgrees, Accessible
  <2> QED BY <2>1, <2>2
<1> QED BY <1>1, <1>2, <1>3 DEF ContextInv

LEMMA StartupKeepsInv == ASSUME ContextInv, Startup PROVE ContextInv'
<1> USE ContextAssumption DEF Startup, OpenBegins, NoCommand, GoOn, ContextThreads, MainThread, NoWorkspace
<1>1. ContextTypeOK'
  BY DEF ContextInv, ContextTypeOK, AccessInv, OpeningSteps, CommandSteps, Kinds, HasRead,
         HasSelected
<1>2. AccessInv'
  BY DEF ContextInv, ContextTypeOK, AccessInv, OpeningSteps, CommandSteps, Kinds, HasRead,
         HasSelected, Ready, Writing, Busy, Accessible
<1>3. ~overlapped' => Agreement'
  BY DEF ContextInv, ContextTypeOK, AccessInv, Agreement, OpeningSteps, CommandSteps, Kinds,
         HasRead, HasSelected, Ready, Writing, Busy, Accessible, StartupAgrees,
         SelectionAgrees
<1> QED BY <1>1, <1>2, <1>3 DEF ContextInv

LEMMA CommandBeginsKeepsInv == ASSUME ContextInv, NEW kind \in Kinds \ {"setup"}, NEW w \in Workspaces, CommandBegins(kind, w) PROVE ContextInv'
<1> USE ContextAssumption DEF CommandBegins, OpenBegins, GoOn, ContextThreads, MainThread, NoWorkspace
<1>1. ContextTypeOK'
  BY DEF ContextInv, ContextTypeOK, AccessInv, OpeningSteps, CommandSteps, Kinds, HasRead,
         HasSelected
<1>2. AccessInv'
  BY DEF ContextInv, ContextTypeOK, AccessInv, OpeningSteps, CommandSteps, Kinds, HasRead,
         HasSelected, Ready, Writing, Busy, Accessible
<1>3. ~overlapped' => Agreement'
  BY DEF ContextInv, ContextTypeOK, AccessInv, Agreement, OpeningSteps, CommandSteps, Kinds,
         HasRead, HasSelected, Ready, Writing, Busy, Accessible, StartupAgrees,
         SelectionAgrees
<1> QED BY <1>1, <1>2, <1>3 DEF ContextInv

LEMMA ExecutionBeginsKeepsInv == ASSUME ContextInv, NEW t \in TelegramWorkers, ExecutionBegins(t) PROVE ContextInv'
<1> USE ContextAssumption DEF ExecutionBegins, OpenBegins, GoOn, ContextThreads, MainThread, NoWorkspace
<1>1. ContextTypeOK'
  BY DEF ContextInv, ContextTypeOK, AccessInv, OpeningSteps, CommandSteps, Kinds, HasRead,
         HasSelected
<1>2. AccessInv'
  BY DEF ContextInv, ContextTypeOK, AccessInv, OpeningSteps, CommandSteps, Kinds, HasRead,
         HasSelected, Ready, Writing, Busy, Accessible
<1>3. ~overlapped' => Agreement'
  BY DEF ContextInv, ContextTypeOK, AccessInv, Agreement, OpeningSteps, CommandSteps, Kinds,
         HasRead, HasSelected, Ready, Writing, Busy, Accessible, StartupAgrees,
         SelectionAgrees
<1> QED BY <1>1, <1>2, <1>3 DEF ContextInv

LEMMA BodyEndsKeepsInv == ASSUME ContextInv, BodyEnds PROVE ContextInv'
<1> USE ContextAssumption DEF BodyEnds, Refused, GoOn, ContextThreads, MainThread, NoWorkspace
<1>1. ContextTypeOK'
  BY DEF ContextInv, ContextTypeOK, AccessInv, OpeningSteps, CommandSteps, Kinds, HasRead,
         HasSelected
<1>2. AccessInv'
  BY DEF ContextInv, ContextTypeOK, AccessInv, OpeningSteps, CommandSteps, Kinds, HasRead,
         HasSelected, Ready, Writing, Busy, Accessible
<1>3. ~overlapped' => Agreement'
  BY DEF ContextInv, ContextTypeOK, AccessInv, Agreement, OpeningSteps, CommandSteps, Kinds,
         HasRead, HasSelected, Ready, Writing, Busy, Accessible, StartupAgrees,
         SelectionAgrees
<1> QED BY <1>1, <1>2, <1>3 DEF ContextInv

LEMMA WriteRowKeepsInv == ASSUME ContextInv, WriteRow PROVE ContextInv'
<1> USE ContextAssumption DEF WriteRow, Refused, GoOn, ContextThreads, MainThread, NoWorkspace
<1>1. ContextTypeOK'
  BY DEF ContextInv, ContextTypeOK, AccessInv, OpeningSteps, CommandSteps, Kinds, HasRead,
         HasSelected
<1>2. AccessInv'
  BY DEF ContextInv, ContextTypeOK, AccessInv, OpeningSteps, CommandSteps, Kinds, HasRead,
         HasSelected, Ready, Writing, Busy, Accessible
<1>3. ~overlapped' => Agreement'
  BY DEF ContextInv, ContextTypeOK, AccessInv, Agreement, OpeningSteps, CommandSteps, Kinds,
         HasRead, HasSelected, Ready, Writing, Busy, Accessible, StartupAgrees,
         SelectionAgrees
<1> QED BY <1>1, <1>2, <1>3 DEF ContextInv

LEMMA WriteAuditKeepsInv == ASSUME ContextInv, write_audit PROVE ContextInv'
<1> USE ContextAssumption DEF write_audit, GoOn, ContextThreads, MainThread, NoWorkspace
<1>1. ContextTypeOK'
  BY DEF ContextInv, ContextTypeOK, AccessInv, OpeningSteps, CommandSteps, Kinds, HasRead,
         HasSelected
<1>2. AccessInv'
  BY DEF ContextInv, ContextTypeOK, AccessInv, OpeningSteps, CommandSteps, Kinds, HasRead,
         HasSelected, Ready, Writing, Busy, Accessible
<1>3. ~overlapped' => Agreement'
  BY DEF ContextInv, ContextTypeOK, AccessInv, Agreement, OpeningSteps, CommandSteps, Kinds,
         HasRead, HasSelected, Ready, Writing, Busy, Accessible, StartupAgrees,
         SelectionAgrees
<1> QED BY <1>1, <1>2, <1>3 DEF ContextInv

LEMMA WorkspaceCreateKeepsInv == ASSUME ContextInv, workspace_create PROVE ContextInv'
<1> USE ContextAssumption DEF workspace_create, Refused, GoOn, ContextThreads, MainThread, NoWorkspace
<1>1. ContextTypeOK'
  BY DEF ContextInv, ContextTypeOK, AccessInv, OpeningSteps, CommandSteps, Kinds, HasRead,
         HasSelected
<1>2. AccessInv'
  BY DEF ContextInv, ContextTypeOK, AccessInv, OpeningSteps, CommandSteps, Kinds, HasRead,
         HasSelected, Ready, Writing, Busy, Accessible
<1>3. ~overlapped' => Agreement'
  BY DEF ContextInv, ContextTypeOK, AccessInv, Agreement, OpeningSteps, CommandSteps, Kinds,
         HasRead, HasSelected, Ready, Writing, Busy, Accessible, StartupAgrees,
         SelectionAgrees
<1> QED BY <1>1, <1>2, <1>3 DEF ContextInv

LEMMA WorkspaceSelectKeepsInv == ASSUME ContextInv, workspace_select PROVE ContextInv'
<1> USE ContextAssumption DEF workspace_select, Refused, GoOn, ContextThreads, MainThread, NoWorkspace
<1>1. ContextTypeOK'
  BY DEF ContextInv, ContextTypeOK, AccessInv, OpeningSteps, CommandSteps, Kinds, HasRead,
         HasSelected
<1>2. AccessInv'
  BY DEF ContextInv, ContextTypeOK, AccessInv, OpeningSteps, CommandSteps, Kinds, HasRead,
         HasSelected, Ready, Writing, Busy, Accessible
<1>3. ~overlapped' => Agreement'
  BY DEF ContextInv, ContextTypeOK, AccessInv, Agreement, OpeningSteps, CommandSteps, Kinds,
         HasRead, HasSelected, Ready, Writing, Busy, Accessible, StartupAgrees,
         SelectionAgrees
<1> QED BY <1>1, <1>2, <1>3 DEF ContextInv

LEMMA ActivateKeepsInv == ASSUME ContextInv, Activate PROVE ContextInv'
<1> USE ContextAssumption DEF Activate, GoOn, ContextThreads, MainThread, NoWorkspace
<1>1. ContextTypeOK'
  BY DEF ContextInv, ContextTypeOK, AccessInv, OpeningSteps, CommandSteps, Kinds, HasRead,
         HasSelected
<1>2. AccessInv'
  BY DEF ContextInv, ContextTypeOK, AccessInv, OpeningSteps, CommandSteps, Kinds, HasRead,
         HasSelected, Ready, Writing, Busy, Accessible
<1>3. ~overlapped' => Agreement'
  BY DEF ContextInv, ContextTypeOK, AccessInv, Agreement, OpeningSteps, CommandSteps, Kinds,
         HasRead, HasSelected, Ready, Writing, Busy, Accessible, StartupAgrees,
         SelectionAgrees
<1> QED BY <1>1, <1>2, <1>3 DEF ContextInv

LEMMA ProcessEndsKeepsInv == ASSUME ContextInv, ProcessEnds PROVE ContextInv'
<1> USE ContextAssumption DEF ProcessEnds, NoCommand, GoOn, ContextThreads, MainThread, NoWorkspace
<1>1. ContextTypeOK'
  BY DEF ContextInv, ContextTypeOK, AccessInv, OpeningSteps, CommandSteps, Kinds, HasRead,
         HasSelected
<1>2. AccessInv'
  BY DEF ContextInv, ContextTypeOK, AccessInv, OpeningSteps, CommandSteps, Kinds, HasRead,
         HasSelected, Ready, Writing, Busy, Accessible
<1>3. ~overlapped' => Agreement'
  BY DEF ContextInv, ContextTypeOK, AccessInv, Agreement, OpeningSteps, CommandSteps, Kinds,
         HasRead, HasSelected, Ready, Writing, Busy, Accessible, StartupAgrees,
         SelectionAgrees
<1> QED BY <1>1, <1>2, <1>3 DEF ContextInv

LEMMA NextContextInv == ContextInv /\ [ContextNext]_contextVars => ContextInv'
<1> SUFFICES ASSUME ContextInv, [ContextNext]_contextVars PROVE ContextInv'
  OBVIOUS
<1>1. CASE UNCHANGED contextVars
  BY <1>1 DEF contextVars, ContextInv, ContextTypeOK, AccessInv, Agreement, HasRead,
     HasSelected, Ready, Writing, Busy, Accessible, StartupAgrees, SelectionAgrees
<1>2. CASE ContextNext
  BY <1>2, ReadStoredKeepsInv, ReadMembersKeepsInv, WriteStoredKeepsInv, AddDefaultKeepsInv, SetActiveKeepsInv, StartupKeepsInv, CommandBeginsKeepsInv, ExecutionBeginsKeepsInv, BodyEndsKeepsInv, WriteRowKeepsInv, WriteAuditKeepsInv, WorkspaceCreateKeepsInv, WorkspaceSelectKeepsInv, ActivateKeepsInv, ProcessEndsKeepsInv DEF ContextNext, EnsureContext
<1> QED BY <1>1, <1>2

LEMMA ContextInvariant == ContextSpec => []ContextInv
BY InitContextInv, NextContextInv, PTL DEF ContextSpec

-----------------------------------------------------------------------------
(* Every variable keeps its type. *)
THEOREM ContextTyped == ContextSpec => []ContextTypeOK
BY ContextInvariant, PTL DEF ContextInv

(* No command finds itself in a workspace the user may not enter, but for   *)
(* the default one where the user's membership of it was deactivated.       *)
THEOREM ActiveAccessible == ContextSpec => []ActiveIsAccessible
<1>1. ContextInv => ActiveIsAccessible
  BY DEF ContextInv, AccessInv, ActiveIsAccessible, Ready, Writing
<1> QED BY <1>1, ContextInvariant, PTL

(* A selection lasts while no worker opens the database beside a command.   *)
THEOREM SelectionLasts == ContextSpec => []SelectionKept
<1>1. ContextInv => SelectionKept
  BY DEF ContextInv, Agreement, SelectionKept, Ready, ContextThreads
<1> QED BY <1>1, ContextInvariant, PTL

(* Under the same condition the audit event belongs to the row's workspace. *)
THEOREM AuditInWorkspace == ContextSpec => []AuditFollowsRow
<1>1. ContextInv => AuditFollowsRow
  BY DEF ContextInv, Agreement, AuditFollowsRow
<1> QED BY <1>1, ContextInvariant, PTL
=============================================================================
