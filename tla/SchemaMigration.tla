-------------------------- MODULE SchemaMigration --------------------------
(***************************************************************************)
(* migrate_schema: every opening of the database reads its version once    *)
(* and runs the steps above it, in order.  Outside of a transaction each   *)
(* SQL statement is durable on its own, and the process may end after any  *)
(* of them; the next opening starts again from the version it finds.       *)
(*                                                                         *)
(* A step that only adds tables, columns or derived values may be repeated *)
(* (IF NOT EXISTS, has_column, INSERT OR IGNORE): it is "applied" when all *)
(* its statements have run.  Some of these steps record their version in a *)
(* last statement, the others leave that to a later step.  Steps 8 and 10  *)
(* rebuild a table in a transaction, step 17 rebuilds one without.         *)
(***************************************************************************)
EXTENDS Naturals

CONSTANTS
    Tasks,
    InvalidTasks,    \* rows that step 10 does not accept
    VaultLabels,
    InsightIds,
    Grounded         \* the insights that name a source

ASSUME MigrationAssumption ==
    InvalidTasks \subseteq Tasks /\ Grounded \subseteq InsightIds

VARIABLES
    version,    \* PRAGMA user_version
    applied,    \* the adding steps whose effects are in the database
    tasks,      \* [form, rows]
    vault,      \* [form, rows]
    insights,   \* [exists, checked, rows]; checked: with the grounding constraint
    staging,    \* [exists, rows] of insights_v17
    opening     \* [step, phase, found]; found: the version this opening read

durable       == <<version, applied, tasks, vault, insights, staging>>
migrationVars == <<durable, opening>>

SchemaVersion == 17
Adding        == {2, 3, 4, 5, 6, 7, 11, 12, 13, 14, 15, 16}
Recorded      == {2, 11, 12, 13, 14, 15, 16}   \* adding steps that set the version
Forms         == {"legacy", "current"}

Closed       == [step |-> 0, phase |-> "closed", found |-> 0]
NoTable      == [exists |-> FALSE, checked |-> FALSE, rows |-> {}]
NoStaging    == [exists |-> FALSE, rows |-> {}]
StepAfter(k) == IF k = 8 THEN 10 ELSE k + 1

(* A database of any version, an empty or a newer one included, as the      *)
(* build of that version left it.                                           *)
MigrationInit ==
    /\ version \in 0..(SchemaVersion + 1)
    /\ applied = {k \in Adding : k <= version}
    /\ tasks \in [form : Forms, rows : SUBSET Tasks]
    /\ tasks.form = "current" <=> version >= 10
    /\ version >= 10 => tasks.rows \cap InvalidTasks = {}
    /\ vault \in [form : Forms, rows : SUBSET VaultLabels]
    /\ version >= 8 => vault.form = "current"
    /\ insights \in [exists : BOOLEAN, checked : BOOLEAN, rows : SUBSET InsightIds]
    /\ IF version >= 12 THEN insights.exists ELSE insights = NoTable
    /\ insights.checked => insights.rows \subseteq Grounded
    /\ version >= SchemaVersion => insights.checked
    /\ staging = NoStaging
    /\ opening = Closed

-----------------------------------------------------------------------------

AtStep(k, phase) == opening.step = k /\ opening.phase = phase
GotoStep(k, phase) == opening' = [opening EXCEPT !.step = k, !.phase = phase]
NextStep(k) == GotoStep(StepAfter(k), IF StepAfter(k) = SchemaVersion THEN "create" ELSE "apply")

(* A newer database is refused as often as it is opened.                    *)
BeginOpening ==
    /\ AtStep(0, "closed")
    /\ opening' = IF version <= SchemaVersion
                  THEN [step |-> 2, phase |-> "apply", found |-> version] ELSE Closed
    /\ UNCHANGED durable

SkipStep(k) ==
    /\ AtStep(k, "apply")
    /\ opening.found >= k
    /\ NextStep(k)
    /\ UNCHANGED durable

(* As AddStep, if the version were recorded before the last statement.     *)
AddAfterRecording(k) ==
    /\ AtStep(k, "apply")
    /\ opening.found < k
    /\ version' = IF k \in Recorded THEN k ELSE version
    /\ applied' = applied
    /\ IF k \in Recorded THEN GotoStep(k, "mark") ELSE NextStep(k)
    /\ UNCHANGED <<tasks, vault, insights, staging>>

(* Step 12 creates the insights, with the constraint.                       *)
AddStep(k) ==
    /\ AtStep(k, "apply")
    /\ opening.found < k
    /\ applied' = applied \cup {k}
    /\ insights' = IF k = 12 /\ ~insights.exists
                   THEN [exists |-> TRUE, checked |-> TRUE, rows |-> {}] ELSE insights
    /\ IF k \in Recorded THEN GotoStep(k, "mark") ELSE NextStep(k)
    /\ UNCHANGED <<version, tasks, vault, staging>>

MarkStep(k) ==
    /\ AtStep(k, "mark")
    /\ version' = k
    /\ NextStep(k)
    /\ UNCHANGED <<applied, tasks, vault, insights, staging>>

(* The vault's rows move into the default workspace, in one transaction.    *)
RebuildVault ==
    /\ AtStep(8, "apply")
    /\ opening.found < 8
    /\ vault' = [vault EXCEPT !.form = "current"]
    /\ NextStep(8)
    /\ UNCHANGED <<version, applied, tasks, insights, staging>>

OpeningFails == opening' = Closed

(* As RebuildTasks, without the transaction around the rebuild.             *)
RebuildTasksDirectly ==
    /\ AtStep(10, "apply")
    /\ opening.found < 10
    /\ IF tasks.rows \cap InvalidTasks = {}
       THEN tasks' = [tasks EXCEPT !.form = "current"] /\ version' = 10 /\ NextStep(10)
       ELSE tasks' = [tasks EXCEPT !.form = "renamed"] /\ version' = version /\ OpeningFails
    /\ UNCHANGED <<applied, vault, insights, staging>>

(* The rebuild, the normalization of every row and the version are one      *)
(* transaction; a row that cannot be normalized fails the opening.          *)
RebuildTasks ==
    /\ AtStep(10, "apply")
    /\ opening.found < 10
    /\ IF tasks.rows \cap InvalidTasks = {}
       THEN tasks' = [tasks EXCEPT !.form = "current"] /\ version' = 10 /\ NextStep(10)
       ELSE UNCHANGED <<tasks, version>> /\ OpeningFails
    /\ UNCHANGED <<applied, vault, insights, staging>>

-----------------------------------------------------------------------------
(* Step 17, statement by statement *)

(* As CreateStaging, if a staging table from before were taken as filled.   *)
CreateStagingOrResume ==
    /\ AtStep(17, "create")
    /\ IF opening.found < 17 /\ insights.exists
       THEN /\ staging' = [staging EXCEPT !.exists = TRUE]
            /\ GotoStep(17, IF staging.exists THEN "drop" ELSE "copy")
       ELSE /\ GotoStep(17, IF opening.found < 17 THEN "mark" ELSE "open")
            /\ UNCHANGED staging
    /\ UNCHANGED <<version, applied, tasks, vault, insights>>

CreateStaging ==
    /\ AtStep(17, "create")
    /\ IF opening.found < 17 /\ insights.exists
       THEN staging' = [staging EXCEPT !.exists = TRUE] /\ GotoStep(17, "copy")
       ELSE /\ GotoStep(17, IF opening.found < 17 THEN "mark" ELSE "open")
            /\ UNCHANGED staging
    /\ UNCHANGED <<version, applied, tasks, vault, insights>>

(* A row that an interrupted opening left in the staging table is a primary *)
(* key conflict: the statement inserts nothing and the opening fails.       *)
CopyInsights ==
    LET copied == insights.rows \cap Grounded IN
    /\ AtStep(17, "copy")
    /\ IF copied \cap staging.rows = {}
       THEN staging' = [staging EXCEPT !.rows = @ \cup copied] /\ GotoStep(17, "drop")
       ELSE UNCHANGED staging /\ OpeningFails
    /\ UNCHANGED <<version, applied, tasks, vault, insights>>

DropInsights ==
    /\ AtStep(17, "drop")
    /\ insights' = NoTable
    /\ GotoStep(17, "rename")
    /\ UNCHANGED <<version, applied, tasks, vault, staging>>

RenameStaging ==
    /\ AtStep(17, "rename")
    /\ insights' = [exists |-> TRUE, checked |-> TRUE, rows |-> staging.rows]
    /\ staging' = NoStaging
    /\ GotoStep(17, "mark")
    /\ UNCHANGED <<version, applied, tasks, vault>>

MarkRebuilt ==
    /\ AtStep(17, "mark")
    /\ version' = 17
    /\ GotoStep(17, "open")
    /\ UNCHANGED <<applied, tasks, vault, insights, staging>>

-----------------------------------------------------------------------------
(* insight_upsert, on the open database: it needs the table and a source.   *)
AddInsight(i) ==
    /\ AtStep(17, "open")
    /\ insights.exists
    /\ insights' = [insights EXCEPT !.rows = @ \cup {i}]
    /\ UNCHANGED <<version, applied, tasks, vault, staging, opening>>

(* The process ends, at whatever point. *)
Interrupted ==
    /\ opening # Closed
    /\ opening' = Closed
    /\ UNCHANGED durable

MigrationNext ==
    \/ BeginOpening
    \/ \E k \in Adding \cup {8, 10} : SkipStep(k)
    \/ \E k \in Adding : AddStep(k)
    \/ \E k \in Recorded : MarkStep(k)
    \/ RebuildVault
    \/ RebuildTasks
    \/ CreateStaging
    \/ CopyInsights
    \/ DropInsights
    \/ RenameStaging
    \/ MarkRebuilt
    \/ \E i \in Grounded : AddInsight(i)
    \/ Interrupted

MigrationSpec == MigrationInit /\ [][MigrationNext]_migrationVars

-----------------------------------------------------------------------------
(* Properties *)

(* Type. *)
MigrationTypeOK ==
    /\ version \in 0..(SchemaVersion + 1)
    /\ applied \in SUBSET Adding
    /\ tasks \in [form : Forms, rows : SUBSET Tasks]
    /\ vault \in [form : Forms, rows : SUBSET VaultLabels]
    /\ insights \in [exists : BOOLEAN, checked : BOOLEAN, rows : SUBSET InsightIds]
    /\ staging \in [exists : BOOLEAN, rows : SUBSET InsightIds]
    /\ opening \in [step : 0..17, found : 0..SchemaVersion,
                    phase : {"closed", "apply", "mark", "create", "copy", "drop", "rename",
                             "open"}]

(* The version never promises a step whose effects are missing, wherever    *)
(* openings were interrupted and repeated: a database that says 10 has only *)
(* normalized tasks, and one that says 17 keeps no ungrounded insight.      *)
StepsBeforeVersion ==
    /\ \A k \in Adding : k <= version => k \in applied
    /\ version >= 8 => vault.form = "current"
    /\ version >= 10 => tasks.form = "current" /\ tasks.rows \cap InvalidTasks = {}
    /\ version >= 17 /\ insights.exists => insights.rows \subseteq Grounded

(* No step of a migration, interrupted and repeated as often as one likes,  *)
(* destroys a task, a secret or a grounded insight: every row is in its     *)
(* table or, between two statements of step 17 and after a crash there, in  *)
(* the staging table.                                                       *)
NothingLost ==
    [][/\ tasks.rows \subseteq tasks'.rows
       /\ vault.rows \subseteq vault'.rows
       /\ (insights.rows \cup staging.rows) \cap Grounded
              \subseteq insights'.rows \cup staging'.rows]_migrationVars

(* What the code does not ensure and OpenDatabaseHasInsights needs: the     *)
(* process does not end between DROP TABLE insights and the RENAME.         *)
RenameFollowsDrop == AtStep(17, "rename") => opening' # Closed

(* "Rebuild only when both are present; otherwise the base SCHEMA creates   *)
(* them with the constraint already in place": an open database has its     *)
(* insights.  (The comment in step 17; the base SCHEMA has no insights.)    *)
OpenDatabaseHasInsights == AtStep(17, "open") => insights.exists
=============================================================================
