------------------------- MODULE MCDatabaseOpening -------------------------
(***************************************************************************)
(* TLC instances of the three parts of open_db: the files behind the       *)
(* database, its schema, and the active workspace.  They share no          *)
(* variable, so each is explored on its own: "part" is chosen in the       *)
(* initial state and the other two stay where they began.  A Telegram      *)
(* execution opens the database at any time but during a restore (see      *)
(* MCDatabaseSwap for that).                                               *)
(***************************************************************************)
EXTENDS DatabaseSwap, WorkspaceContext, SchemaMigration

VARIABLE part

EmptyDatabase ==
    /\ version = 0
    /\ tasks.rows = {}
    /\ vault = [form |-> "legacy", rows |-> {}]

MCInit ==
    /\ part \in {"files", "context", "schema"}
    /\ Init
    /\ ContextInit
    /\ part # "context" => members = {} /\ inactive = {} /\ stored = NoWorkspace
    /\ MigrationInit
    /\ part # "schema" => EmptyDatabase

MCNext ==
    \/ part = "files"   /\ Next /\ RestoreIsAlone' /\ UNCHANGED <<part, contextVars, migrationVars>>
    \/ part = "context" /\ ContextNext   /\ UNCHANGED <<part, vars, migrationVars>>
    \/ part = "schema"  /\ MigrationNext /\ UNCHANGED <<part, vars, contextVars>>

MCSpec == MCInit /\ [][MCNext]_<<part, vars, contextVars, migrationVars>>
=============================================================================
