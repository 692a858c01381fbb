-------------------------- MODULE WorkspaceContext --------------------------
(***************************************************************************)
(* The active workspace: a value in memory that every command captures,    *)
(* its stored copy, and ensure_workspace_context, which every open_db runs *)
(* to bring the two together.  The commands of the main thread open the    *)
(* database one after another; a Telegram execution opens it on a worker,  *)
(* beside them.  A statement is one step.                                  *)
(*                                                                         *)
(* Most commands write the rows of the workspace they captured and record  *)
(* the audit event with write_audit, which reads the memory once more      *)
(* ("write"); the others record it for the workspace they captured, with   *)
(* write_audit_for_workspace ("publish").                                  *)
(***************************************************************************)
EXTENDS Naturals

CONSTANTS
    Workspaces,
    DefaultWorkspace,
    TelegramWorkers        \* the executions that may open the database

MainThread == "main"
NoWorkspace == "none"

ASSUME ContextAssumption ==
    /\ DefaultWorkspace \in Workspaces
    /\ NoWorkspace \notin Workspaces
    /\ MainThread \notin TelegramWorkers

VARIABLES
    members,     \* the workspaces of which the local user is an active member
    inactive,    \* those whose membership of the user is there, with active=0
    stored,      \* runtime_state.active_workspace_id
    active,      \* ACTIVE_WORKSPACE_ID
    at,          \* where each thread is
    pick,        \* what ensure_workspace_context has read or selected
    command,     \* the command of the main thread: its kind and its workspace
    choice,      \* history: the workspace last selected by the user
    trail,       \* history: the workspaces of the last row and of its audit event
    overlapped   \* history: a worker has opened the database beside a command

contextVars == <<members, inactive, stored, active, at, pick, command, choice, trail, overlapped>>

ContextThreads == {MainThread} \cup TelegramWorkers
OpeningSteps   == {"read_stored", "read_members", "write_stored", "add_default", "set_active"}
CommandSteps   == {"body", "activate", "audit"}
Kinds          == {"setup", "write", "publish", "create", "select"}

NoCommand == [kind |-> "setup", ws |-> NoWorkspace]

(* A database as it is found, or none: nothing is stored yet, or a workspace *)
(* that the user may have no access to (a saved selection that the test      *)
(* workspace_context_falls_back_from_inaccessible_saved_workspace expects to *)
(* be replaced).  No command deactivates a membership, but every check asks  *)
(* for active=1, so a row without it may have come with the database.        *)
ContextInit ==
    /\ members \in SUBSET Workspaces
    /\ inactive \in SUBSET (Workspaces \ members)
    /\ stored \in Workspaces \cup {NoWorkspace}
    /\ active = DefaultWorkspace
    /\ at = [t \in ContextThreads |-> IF t = MainThread THEN "down" ELSE "idle"]
    /\ pick = [t \in ContextThreads |-> NoWorkspace]
    /\ command = NoCommand
    /\ choice = NoWorkspace
    /\ trail = [row |-> NoWorkspace, audit |-> NoWorkspace]
    /\ overlapped = FALSE

GoOn(t, step) == at' = [at EXCEPT ![t] = step]

Busy(t) == at[t] \notin {"idle", "down"}

-----------------------------------------------------------------------------
(* ensure_workspace_context, in open_db *)

ReadStored(t) ==
    /\ at[t] = "read_stored"
    /\ pick' = [pick EXCEPT ![t] = IF stored = NoWorkspace THEN DefaultWorkspace ELSE stored]
    /\ GoOn(t, "read_members")
    /\ UNCHANGED <<members, inactive, stored, active, command, choice, trail, overlapped>>

(* As Selectable, without its last resort.                                  *)
SelectableOrNone(candidate) ==
    IF candidate \in members THEN {candidate}
    ELSE IF DefaultWorkspace \in members THEN {DefaultWorkspace}
    ELSE IF members = {} THEN {NoWorkspace} ELSE members

(* As Selectable, if the saved workspace were taken as it is.               *)
SelectableUnchecked(candidate) == {candidate}

(* The saved workspace, the default one, the oldest or again the default.   *)
Selectable(candidate) ==
    IF candidate \in members THEN {candidate}
    ELSE IF DefaultWorkspace \in members \/ members = {} THEN {DefaultWorkspace}
    ELSE members

ReadMembers(t) ==
    /\ at[t] = "read_members"
    /\ \E w \in Selectable(pick[t]) : pick' = [pick EXCEPT ![t] = w]
    /\ GoOn(t, "write_stored")
    /\ UNCHANGED <<members, inactive, stored, active, command, choice, trail, overlapped>>

WriteStored(t) ==
    /\ at[t] = "write_stored"
    /\ stored' = pick[t]
    /\ GoOn(t, "add_default")
    /\ UNCHANGED <<members, inactive, active, pick, command, choice, trail, overlapped>>

(* INSERT OR IGNORE: a membership that is there stays as it is.              *)
AddDefault(t) ==
    /\ at[t] = "add_default"
    /\ members' = members \cup ({DefaultWorkspace} \ inactive)
    /\ GoOn(t, "set_active")
    /\ UNCHANGED <<inactive, stored, active, pick, command, choice, trail, overlapped>>

SetActive(t) ==
    /\ at[t] = "set_active"
    /\ active' = pick[t]
    /\ pick' = [pick EXCEPT ![t] = NoWorkspace]
    /\ GoOn(t, IF t = MainThread THEN "body" ELSE "idle")
    /\ UNCHANGED <<members, inactive, stored, command, choice, trail, overlapped>>

-----------------------------------------------------------------------------
(* Commands *)

OpenBegins(t) ==
    /\ GoOn(t, "read_stored")
    /\ overlapped' = (overlapped \/ \E u \in ContextThreads \ {t} :
                          Busy(u) /\ MainThread \in {t, u})

Startup ==
    /\ at[MainThread] = "down"
    /\ command' = NoCommand
    /\ OpenBegins(MainThread)
    /\ UNCHANGED <<members, inactive, stored, active, pick, choice, trail>>

(* A writing command captures the active workspace before it opens the      *)
(* database; the workspace commands are given theirs.                       *)
CommandBegins(kind, w) ==
    /\ at[MainThread] = "idle"
    /\ kind \in {"write", "publish"} => w = active
    /\ command' = [kind |-> kind, ws |-> w]
    /\ OpenBegins(MainThread)
    /\ UNCHANGED <<members, inactive, stored, active, pick, choice, trail>>

ExecutionBegins(t) ==
    /\ at[t] = "idle"
    /\ at[MainThread] # "down"
    /\ command.kind # "setup" \/ at[MainThread] = "idle"
    /\ OpenBegins(t)
    /\ UNCHANGED <<members, inactive, stored, active, pick, command, choice, trail>>

(* A command whose workspace is not the user's is refused.                  *)
Refused ==
    \/ command.kind \in {"write", "publish", "select"} /\ command.ws \notin members
    \/ command.kind = "create" /\ command.ws \in members \cup inactive

BodyEnds ==
    /\ at[MainThread] = "body"
    /\ command.kind = "setup" \/ Refused
    /\ GoOn(MainThread, "idle")
    /\ UNCHANGED <<members, inactive, stored, active, pick, command, choice, trail, overlapped>>

WriteRow ==
    /\ at[MainThread] = "body"
    /\ command.kind \in {"write", "publish"}
    /\ ~Refused
    /\ GoOn(MainThread, "audit")
    /\ UNCHANGED <<members, inactive, stored, active, pick, command, choice, trail, overlapped>>

write_audit ==
    /\ at[MainThread] = "audit"
    /\ trail' = [row |-> command.ws,
                 audit |-> IF command.kind = "write" THEN active ELSE command.ws]
    /\ GoOn(MainThread, "idle")
    /\ UNCHANGED <<members, inactive, stored, active, pick, command, choice, overlapped>>

(* The workspace, the membership of its owner and the audit event.          *)
workspace_create ==
    /\ at[MainThread] = "body"
    /\ command.kind = "create"
    /\ ~Refused
    /\ members' = members \cup {command.ws}
    /\ trail' = [row |-> command.ws, audit |-> command.ws]
    /\ GoOn(MainThread, "idle")
    /\ UNCHANGED <<inactive, stored, active, pick, command, choice, overlapped>>

(* As workspace_select, if only the stored copy were changed.               *)
select_stored_only ==
    /\ at[MainThread] = "body"
    /\ command.kind = "select"
    /\ ~Refused
    /\ stored' = command.ws
    /\ choice' = command.ws
    /\ trail' = [row |-> command.ws, audit |-> command.ws]
    /\ GoOn(MainThread, "idle")
    /\ UNCHANGED <<members, inactive, active, pick, command, overlapped>>

(* The transaction; the memory follows in a step of its own.                *)
workspace_select ==
    /\ at[MainThread] = "body"
    /\ command.kind = "select"
    /\ ~Refused
    /\ stored' = command.ws
    /\ choice' = command.ws
    /\ trail' = [row |-> command.ws, audit |-> command.ws]
    /\ GoOn(MainThread, "activate")
    /\ UNCHANGED <<members, inactive, active, pick, command, overlapped>>

Activate ==
    /\ at[MainThread] = "activate"
    /\ active' = command.ws
    /\ GoOn(MainThread, "idle")
    /\ UNCHANGED <<members, inactive, stored, pick, command, choice, trail, overlapped>>

(* The process ends at any point; the memory is gone.                       *)
ProcessEnds ==
    /\ at[MainThread] # "down"
    /\ active' = DefaultWorkspace
    /\ at' = [t \in ContextThreads |-> IF t = MainThread THEN "down" ELSE "idle"]
    /\ pick' = [t \in ContextThreads |-> NoWorkspace]
    /\ command' = NoCommand
    /\ UNCHANGED <<members, inactive, stored, choice, trail, overlapped>>

EnsureContext(t) ==
    ReadStored(t) \/ ReadMembers(t) \/ WriteStored(t) \/ AddDefault(t) \/ SetActive(t)

ContextNext ==
    \/ \E t \in ContextThreads : EnsureContext(t)
    \/ Startup
    \/ \E kind \in Kinds \ {"setup"}, w \in Workspaces : CommandBegins(kind, w)
    \/ \E t \in TelegramWorkers : ExecutionBegins(t)
    \/ BodyEnds
    \/ WriteRow
    \/ write_audit
    \/ workspace_create
    \/ workspace_select
    \/ Activate
    \/ ProcessEnds

ContextSpec == ContextInit /\ [][ContextNext]_contextVars

-----------------------------------------------------------------------------
(* Properties *)

(* Type. *)
ContextTypeOK ==
    /\ members \in SUBSET Workspaces
    /\ inactive \in SUBSET (Workspaces \ members)
    /\ stored \in Workspaces \cup {NoWorkspace}
    /\ active \in Workspaces
    /\ at \in [ContextThreads -> OpeningSteps \cup CommandSteps \cup {"idle", "down"}]
    /\ pick \in [ContextThreads -> Workspaces \cup {NoWorkspace}]
    /\ command \in [kind : Kinds, ws : Workspaces \cup {NoWorkspace}]
    /\ choice \in Workspaces \cup {NoWorkspace}
    /\ trail \in [row : Workspaces \cup {NoWorkspace}, audit : Workspaces \cup {NoWorkspace}]
    /\ overlapped \in BOOLEAN

(* A workspace the user may enter, or the default one where the user's      *)
(* membership of it was deactivated: the last resort of the opening.        *)
Accessible(w) ==
    \/ w \in members
    \/ w = DefaultWorkspace /\ DefaultWorkspace \in inactive

(* From the end of the startup on, the active workspace is accessible, and  *)
(* so is the one a writing command captured: wherever the process was       *)
(* interrupted and however the openings interleave, whichever memberships   *)
(* and selection the database held.  (The order of                          *)
(* ensure_workspace_context: the membership of the default workspace before *)
(* the memory.)  A default membership with active=0 is the exception: it is *)
(* not activated, so that a user without another one has the default        *)
(* workspace as the active one and is refused in it.                        *)
ActiveIsAccessible ==
    at[MainThread] # "down" /\ (command.kind # "setup" \/ at[MainThread] = "idle") =>
        /\ Accessible(active)
        /\ command.kind \in {"write", "publish"} => Accessible(command.ws)

(* Between two commands the workspace in memory is the one last selected,   *)
(* and unless a worker is opening the database it is the stored one, across *)
(* restarts, as long as no worker opened the database beside a command.     *)
(* (Beside one, its write of the workspace it read earlier undoes a         *)
(* selection.)                                                              *)
SelectionKept ==
    ~overlapped /\ at[MainThread] = "idle" =>
        /\ (\A t \in TelegramWorkers : at[t] = "idle") => stored = active
        /\ choice # NoWorkspace => active = choice

(* A row and its audit event belong to the same workspace, under the same   *)
(* condition, although a command captures the workspace before it opens the *)
(* database and write_audit reads it once more after the write.             *)
AuditFollowsRow == ~overlapped => trail.row = trail.audit
=============================================================================
