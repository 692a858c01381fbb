--------------------------- MODULE WorkspaceRoles ---------------------------
(***************************************************************************)
(* The role checks that guard the commands.  The local user has at most    *)
(* one active membership in a workspace; no command changes its role.      *)
(***************************************************************************)
CONSTANTS
    Workspaces,
    RoleOf      \* the local user's active role in a workspace, or "none"

ASSUME RolesAssumption ==
    RoleOf \in [Workspaces -> {"owner", "admin", "editor", "operator", "reviewer",
                               "viewer", "none"}]

Admins    == {"owner", "admin"}
Editors   == {"owner", "admin", "editor"}
Operators == {"owner", "admin", "editor", "operator"}
Readers   == {"owner", "admin", "editor", "operator", "reviewer", "viewer"}

(* require_workspace_role_for *)
May(w, roles) == RoleOf[w] \in roles
=============================================================================
