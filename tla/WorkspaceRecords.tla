-------------------------- MODULE WorkspaceRecords --------------------------
(***************************************************************************)
(* The records a workspace keeps in the SQLite database, and the commands  *)
(* that write them.  Every command captures the active workspace, checks   *)
(* the local user's role in it, checks the rows it refers to, and writes   *)
(* with one statement or one transaction; the commands run one at a time,  *)
(* on the main thread.  All workspaces share the tables: an id is unique   *)
(* in its table, whichever workspace owns the row.                         *)
(*                                                                         *)
(* A row is its owner, the rows it refers to and the part of its state a   *)
(* command tests; its other columns are not modelled.  A refused command   *)
(* changes nothing and is no step.  An id that no check looks up (the      *)
(* sources of an insight, the owner, source and target of a work item) is  *)
(* data, not a reference.                                                  *)
(***************************************************************************)
EXTENDS WorkspaceRoles, Naturals, FiniteSets

CONSTANTS
    Ids,        \* the ids a caller chooses from, in every table
    MaxRows     \* bound: a command inserts only below this many rows

ASSUME RecordsAssumption ==
    /\ IsFiniteSet(Workspaces)
    /\ IsFiniteSet(Ids)
    /\ MaxRows \in Nat

VARIABLE row    \* key |-> [ws, refs, state], for the rows that exist

recordsVars == <<row>>

(* The tables whose rows have an id of their own. *)
EntityKinds ==
    {"account", "campaign", "content", "task", "contact", "conversation", "message",
     "media_asset", "rule_pack", "research_brief", "research_finding",
     "knowledge_source", "objective", "audience", "offer", "strategy",
     "opportunity", "insight", "agent", "agent_run", "policy", "work_item"}

Entity(kinds) == kinds \X Ids

(* Promotion of a finding derives the item's id, "research:<finding>"; the  *)
(* caller of knowledge_item_upsert may choose such an id too.               *)
PublicationOf(finding) == <<"knowledge_item research:", finding[2]>>
KnowledgeKeys == Entity({"knowledge_item", "knowledge_item research:"})

EntityKeys == Entity(EntityKinds) \cup KnowledgeKeys

(* What validate_operational_entity_type admits in a link. *)
LinkableKinds ==
    {"objective", "strategy", "audience", "offer", "agent", "policy", "work_item",
     "agent_run", "opportunity", "insight", "campaign", "content", "task",
     "conversation", "contact", "media_asset"}
Linkable == Entity(LinkableKinds) \cup KnowledgeKeys

(* The tables keyed by the rows they relate. *)
VariantKeys     == {"variant"} \X Entity({"content"})
CampaignAccount(c, a) == <<"campaign_account", c, a>>
CampaignContent(c, i) == <<"campaign_content", c, i>>
EvidenceKey(i, s)     == <<"knowledge_evidence", i, s>>
AssociationKeys ==
    {CampaignAccount(c, a) : c \in Entity({"campaign"}), a \in Entity({"account"})}
    \cup {CampaignContent(c, i) : c \in Entity({"campaign"}), i \in Entity({"content"})}
    \cup {EvidenceKey(i, s) : i \in KnowledgeKeys, s \in Entity({"knowledge_source"})}

(* The tables keyed by their workspace too. *)
MarketingLink(w, id)     == <<"marketing_link", w, id>>
MarketingLinkKeys        == {MarketingLink(w, id) : w \in Workspaces, id \in Ids}
LinkEvidence(w, l)       == <<"marketing_link_evidence", w, l>>
Dependency(w, p, s)      == <<"work_dependency", w, p, s>>
OperationalLink(w, f, t) == <<"operational_link", w, f, t>>
OperationalLinkKeys ==
    {OperationalLink(w, f, t) : w \in Workspaces, f \in Linkable, t \in Linkable}
WorkspaceKeys ==
    MarketingLinkKeys
    \cup {LinkEvidence(w, l) : w \in Workspaces, l \in MarketingLinkKeys}
    \cup {Dependency(w, p, s) : w \in Workspaces, p \in Entity({"work_item"}),
                                s \in Entity({"work_item"})}
    \cup OperationalLinkKeys

Keys == EntityKeys \cup VariantKeys \cup AssociationKeys \cup WorkspaceKeys

RunStates == {"queued", "running", "awaiting_approval", "awaiting_user_action",
              "succeeded", "failed", "cancelled"}
States    == {"stored", "enabled", "disabled"} \cup RunStates

Row(w, refs, state) == [ws |-> w, refs |-> refs, state |-> state]

RecordsInit == row = [k \in {} |-> Row("", {}, "")]

-----------------------------------------------------------------------------
(* Ownership checks and the forms of a write. *)

(* The rows among keys that "SELECT ... WHERE id=? AND workspace_id=?" finds. *)
(* The integrity triggers repeat these checks where a row is written.       *)
Owned(w, keys) == {k \in keys \cap DOMAIN row : row[k].ws = w}

OwnedEntities(w, kinds) == Owned(w, Entity(kinds))

HasRoom == Cardinality(DOMAIN row) < MaxRows

Store(k, r) ==
    /\ k \in DOMAIN row \/ HasRoom
    /\ row' = [x \in DOMAIN row \cup {k} |-> IF x = k THEN r ELSE row[x]]

(* INSERT: the id must be free in every workspace. *)
Insert(k, r) == k \notin DOMAIN row /\ Store(k, r)

(* As Upsert, without the condition on the workspace of the stored row.     *)
UpsertAnywhere(k, r) == Store(k, r)

(* INSERT ... ON CONFLICT(id) DO UPDATE ... WHERE workspace_id is the same.  *)
Upsert(k, r) ==
    /\ k \in DOMAIN row => row[k].ws = r.ws
    /\ Store(k, r)

(* The commands whose rows refer to nothing. *)
UpsertPlain(w, roles, kind) ==
    /\ May(w, roles)
    /\ \E k \in Entity({kind}) : Upsert(k, Row(w, {}, "stored"))

UpsertToggled(w, roles, kind) ==
    /\ May(w, roles)
    /\ \E k \in Entity({kind}), state \in {"enabled", "disabled"} :
           Upsert(k, Row(w, {}, state))
-----------------------------------------------------------------------------
(* Accounts.  Deleting one clears the conversations of its workspace first, *)
(* in the same transaction; a campaign or a task that refers to it makes    *)
(* the whole transaction fail (ON DELETE RESTRICT).                         *)

account_upsert(w) == UpsertPlain(w, Admins, "account")

(* As Restricted, if a campaign's accounts went with the account.           *)
RestrictedByTasks(a) == \E k \in DOMAIN row : k[1] = "task" /\ a \in row[k].refs

Restricted(a) == \E k \in DOMAIN row : k[1] \in {"campaign_account", "task"} /\ a \in row[k].refs

(* As WithoutAccount, without the clean-up of the conversations.            *)
Untouched(w, a, k) == row[k]

WithoutAccount(w, a, k) ==
    IF k[1] = "conversation" /\ row[k].ws = w
    THEN [row[k] EXCEPT !.refs = @ \ {a}]
    ELSE row[k]

account_delete(w) ==
    /\ May(w, Admins)
    /\ \E a \in OwnedEntities(w, {"account"}) :
          /\ ~Restricted(a)
          /\ row' = [k \in DOMAIN row \ {a} |-> WithoutAccount(w, a, k)]

AccountCommands(w) == account_upsert(w) \/ account_delete(w)

-----------------------------------------------------------------------------
(* Campaigns, content and tasks. *)

(* One transaction: the campaign, under a fresh id, and its accounts.       *)
create_campaign(w) ==
    /\ May(w, Editors)
    /\ HasRoom
    /\ \E c \in Entity({"campaign"}) \ DOMAIN row,
          accounts \in (SUBSET OwnedEntities(w, {"account"})) \ {{}} :
          LET joined == {CampaignAccount(c, a) : a \in accounts}
          IN  row' = [k \in DOMAIN row \cup {c} \cup joined |->
                        IF k = c THEN Row(w, {}, "stored")
                        ELSE IF k \in joined THEN Row(w, {c, k[3]}, "stored")
                        ELSE row[k]]

content_upsert(w) == UpsertPlain(w, Editors, "content")

content_variant_upsert(w) ==
    /\ May(w, Editors)
    /\ \E i \in OwnedEntities(w, {"content"}) :
          Store(<<"variant", i>>, Row(w, {i}, "stored"))

campaign_attach_content(w) ==
    /\ May(w, Editors)
    /\ \E c \in OwnedEntities(w, {"campaign"}), i \in OwnedEntities(w, {"content"}) :
          Insert(CampaignContent(c, i), Row(w, {c, i}, "stored"))

(* The account must be one of the campaign's, and the content attached to   *)
(* it; a synchronization needs no content.                                  *)
task_enqueue(w) ==
    /\ May(w, Editors)
    /\ \E t \in Entity({"task"}), c \in OwnedEntities(w, {"campaign"}),
          a \in OwnedEntities(w, {"account"}) :
          /\ CampaignAccount(c, a) \in Owned(w, AssociationKeys)
          /\ \/ Insert(t, Row(w, {c, a}, "stored"))
             \/ \E i \in OwnedEntities(w, {"content"}) :
                   /\ CampaignContent(c, i) \in Owned(w, AssociationKeys)
                   /\ Insert(t, Row(w, {c, a, i}, "stored"))

CampaignCommands(w) ==
    \/ create_campaign(w)
    \/ content_upsert(w)
    \/ content_variant_upsert(w)
    \/ campaign_attach_content(w)
    \/ task_enqueue(w)

-----------------------------------------------------------------------------
(* Contacts, conversations, messages and opportunities. *)

Optional(S) == {{}} \cup {{x} : x \in S}

contact_upsert(w) == UpsertPlain(w, Operators, "contact")

conversation_upsert_record(w) ==
    /\ May(w, Operators)
    /\ \E k \in Entity({"conversation"}), a \in OwnedEntities(w, {"account"}),
          c \in Optional(OwnedEntities(w, {"contact"})) :
          Upsert(k, Row(w, {a} \cup c, "stored"))

(* The insert, and then the time of the conversation's last change.         *)
message_add(w) ==
    /\ May(w, {"owner", "admin", "operator"})
    /\ \E m \in Entity({"message"}), c \in OwnedEntities(w, {"conversation"}) :
          Insert(m, Row(w, {c}, "stored"))

upsert_opportunity(w) ==
    /\ May(w, Operators)
    /\ \E o \in Entity({"opportunity"}), c \in OwnedEntities(w, {"contact"}),
          campaign \in Optional(OwnedEntities(w, {"campaign"})) :
          Upsert(o, Row(w, {c} \cup campaign, "stored"))

InboxCommands(w) ==
    \/ contact_upsert(w)
    \/ conversation_upsert_record(w)
    \/ message_add(w)
    \/ upsert_opportunity(w)

-----------------------------------------------------------------------------
(* Marketing links and the evidence for them. *)

marketing_link_upsert(w) ==
    /\ May(w, Editors)
    /\ \E id \in Ids, campaign \in Optional(OwnedEntities(w, {"campaign"})),
          content \in Optional(OwnedEntities(w, {"content"})) :
          Store(MarketingLink(w, id), Row(w, campaign \cup content, "stored"))

marketing_link_evidence_add(w) ==
    /\ May(w, Operators)
    /\ \E l \in Owned(w, MarketingLinkKeys) :
          Store(LinkEvidence(w, l), Row(w, {l}, "stored"))

MarketingCommands(w) == marketing_link_upsert(w) \/ marketing_link_evidence_add(w)

-----------------------------------------------------------------------------
(* Research and knowledge. *)

research_brief_upsert(w) == UpsertPlain(w, Editors, "research_brief")

knowledge_source_upsert(w) == UpsertPlain(w, Editors, "knowledge_source")

(* validate_workspace_source_ids, of a list that may not be empty.          *)
SourceLists(w) == (SUBSET OwnedEntities(w, {"knowledge_source"})) \ {{}}

research_finding_upsert(w) ==
    /\ May(w, Editors)
    /\ \E f \in Entity({"research_finding"}), b \in OwnedEntities(w, {"research_brief"}),
          sources \in SourceLists(w) :
          Upsert(f, Row(w, {b} \cup sources, "stored"))

(* The sources of the finding are validated again. *)
publish_finding_to_knowledge(w) ==
    /\ May(w, Editors)
    /\ \E f \in OwnedEntities(w, {"research_finding"}) :
          LET sources == row[f].refs \cap Entity({"knowledge_source"})
          IN  /\ sources \subseteq OwnedEntities(w, {"knowledge_source"})
              /\ Upsert(PublicationOf(f), Row(w, sources, "stored"))

knowledge_item_upsert(w) ==
    /\ May(w, Editors)
    /\ \E i \in KnowledgeKeys, sources \in SourceLists(w) :
          Upsert(i, Row(w, sources, "stored"))

knowledge_evidence_add(w) ==
    /\ May(w, Editors)
    /\ \E i \in Owned(w, KnowledgeKeys), s \in OwnedEntities(w, {"knowledge_source"}) :
          Store(EvidenceKey(i, s), Row(w, {i, s}, "stored"))

KnowledgeCommands(w) ==
    \/ research_brief_upsert(w)
    \/ knowledge_source_upsert(w)
    \/ research_finding_upsert(w)
    \/ publish_finding_to_knowledge(w)
    \/ knowledge_item_upsert(w)
    \/ knowledge_evidence_add(w)

-----------------------------------------------------------------------------
(* Strategy, agents, and records that refer to nothing. *)

objective_upsert(w) == UpsertPlain(w, Editors, "objective")
audience_upsert(w)  == UpsertPlain(w, Editors, "audience")
offer_upsert(w)     == UpsertPlain(w, Editors, "offer")

(* validate_strategy_reference_ids, of three lists that may be empty.       *)
StrategyLists(w) == SUBSET OwnedEntities(w, {"objective", "audience", "offer"})

strategy_upsert(w) ==
    /\ May(w, Editors)
    /\ \E s \in Entity({"strategy"}), refs \in StrategyLists(w) :
          Upsert(s, Row(w, refs, "stored"))

StrategyCommands(w) ==
    \/ objective_upsert(w)
    \/ audience_upsert(w)
    \/ offer_upsert(w)
    \/ strategy_upsert(w)

agent_upsert(w) == UpsertToggled(w, Editors, "agent")

(* As agent_run_create, with a status the library does not know.            *)
agent_run_create_started(w) ==
    /\ May(w, Operators)
    /\ \E r \in Entity({"agent_run"}), a \in OwnedEntities(w, {"agent"}) :
          /\ row[a].state = "enabled"
          /\ Insert(r, Row(w, {a}, "started"))

agent_run_create(w) ==
    /\ May(w, Operators)
    /\ \E r \in Entity({"agent_run"}), a \in OwnedEntities(w, {"agent"}) :
          /\ row[a].state = "enabled"
          /\ Insert(r, Row(w, {a}, "queued"))

(* Any status may follow any other. *)
agent_run_set_status(w) ==
    /\ May(w, {"owner", "admin", "operator"})
    /\ \E r \in OwnedEntities(w, {"agent_run"}), state \in RunStates :
          row' = [row EXCEPT ![r].state = state]

AgentCommands(w) ==
    \/ agent_upsert(w)
    \/ agent_run_create(w)
    \/ agent_run_set_status(w)

(* Neither command looks at the number of rows its upsert changed: for an id *)
(* that another workspace owns they report success and record an audit row, *)
(* and the record stays as it was.                                          *)
media_asset_upsert(w)          == UpsertPlain(w, Editors, "media_asset")
automation_rule_pack_upsert(w) == UpsertToggled(w, Editors, "rule_pack")

import_media_asset(w) == UpsertPlain(w, Editors, "media_asset")

automation_rule_pack_set_enabled(w) ==
    /\ May(w, Editors)
    /\ \E p \in OwnedEntities(w, {"rule_pack"}), state \in {"enabled", "disabled"} :
          row' = [row EXCEPT ![p].state = state]

(* Nothing looks for the links that refer to the asset. *)
media_asset_delete(w) ==
    /\ May(w, Editors)
    /\ \E m \in OwnedEntities(w, {"media_asset"}) :
          row' = [k \in DOMAIN row \ {m} |-> row[k]]

policy_upsert(w)  == UpsertPlain(w, Admins, "policy")
insight_upsert(w) == UpsertPlain(w, Operators, "insight")

AssetCommands(w) ==
    \/ media_asset_upsert(w)
    \/ import_media_asset(w)
    \/ media_asset_delete(w)
    \/ automation_rule_pack_upsert(w)
    \/ automation_rule_pack_set_enabled(w)
    \/ policy_upsert(w)
    \/ insight_upsert(w)

-----------------------------------------------------------------------------
(* Work items, their dependencies, and links between any two entities. *)

work_item_upsert(w) == UpsertPlain(w, Operators, "work_item")

(* ON CONFLICT DO NOTHING, and no look at the other dependencies: two items *)
(* may wait for each other.                                                 *)
work_dependency_upsert(w) ==
    /\ May(w, Operators)
    /\ \E p, s \in OwnedEntities(w, {"work_item"}) :
          /\ p # s
          /\ Insert(Dependency(w, p, s), Row(w, {p, s}, "stored"))

operational_link_upsert(w) ==
    /\ May(w, Editors)
    /\ \E from, to \in Owned(w, Linkable) :
          /\ from # to
          /\ Store(OperationalLink(w, from, to), Row(w, {from, to}, "stored"))

operational_link_delete(w) ==
    /\ May(w, Editors)
    /\ \E k \in Owned(w, OperationalLinkKeys) :
          row' = [x \in DOMAIN row \ {k} |-> row[x]]

WorkCommands(w) ==
    \/ work_item_upsert(w)
    \/ work_dependency_upsert(w)
    \/ operational_link_upsert(w)
    \/ operational_link_delete(w)

RecordsNext ==
    \E w \in Workspaces :
        \/ AccountCommands(w)
        \/ CampaignCommands(w)
        \/ InboxCommands(w)
        \/ MarketingCommands(w)
        \/ KnowledgeCommands(w)
        \/ StrategyCommands(w)
        \/ AgentCommands(w)
        \/ AssetCommands(w)
        \/ WorkCommands(w)

RecordsSpec == RecordsInit /\ [][RecordsNext]_recordsVars

-----------------------------------------------------------------------------
(* Properties *)

(* Type: rows of known tables, owned by a workspace, in a known state.      *)
RecordsTypeOK ==
    /\ DOMAIN row \subseteq Keys
    /\ row = [k \in DOMAIN row |-> row[k]]
    /\ \A k \in DOMAIN row : row[k] \in [ws : Workspaces, refs : SUBSET Keys, state : States]

(* A link to a media asset is the only reference that outlives its target. *)
MayDangle(k, target) == k[1] = "operational_link" /\ target[1] = "media_asset"

(* Every reference points at a row that exists and belongs to the same      *)
(* workspace, whatever was deleted, replaced or promoted in between: no     *)
(* screen of a workspace can reach another workspace's rows by following    *)
(* one.  (The checks of every command, and the SQL of account_delete.)      *)
ReferencesStayInside ==
    \A k \in DOMAIN row : \A target \in row[k].refs :
        \/ MayDangle(k, target)
        \/ target \in DOMAIN row /\ row[target].ws = row[k].ws

(* A campaign never loses its last account, and a task keeps an account and *)
(* a content that belong to its campaign: deleting accounts and replacing   *)
(* rows must not undo what task_enqueue and campaign_create checked.        *)
CampaignsStayWhole ==
    \A k \in DOMAIN row :
        /\ k[1] = "campaign" =>
              \E a \in Entity({"account"}) \cap DOMAIN row :
                  CampaignAccount(k, a) \in DOMAIN row
        /\ k[1] = "task" =>
              \E c \in row[k].refs \cap Entity({"campaign"}) :
                  /\ \E a \in row[k].refs : CampaignAccount(c, a) \in DOMAIN row
                  /\ \A i \in row[k].refs \cap Entity({"content"}) :
                        CampaignContent(c, i) \in DOMAIN row

(* One step touches the rows of one workspace, one where the user has a     *)
(* role that writes: no upsert adopts a row of another workspace under a    *)
(* shared id, and no clean-up of references reaches beyond its own.         *)
StepsStayInOneWorkspace ==
    [][\E w \in Workspaces :
          /\ May(w, Operators)
          /\ \A k \in DOMAIN row \cup DOMAIN row' :
                \/ k \in DOMAIN row /\ k \in DOMAIN row' /\ row[k] = row'[k]
                \/ /\ k \in DOMAIN row  => row[k].ws = w
                   /\ k \in DOMAIN row' => row'[k].ws = w]_recordsVars
=============================================================================
