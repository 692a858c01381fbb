----------------------- MODULE WorkspaceRecordsProofs -----------------------
(***************************************************************************)
(* For any workspaces, ids, roles and bound: references stay inside their  *)
(* workspace, campaigns stay whole, and a step touches one workspace.      *)
(*                                                                         *)
(* The two invariants are not inductive: a row of a relation is owned by   *)
(* the workspace of its ends only because it refers to them, and an        *)
(* account can be deleted because only three tables refer to accounts.     *)
(* RowsHaveShape says so.  Most commands store one row; WriteKeeps treats  *)
(* them together, and a step per command shows that its row fits.          *)
(***************************************************************************)
EXTENDS WorkspaceRecords, TLAPS

Relations  == {"campaign_account", "campaign_content", "knowledge_evidence"}
OwnedByKey == {"marketing_link", "marketing_link_evidence", "work_dependency",
               "operational_link"}

(* Which table may refer to which, of the tables that rows are deleted from. *)
MayRefer(k, target) ==
    /\ target[1] = "account"     => k[1] \in {"conversation", "campaign_account", "task"}
    /\ target[1] = "media_asset" => k[1] = "operational_link"
    /\ target[1] # "operational_link"

Shape(k, r) ==
    /\ k[1] = "variant"     => k[2] \in r.refs
    /\ k[1] \in Relations   => k[2] \in r.refs /\ k[3] \in r.refs
    /\ k[1] \in OwnedByKey  => k[2] = r.ws
    /\ \A t \in r.refs : MayRefer(k, t)

RowsHaveShape == \A k \in DOMAIN row : Shape(k, row[k])

TaskFits(refs) ==
    \E c \in refs \cap Entity({"campaign"}) :
        /\ \E a \in refs : CampaignAccount(c, a) \in DOMAIN row
        /\ \A i \in refs \cap Entity({"content"}) : CampaignContent(c, i) \in DOMAIN row

RecordsInv ==
    RecordsTypeOK /\ ReferencesStayInside /\ CampaignsStayWhole /\ RowsHaveShape

Rows == [ws : Workspaces, refs : SUBSET Keys, state : States]

(* A row that a command may store under k. *)
Fits(k, r) ==
    /\ k \in Keys
    /\ r \in Rows
    /\ \A t \in r.refs : t \in DOMAIN row /\ row[t].ws = r.ws
    /\ Shape(k, r)
    /\ k[1] # "campaign"
    /\ k[1] = "task" => TaskFits(r.refs)

(* Storing a row that fits under a key that is free or its workspace's own. *)
Write(w) ==
    \E k, r : /\ Store(k, r)
              /\ Fits(k, r)
              /\ r.ws = w
              /\ k \in DOMAIN row => row[k].ws = w

LEMMA WriteKeeps ==
    ASSUME RecordsInv, NEW w \in Workspaces, Write(w) PROVE RecordsInv'
<1>1. PICK k, r : Store(k, r) /\ Fits(k, r) /\ r.ws = w /\ (k \in DOMAIN row => row[k].ws = w)
  BY DEF Write
<1>2. /\ DOMAIN row' = DOMAIN row \cup {k}
      /\ row'[k] = r
      /\ \A x \in DOMAIN row : x # k => row'[x] = row[x]
      /\ row' = [x \in DOMAIN row' |-> row'[x]]
  BY <1>1 DEF Store
<1>3. RecordsTypeOK'
  <2>1. (DOMAIN row \subseteq Keys)'
    BY <1>1, <1>2 DEF RecordsInv, RecordsTypeOK, Fits
  <2>2. \A x \in DOMAIN row' : row'[x] \in Rows
    BY <1>1, <1>2 DEF RecordsInv, RecordsTypeOK, Fits, Rows
  <2> QED BY <2>1, <2>2, <1>2 DEF RecordsTypeOK, Rows
<1>4. ReferencesStayInside'
  <2>1. \A x \in DOMAIN row : x \in DOMAIN row' /\ row'[x].ws = row[x].ws
    BY <1>1, <1>2
  <2>2. \A t \in r.refs : t \in DOMAIN row' /\ row'[t].ws = r.ws
    BY <1>1, <2>1 DEF Fits
  <2>3. \A x \in DOMAIN row : x # k => \A t \in row'[x].refs :
            MayDangle(x, t) \/ (t \in DOMAIN row' /\ row'[t].ws = row'[x].ws)
    BY <1>2, <2>1 DEF RecordsInv, ReferencesStayInside
  <2> QED BY <1>2, <2>2, <2>3 DEF ReferencesStayInside, MayDangle
<1>5. CampaignsStayWhole'
  <2> SUFFICES ASSUME NEW x \in DOMAIN row'
               PROVE  /\ x[1] = "campaign" =>
                            \E a \in Entity({"account"}) \cap DOMAIN row' :
                                CampaignAccount(x, a) \in DOMAIN row'
                      /\ x[1] = "task" =>
                            \E c \in row'[x].refs \cap Entity({"campaign"}) :
                                /\ \E a \in row'[x].refs : CampaignAccount(c, a) \in DOMAIN row'
                                /\ \A i \in row'[x].refs \cap Entity({"content"}) :
                                      CampaignContent(c, i) \in DOMAIN row'
    BY DEF CampaignsStayWhole
  <2>1. CASE x = k
    BY <2>1, <1>1, <1>2 DEF Fits, TaskFits
  <2>2. CASE x # k
    <3>1. x \in DOMAIN row /\ row'[x] = row[x] BY <2>2, <1>2
    <3> QED BY <3>1, <1>2 DEF RecordsInv, CampaignsStayWhole
  <2> QED BY <2>1, <2>2
<1>6. RowsHaveShape'
  BY <1>1, <1>2 DEF RecordsInv, RowsHaveShape, Fits
<1> QED BY <1>3, <1>4, <1>5, <1>6 DEF RecordsInv

(* A step leaves the rows of the other workspaces alone.                    *)
TouchesOnly(w) ==
    \A k \in DOMAIN row \cup DOMAIN row' :
        \/ k \in DOMAIN row /\ k \in DOMAIN row' /\ row[k] = row'[k]
        \/ /\ k \in DOMAIN row  => row[k].ws = w
           /\ k \in DOMAIN row' => row'[k].ws = w

LEMMA WriteTouchesOnly ==
    ASSUME NEW w \in Workspaces, Write(w) PROVE TouchesOnly(w)
<1>1. PICK k, r : Store(k, r) /\ r.ws = w /\ (k \in DOMAIN row => row[k].ws = w)
  BY DEF Write
<1>2. /\ DOMAIN row' = DOMAIN row \cup {k}
      /\ row'[k] = r
      /\ \A x \in DOMAIN row : x # k => row'[x] = row[x]
  BY <1>1 DEF Store
<1> QED BY <1>1, <1>2 DEF TouchesOnly

-----------------------------------------------------------------------------
(* The commands that store one row. *)

(* A new or replaced row of w that fits is a Write. *)
LEMMA UpsertWrites ==
    ASSUME NEW w \in Workspaces, NEW k, NEW refs, NEW state,
           Upsert(k, Row(w, refs, state)), Fits(k, Row(w, refs, state))
    PROVE  Write(w)
<1> DEFINE r == Row(w, refs, state)
<1>1. Store(k, r) /\ (k \in DOMAIN row => row[k].ws = w) /\ r.ws = w
  BY DEF Upsert, Row
<1>2. Fits(k, r) OBVIOUS
<1> HIDE DEF r
<1> QED BY <1>1, <1>2 DEF Write

LEMMA InsertWrites ==
    ASSUME NEW w \in Workspaces, NEW k, NEW refs, NEW state,
           Insert(k, Row(w, refs, state)), Fits(k, Row(w, refs, state))
    PROVE  Write(w)
<1>1. Upsert(k, Row(w, refs, state)) BY DEF Insert, Upsert
<1> QED BY <1>1, UpsertWrites

LEMMA OwnedRows ==
    ASSUME NEW w, NEW keys, NEW k \in Owned(w, keys)
    PROVE  k \in keys /\ k \in DOMAIN row /\ row[k].ws = w
BY DEF Owned

(* The row of an entity fits when its references are rows of w that its     *)
(* table may refer to.                                                      *)
LEMMA EntityFits ==
    ASSUME NEW w \in Workspaces, NEW kind \in EntityKinds \ {"campaign"},
           NEW k \in Entity({kind}), NEW refs, NEW state \in States,
           \A t \in refs : t \in DOMAIN row /\ row[t].ws = w /\ MayRefer(k, t),
           kind = "task" => TaskFits(refs),
           RecordsInv
    PROVE  Fits(k, Row(w, refs, state))
<1>1. k \in Keys /\ k[1] = kind
  BY DEF Entity, Keys, EntityKeys
<1>2. refs \in SUBSET Keys
  BY DEF RecordsInv, RecordsTypeOK
<1>3. Row(w, refs, state) \in Rows
  BY <1>2 DEF Row, Rows
<1>4. Shape(k, Row(w, refs, state))
  BY <1>1 DEF Shape, Row, Relations, OwnedByKey, EntityKinds
<1> QED BY <1>1, <1>3, <1>4 DEF Fits, Row

PlainKinds == EntityKinds \ {"campaign", "task"}

LEMMA PlainWrites ==
    ASSUME RecordsInv, NEW w \in Workspaces, NEW kind \in PlainKinds, NEW roles,
           UpsertPlain(w, roles, kind) \/ UpsertToggled(w, roles, kind)
    PROVE  Write(w)
<1>1. PICK k \in Entity({kind}), state \in States : Upsert(k, Row(w, {}, state))
  BY DEF UpsertPlain, UpsertToggled, States
<1>2. Fits(k, Row(w, {}, state))
  BY <1>1, EntityFits DEF PlainKinds
<1> QED BY <1>1, <1>2, UpsertWrites

LEMMA CampaignWrites ==
    ASSUME RecordsInv, NEW w \in Workspaces,
           content_variant_upsert(w) \/ campaign_attach_content(w) \/ task_enqueue(w)
    PROVE  Write(w)
<1>1. CASE content_variant_upsert(w)
  <2>1. PICK i \in OwnedEntities(w, {"content"}) :
            Store(<<"variant", i>>, Row(w, {i}, "stored"))
    BY <1>1 DEF content_variant_upsert
  <2>2. i \in Entity({"content"}) /\ i \in DOMAIN row /\ row[i].ws = w
    BY OwnedRows DEF OwnedEntities
  <2> DEFINE k == <<"variant", i>>
  <2>3. k \in Keys /\ k[1] = "variant" /\ k[2] = i
    BY <2>2 DEF Keys, VariantKeys
  <2>4. MayRefer(k, i)
    BY <2>2 DEF MayRefer, Entity
  <2>5. i \in Keys BY <2>2 DEF RecordsInv, RecordsTypeOK
  <2>6. Shape(k, Row(w, {i}, "stored"))
    BY <2>3, <2>4 DEF Shape, Row, Relations, OwnedByKey
  <2>7. Fits(k, Row(w, {i}, "stored"))
    BY <2>2, <2>3, <2>5, <2>6 DEF Fits, Row, Rows, States
  <2>8. k \in DOMAIN row => row[k].ws = w
    <3> SUFFICES ASSUME k \in DOMAIN row PROVE row[k].ws = w OBVIOUS
    <3>1. i \in row[k].refs BY <2>3 DEF RecordsInv, RowsHaveShape, Shape
    <3> QED BY <3>1, <2>2, <2>3 DEF RecordsInv, ReferencesStayInside, MayDangle
  <2> HIDE DEF k
  <2>9. Upsert(k, Row(w, {i}, "stored"))
    BY <2>1, <2>8 DEF Upsert, Row, k
  <2> QED BY <2>7, <2>9, UpsertWrites
<1>2. CASE campaign_attach_content(w)
  <2>1. PICK c \in OwnedEntities(w, {"campaign"}), i \in OwnedEntities(w, {"content"}) :
            Insert(CampaignContent(c, i), Row(w, {c, i}, "stored"))
    BY <1>2 DEF campaign_attach_content
  <2>2. /\ c \in Entity({"campaign"}) /\ c \in DOMAIN row /\ row[c].ws = w
        /\ i \in Entity({"content"}) /\ i \in DOMAIN row /\ row[i].ws = w
    BY OwnedRows DEF OwnedEntities
  <2> DEFINE k == CampaignContent(c, i)
  <2>3. k \in Keys /\ k[1] = "campaign_content" /\ k[2] = c /\ k[3] = i
    BY <2>2 DEF Keys, AssociationKeys, CampaignContent
  <2>4. MayRefer(k, i) /\ MayRefer(k, c)
    BY <2>2 DEF MayRefer, Entity
  <2>5. i \in Keys /\ c \in Keys BY <2>2 DEF RecordsInv, RecordsTypeOK
  <2> HIDE DEF k
  <2>6. Shape(k, Row(w, {c, i}, "stored"))
    BY <2>3, <2>4 DEF Shape, Row, Relations, OwnedByKey
  <2>7. Fits(k, Row(w, {c, i}, "stored"))
    BY <2>2, <2>3, <2>5, <2>6 DEF Fits, Row, Rows, States
  <2> QED BY <2>1, <2>7, InsertWrites DEF k
<1>3. CASE task_enqueue(w)
  <2>1. PICK t \in Entity({"task"}), c \in OwnedEntities(w, {"campaign"}),
             a \in OwnedEntities(w, {"account"}) :
            /\ CampaignAccount(c, a) \in Owned(w, AssociationKeys)
            /\ \/ Insert(t, Row(w, {c, a}, "stored"))
               \/ \E i \in OwnedEntities(w, {"content"}) :
                     /\ CampaignContent(c, i) \in Owned(w, AssociationKeys)
                     /\ Insert(t, Row(w, {c, a, i}, "stored"))
    BY <1>3 DEF task_enqueue
  <2>2. /\ c \in Entity({"campaign"}) /\ c \in DOMAIN row /\ row[c].ws = w
        /\ a \in Entity({"account"}) /\ a \in DOMAIN row /\ row[a].ws = w
        /\ CampaignAccount(c, a) \in DOMAIN row
    BY <2>1, OwnedRows DEF OwnedEntities
  <2>3. MayRefer(t, c) /\ MayRefer(t, a)
    BY <2>2 DEF MayRefer, Entity
  <2>4. CASE Insert(t, Row(w, {c, a}, "stored"))
    <3>1. TaskFits({c, a})
      <4>1. {c, a} \cap Entity({"content"}) = {} BY <2>2 DEF Entity
      <4> QED BY <2>2, <4>1 DEF TaskFits
    <3>2. Fits(t, Row(w, {c, a}, "stored"))
      BY <2>2, <2>3, <3>1, EntityFits DEF EntityKinds, States
    <3> QED BY <3>2, <2>4, InsertWrites
  <2>5. CASE \E i \in OwnedEntities(w, {"content"}) :
                /\ CampaignContent(c, i) \in Owned(w, AssociationKeys)
                /\ Insert(t, Row(w, {c, a, i}, "stored"))
    <3>1. PICK i \in OwnedEntities(w, {"content"}) :
                /\ CampaignContent(c, i) \in Owned(w, AssociationKeys)
                /\ Insert(t, Row(w, {c, a, i}, "stored"))
      BY <2>5
    <3>2. /\ i \in Entity({"content"}) /\ i \in DOMAIN row /\ row[i].ws = w
          /\ CampaignContent(c, i) \in DOMAIN row
      BY <3>1, OwnedRows DEF OwnedEntities
    <3>3. MayRefer(t, i) BY <3>2 DEF MayRefer, Entity
    <3>4. TaskFits({c, a, i})
      <4>1. {c, a, i} \cap Entity({"content"}) = {i} BY <2>2, <3>2 DEF Entity
      <4> QED BY <2>2, <3>2, <4>1 DEF TaskFits
    <3>5. Fits(t, Row(w, {c, a, i}, "stored"))
      BY <2>2, <2>3, <3>2, <3>3, <3>4, EntityFits DEF EntityKinds, States
    <3> QED BY <3>1, <3>5, InsertWrites
  <2> QED BY <2>1, <2>4, <2>5
<1> QED BY <1>1, <1>2, <1>3

LEMMA OwnedOfKind ==
    ASSUME NEW w, NEW kinds, NEW k \in OwnedEntities(w, kinds)
    PROVE  k \in Entity(kinds) /\ k[1] \in kinds /\ k \in DOMAIN row /\ row[k].ws = w
<1>1. k \in Entity(kinds) /\ k \in DOMAIN row /\ row[k].ws = w
  BY OwnedRows DEF OwnedEntities
<1> QED BY <1>1 DEF Entity

LEMMA InboxWrites ==
    ASSUME RecordsInv, NEW w \in Workspaces,
           conversation_upsert_record(w) \/ message_add(w) \/ upsert_opportunity(w)
    PROVE  Write(w)
<1>1. CASE conversation_upsert_record(w)
  <2>1. PICK k \in Entity({"conversation"}), a \in OwnedEntities(w, {"account"}),
             c \in Optional(OwnedEntities(w, {"contact"})) :
            Upsert(k, Row(w, {a} \cup c, "stored"))
    BY <1>1 DEF conversation_upsert_record
  <2>2. \A t \in {a} \cup c : t \in DOMAIN row /\ row[t].ws = w /\ t[1] \in {"account", "contact"}
    BY OwnedOfKind DEF Optional
  <2>3. \A t \in {a} \cup c : MayRefer(k, t)
    BY <2>2 DEF MayRefer, Entity
  <2>4. Fits(k, Row(w, {a} \cup c, "stored"))
    BY <2>2, <2>3, EntityFits DEF EntityKinds, States
  <2> QED BY <2>1, <2>4, UpsertWrites
<1>2. CASE message_add(w)
  <2>1. PICK m \in Entity({"message"}), c \in OwnedEntities(w, {"conversation"}) :
            Insert(m, Row(w, {c}, "stored"))
    BY <1>2 DEF message_add
  <2>2. c \in DOMAIN row /\ row[c].ws = w /\ c[1] = "conversation"
    BY OwnedOfKind
  <2>3. Fits(m, Row(w, {c}, "stored"))
    BY <2>2, EntityFits DEF EntityKinds, States, MayRefer
  <2> QED BY <2>1, <2>3, InsertWrites
<1>3. CASE upsert_opportunity(w)
  <2>1. PICK o \in Entity({"opportunity"}), c \in OwnedEntities(w, {"contact"}),
             campaign \in Optional(OwnedEntities(w, {"campaign"})) :
            Upsert(o, Row(w, {c} \cup campaign, "stored"))
    BY <1>3 DEF upsert_opportunity
  <2>2. \A t \in {c} \cup campaign :
            t \in DOMAIN row /\ row[t].ws = w /\ t[1] \in {"contact", "campaign"}
    BY OwnedOfKind DEF Optional
  <2>3. \A t \in {c} \cup campaign : MayRefer(o, t)
    BY <2>2 DEF MayRefer, Entity
  <2>4. Fits(o, Row(w, {c} \cup campaign, "stored"))
    BY <2>2, <2>3, EntityFits DEF EntityKinds, States
  <2> QED BY <2>1, <2>4, UpsertWrites
<1> QED BY <1>1, <1>2, <1>3

(* The key of such a row names its workspace, so a row that is there        *)
(* already is w's.                                                          *)
LEMMA KeyedWrites ==
    ASSUME RecordsInv, NEW w \in Workspaces, NEW k \in Keys, NEW refs,
           k[1] \in OwnedByKey, k[2] = w,
           \A t \in refs : t \in DOMAIN row /\ row[t].ws = w /\ MayRefer(k, t),
           Store(k, Row(w, refs, "stored"))
    PROVE  Write(w)
<1>1. refs \in SUBSET Keys BY DEF RecordsInv, RecordsTypeOK
<1>2. Shape(k, Row(w, refs, "stored"))
  BY DEF Shape, Row, Relations, OwnedByKey
<1>3. Fits(k, Row(w, refs, "stored"))
  BY <1>1, <1>2 DEF Fits, Row, Rows, States, OwnedByKey
<1>4. Upsert(k, Row(w, refs, "stored"))
  BY DEF Upsert, Row, RecordsInv, RowsHaveShape, Shape
<1> QED BY <1>3, <1>4, UpsertWrites

LEMMA MarketingWrites ==
    ASSUME RecordsInv, NEW w \in Workspaces, MarketingCommands(w) PROVE Write(w)
<1>1. CASE marketing_link_upsert(w)
  <2>1. PICK id \in Ids, campaign \in Optional(OwnedEntities(w, {"campaign"})),
             content \in Optional(OwnedEntities(w, {"content"})) :
            Store(MarketingLink(w, id), Row(w, campaign \cup content, "stored"))
    BY <1>1 DEF marketing_link_upsert
  <2> DEFINE k == MarketingLink(w, id)
  <2>2. k \in Keys /\ k[1] \in OwnedByKey /\ k[2] = w
    BY DEF MarketingLink, MarketingLinkKeys, WorkspaceKeys, Keys, OwnedByKey
  <2>3. \A t \in campaign \cup content :
            t \in DOMAIN row /\ row[t].ws = w /\ t[1] \in {"campaign", "content"}
    BY OwnedOfKind DEF Optional
  <2>4. \A t \in campaign \cup content : MayRefer(k, t)
    BY <2>3 DEF MayRefer
  <2> QED BY <2>1, <2>2, <2>3, <2>4, KeyedWrites
<1>2. CASE marketing_link_evidence_add(w)
  <2>1. PICK l \in Owned(w, MarketingLinkKeys) :
            Store(LinkEvidence(w, l), Row(w, {l}, "stored"))
    BY <1>2 DEF marketing_link_evidence_add
  <2>2. l \in MarketingLinkKeys /\ l \in DOMAIN row /\ row[l].ws = w
    BY OwnedRows
  <2>3. l[1] = "marketing_link" BY <2>2 DEF MarketingLinkKeys, MarketingLink
  <2> DEFINE k == LinkEvidence(w, l)
  <2>4. k \in Keys /\ k[1] \in OwnedByKey /\ k[2] = w
    BY <2>2 DEF LinkEvidence, WorkspaceKeys, Keys, OwnedByKey
  <2>5. MayRefer(k, l) BY <2>3 DEF MayRefer
  <2> QED BY <2>1, <2>2, <2>4, <2>5, KeyedWrites
<1> QED BY <1>1, <1>2 DEF MarketingCommands

LEMMA WorkWrites ==
    ASSUME RecordsInv, NEW w \in Workspaces,
           work_dependency_upsert(w) \/ operational_link_upsert(w)
    PROVE  Write(w)
<1>1. CASE work_dependency_upsert(w)
  <2>1. PICK p \in OwnedEntities(w, {"work_item"}), s \in OwnedEntities(w, {"work_item"}) :
            Insert(Dependency(w, p, s), Row(w, {p, s}, "stored"))
    BY <1>1 DEF work_dependency_upsert
  <2> DEFINE k == Dependency(w, p, s)
  <2>2. \A t \in {p, s} : /\ t \in DOMAIN row /\ row[t].ws = w /\ t[1] = "work_item"
                          /\ t \in Entity({"work_item"})
    BY OwnedOfKind
  <2>3. k \in Keys /\ k[1] \in OwnedByKey /\ k[2] = w
    BY <2>2 DEF Dependency, WorkspaceKeys, Keys, OwnedByKey
  <2>4. \A t \in {p, s} : MayRefer(k, t) BY <2>2 DEF MayRefer
  <2>5. Store(k, Row(w, {p, s}, "stored")) BY <2>1 DEF Insert
  <2> HIDE DEF k
  <2> QED BY <2>2, <2>3, <2>4, <2>5, KeyedWrites
<1>2. CASE operational_link_upsert(w)
  <2>1. PICK from \in Owned(w, Linkable), to \in Owned(w, Linkable) :
            Store(OperationalLink(w, from, to), Row(w, {from, to}, "stored"))
    BY <1>2 DEF operational_link_upsert
  <2> DEFINE k == OperationalLink(w, from, to)
  <2>2. \A t \in {from, to} : t \in Linkable /\ t \in DOMAIN row /\ row[t].ws = w
    BY OwnedRows
  <2>3. k \in Keys /\ k[1] = "operational_link" /\ k[2] = w
    BY <2>2 DEF OperationalLink, OperationalLinkKeys, WorkspaceKeys, Keys
  <2>4. \A t \in {from, to} : t[1] \notin {"account", "operational_link"}
    BY <2>2 DEF Linkable, LinkableKinds, KnowledgeKeys, Entity
  <2>5. \A t \in {from, to} : MayRefer(k, t) BY <2>3, <2>4 DEF MayRefer
  <2> HIDE DEF k
  <2> QED BY <2>1, <2>2, <2>3, <2>5, KeyedWrites DEF OwnedByKey, k
<1> QED BY <1>1, <1>2

LEMMA KnowledgeWrites ==
    ASSUME RecordsInv, NEW w \in Workspaces,
           \/ research_finding_upsert(w)
           \/ publish_finding_to_knowledge(w)
           \/ knowledge_item_upsert(w)
           \/ knowledge_evidence_add(w)
    PROVE  Write(w)
<1>1. CASE research_finding_upsert(w)
  <2>1. PICK f \in Entity({"research_finding"}), b \in OwnedEntities(w, {"research_brief"}),
             sources \in SourceLists(w) :
            Upsert(f, Row(w, {b} \cup sources, "stored"))
    BY <1>1 DEF research_finding_upsert
  <2>2. \A t \in {b} \cup sources : /\ t \in DOMAIN row /\ row[t].ws = w
                                    /\ t[1] \in {"research_brief", "knowledge_source"}
    BY OwnedOfKind DEF SourceLists
  <2>3. \A t \in {b} \cup sources : MayRefer(f, t) BY <2>2 DEF MayRefer
  <2>4. Fits(f, Row(w, {b} \cup sources, "stored"))
    BY <2>2, <2>3, EntityFits DEF EntityKinds, States
  <2> QED BY <2>1, <2>4, UpsertWrites
<1>2. ASSUME NEW i \in KnowledgeKeys, NEW sources,
             sources \subseteq OwnedEntities(w, {"knowledge_source"}),
             Upsert(i, Row(w, sources, "stored"))
      PROVE  Write(w)
  <2>1. \A t \in sources : t \in DOMAIN row /\ row[t].ws = w /\ t[1] = "knowledge_source"
    BY <1>2, OwnedOfKind
  <2>2. i \in Keys /\ i[1] \in {"knowledge_item", "knowledge_item research:"}
    BY DEF KnowledgeKeys, Entity, Keys, EntityKeys
  <2>3. sources \in SUBSET Keys BY <2>1 DEF RecordsInv, RecordsTypeOK
  <2>4. Shape(i, Row(w, sources, "stored"))
    BY <2>1, <2>2 DEF Shape, Row, Relations, OwnedByKey, MayRefer
  <2>5. Fits(i, Row(w, sources, "stored"))
    BY <2>1, <2>2, <2>3, <2>4 DEF Fits, Row, Rows, States
  <2> QED BY <2>5, <1>2, UpsertWrites
<1>3. CASE publish_finding_to_knowledge(w)
  <2>1. PICK f \in OwnedEntities(w, {"research_finding"}),
             sources \in SUBSET OwnedEntities(w, {"knowledge_source"}) :
            Upsert(PublicationOf(f), Row(w, sources, "stored"))
    BY <1>3 DEF publish_finding_to_knowledge
  <2>2. PublicationOf(f) \in KnowledgeKeys
    <3>1. f \in {"research_finding"} \X Ids BY OwnedOfKind DEF Entity
    <3> QED BY <3>1 DEF PublicationOf, KnowledgeKeys, Entity
  <2> QED BY <1>2, <2>1, <2>2
<1>4. CASE knowledge_item_upsert(w)
  BY <1>2, <1>4 DEF knowledge_item_upsert, SourceLists
<1>5. CASE knowledge_evidence_add(w)
  <2>1. PICK i \in Owned(w, KnowledgeKeys), s \in OwnedEntities(w, {"knowledge_source"}) :
            Store(EvidenceKey(i, s), Row(w, {i, s}, "stored"))
    BY <1>5 DEF knowledge_evidence_add
  <2>2. /\ i \in KnowledgeKeys /\ i \in DOMAIN row /\ row[i].ws = w
        /\ s \in Entity({"knowledge_source"}) /\ s \in DOMAIN row /\ row[s].ws = w
        /\ s[1] = "knowledge_source"
    BY OwnedRows, OwnedOfKind
  <2>3. i[1] \in {"knowledge_item", "knowledge_item research:"}
    BY <2>2 DEF KnowledgeKeys, Entity
  <2> DEFINE k == EvidenceKey(i, s)
  <2>4. k \in Keys /\ k[1] = "knowledge_evidence" /\ k[2] = i /\ k[3] = s
    BY <2>2 DEF Keys, AssociationKeys, EvidenceKey
  <2>5. {i, s} \in SUBSET Keys BY <2>2 DEF RecordsInv, RecordsTypeOK
  <2>6. Store(k, Row(w, {i, s}, "stored")) BY <2>1
  <2> HIDE DEF k
  <2>7. Shape(k, Row(w, {i, s}, "stored"))
    BY <2>2, <2>3, <2>4 DEF Shape, Row, Relations, OwnedByKey, MayRefer
  <2>8. Fits(k, Row(w, {i, s}, "stored"))
    BY <2>2, <2>4, <2>5, <2>7 DEF Fits, Row, Rows, States
  <2>9. k \in DOMAIN row => row[k].ws = w
    <3> SUFFICES ASSUME k \in DOMAIN row PROVE row[k].ws = w OBVIOUS
    <3>1. i \in row[k].refs
      BY <2>4 DEF RecordsInv, RowsHaveShape, Shape, Relations
    <3> QED BY <3>1, <2>2, <2>4 DEF RecordsInv, ReferencesStayInside, MayDangle
  <2>10. Upsert(k, Row(w, {i, s}, "stored"))
    BY <2>6, <2>9 DEF Upsert, Row
  <2> QED BY <2>8, <2>10, UpsertWrites
<1> QED BY <1>1, <1>3, <1>4, <1>5

LEMMA StrategyAndRunWrites ==
    ASSUME RecordsInv, NEW w \in Workspaces, strategy_upsert(w) \/ agent_run_create(w)
    PROVE  Write(w)
<1>1. CASE strategy_upsert(w)
  <2>1. PICK s \in Entity({"strategy"}),
             refs \in SUBSET OwnedEntities(w, {"objective", "audience", "offer"}) :
            Upsert(s, Row(w, refs, "stored"))
    BY <1>1 DEF strategy_upsert, StrategyLists
  <2>2. \A t \in refs : /\ t \in DOMAIN row /\ row[t].ws = w
                        /\ t[1] \in {"objective", "audience", "offer"}
    BY OwnedOfKind
  <2>3. \A t \in refs : MayRefer(s, t) BY <2>2 DEF MayRefer
  <2>4. Fits(s, Row(w, refs, "stored"))
    BY <2>2, <2>3, EntityFits DEF EntityKinds, States
  <2> QED BY <2>1, <2>4, UpsertWrites
<1>2. CASE agent_run_create(w)
  <2>1. PICK r \in Entity({"agent_run"}), a \in OwnedEntities(w, {"agent"}) :
            Insert(r, Row(w, {a}, "queued"))
    BY <1>2 DEF agent_run_create
  <2>2. a \in DOMAIN row /\ row[a].ws = w /\ a[1] = "agent"
    BY OwnedOfKind
  <2>3. Fits(r, Row(w, {a}, "queued"))
    BY <2>2, EntityFits DEF EntityKinds, States, RunStates, MayRefer
  <2> QED BY <2>1, <2>3, InsertWrites
<1> QED BY <1>1, <1>2

-----------------------------------------------------------------------------
(* The commands that change the state of a row, or delete one. *)

Restates(w) ==
    \E k \in DOMAIN row, state \in States :
        row[k].ws = w /\ row' = [row EXCEPT ![k].state = state]

LEMMA RestateKeeps ==
    ASSUME RecordsInv, NEW w \in Workspaces, Restates(w)
    PROVE  RecordsInv' /\ TouchesOnly(w)
<1>1. PICK k \in DOMAIN row, state \in States :
          row[k].ws = w /\ row' = [row EXCEPT ![k].state = state]
  BY DEF Restates
<1>2. row = [x \in DOMAIN row |-> row[x]] /\ row[k] \in Rows
  BY DEF RecordsInv, RecordsTypeOK, Rows
<1>3. /\ DOMAIN row' = DOMAIN row
      /\ row' = [x \in DOMAIN row' |-> row'[x]]
      /\ \A x \in DOMAIN row : x # k => row'[x] = row[x]
  BY <1>1, <1>2
<1>4. row'[k] \in Rows /\ row'[k].ws = row[k].ws /\ row'[k].refs = row[k].refs
  BY <1>1, <1>2 DEF Rows
<1>5. \A x \in DOMAIN row : row'[x].ws = row[x].ws /\ row'[x].refs = row[x].refs
  BY <1>3, <1>4
<1>6. RecordsTypeOK'
  BY <1>3, <1>4 DEF RecordsInv, RecordsTypeOK, Rows
<1>7. ReferencesStayInside'
  BY <1>3, <1>5 DEF RecordsInv, ReferencesStayInside, MayDangle
<1>8. CampaignsStayWhole'
  BY <1>3, <1>5 DEF RecordsInv, CampaignsStayWhole
<1>9. RowsHaveShape'
  BY <1>3, <1>5 DEF RecordsInv, RowsHaveShape, Shape
<1>10. TouchesOnly(w)
  BY <1>1, <1>3, <1>4 DEF TouchesOnly
<1> QED BY <1>6, <1>7, <1>8, <1>9, <1>10 DEF RecordsInv

LEMMA Restatements ==
    ASSUME RecordsInv, NEW w \in Workspaces,
           agent_run_set_status(w) \/ automation_rule_pack_set_enabled(w)
    PROVE  Restates(w)
<1>1. CASE agent_run_set_status(w)
  BY <1>1, OwnedOfKind DEF agent_run_set_status, Restates, States
<1>2. CASE automation_rule_pack_set_enabled(w)
  BY <1>2, OwnedOfKind DEF automation_rule_pack_set_enabled, Restates, States
<1> QED BY <1>1, <1>2

(* Only links refer to a deleted media asset, and nothing to a link.        *)
Deletes(w) ==
    \E d \in DOMAIN row :
        /\ d[1] \in {"media_asset", "operational_link"}
        /\ row[d].ws = w
        /\ row' = [x \in DOMAIN row \ {d} |-> row[x]]

LEMMA DeleteKeeps ==
    ASSUME RecordsInv, NEW w \in Workspaces, Deletes(w)
    PROVE  RecordsInv' /\ TouchesOnly(w)
<1>1. PICK d \in DOMAIN row :
          /\ d[1] \in {"media_asset", "operational_link"}
          /\ row[d].ws = w
          /\ row' = [x \in DOMAIN row \ {d} |-> row[x]]
  BY DEF Deletes
<1>2. /\ DOMAIN row' = DOMAIN row \ {d}
      /\ row' = [x \in DOMAIN row' |-> row'[x]]
      /\ \A x \in DOMAIN row' : row'[x] = row[x]
  BY <1>1
<1>3. RecordsTypeOK'
  BY <1>2 DEF RecordsInv, RecordsTypeOK
<1>4. ReferencesStayInside'
  <2> SUFFICES ASSUME NEW k \in DOMAIN row', NEW t \in row'[k].refs
               PROVE  MayDangle(k, t) \/ (t \in DOMAIN row' /\ row'[t].ws = row'[k].ws)
    BY DEF ReferencesStayInside, MayDangle
  <2>1. k \in DOMAIN row /\ t \in row[k].refs /\ MayRefer(k, t)
    BY <1>2 DEF RecordsInv, RowsHaveShape, Shape
  <2>2. CASE t = d BY <1>1, <2>1, <2>2 DEF MayRefer, MayDangle
  <2>3. CASE t # d BY <1>2, <2>1, <2>3 DEF RecordsInv, ReferencesStayInside
  <2> QED BY <2>2, <2>3
<1>5. CampaignsStayWhole'
  <2>1. \A c, a : /\ CampaignAccount(c, a) \in DOMAIN row => CampaignAccount(c, a) \in DOMAIN row'
                  /\ CampaignContent(c, a) \in DOMAIN row => CampaignContent(c, a) \in DOMAIN row'
    BY <1>1, <1>2 DEF CampaignAccount, CampaignContent
  <2>2. \A a \in Entity({"account"}) \cap DOMAIN row : a \in DOMAIN row'
    BY <1>1, <1>2 DEF Entity
  <2> QED BY <1>2, <2>1, <2>2 DEF RecordsInv, CampaignsStayWhole
<1>6. RowsHaveShape'
  BY <1>2 DEF RecordsInv, RowsHaveShape
<1>7. TouchesOnly(w)
  BY <1>1, <1>2 DEF TouchesOnly
<1> QED BY <1>3, <1>4, <1>5, <1>6, <1>7 DEF RecordsInv

LEMMA Deletions ==
    ASSUME RecordsInv, NEW w \in Workspaces,
           media_asset_delete(w) \/ operational_link_delete(w)
    PROVE  Deletes(w)
<1>1. CASE media_asset_delete(w)
  <2>1. PICK m \in OwnedEntities(w, {"media_asset"}) : row' = [k \in DOMAIN row \ {m} |-> row[k]]
    BY <1>1 DEF media_asset_delete
  <2>2. m[1] = "media_asset" /\ m \in DOMAIN row /\ row[m].ws = w BY OwnedOfKind
  <2> QED BY <2>1, <2>2 DEF Deletes
<1>2. CASE operational_link_delete(w)
  <2>1. PICK k \in Owned(w, OperationalLinkKeys) :
            row' = [x \in DOMAIN row \ {k} |-> row[x]]
    BY <1>2 DEF operational_link_delete
  <2>2. k \in OperationalLinkKeys /\ k \in DOMAIN row /\ row[k].ws = w
    BY OwnedRows
  <2>3. k[1] = "operational_link" BY <2>2 DEF OperationalLinkKeys, OperationalLink
  <2> QED BY <2>1, <2>2, <2>3 DEF Deletes
<1> QED BY <1>1, <1>2

LEMMA CreateKeeps ==
    ASSUME RecordsInv, NEW w \in Workspaces, create_campaign(w)
    PROVE  RecordsInv' /\ TouchesOnly(w)
<1>1. PICK c \in Entity({"campaign"}) \ DOMAIN row,
           accounts \in (SUBSET OwnedEntities(w, {"account"})) \ {{}} :
          LET joined == {CampaignAccount(c, a) : a \in accounts}
          IN  row' = [k \in DOMAIN row \cup {c} \cup joined |->
                        IF k = c THEN Row(w, {}, "stored")
                        ELSE IF k \in joined THEN Row(w, {c, k[3]}, "stored")
                        ELSE row[k]]
  BY DEF create_campaign
<1> DEFINE joined == {CampaignAccount(c, a) : a \in accounts}
<1>2. c[1] = "campaign" /\ c \in Keys /\ c \notin DOMAIN row
  BY DEF Entity, EntityKinds, EntityKeys, Keys
<1>3. \A a \in accounts : /\ a \in Entity({"account"}) /\ a[1] = "account"
                          /\ a \in DOMAIN row /\ row[a].ws = w /\ a \in Keys
  BY OwnedOfKind DEF RecordsInv, RecordsTypeOK
<1>4. \A j \in joined : /\ j[1] = "campaign_account" /\ j[2] = c /\ j[3] \in accounts
                        /\ j \in Keys /\ j # c
  BY <1>2, <1>3 DEF CampaignAccount, AssociationKeys, Keys
<1>5. \A j \in joined : j \notin DOMAIN row
  <2> SUFFICES ASSUME NEW j \in joined, j \in DOMAIN row PROVE FALSE OBVIOUS
  <2>1. c \in row[j].refs
    BY <1>4 DEF RecordsInv, RowsHaveShape, Shape, Relations
  <2> QED BY <2>1, <1>2, <1>4 DEF RecordsInv, ReferencesStayInside, MayDangle
<1>6. /\ DOMAIN row' = DOMAIN row \cup {c} \cup joined
      /\ row' = [k \in DOMAIN row' |-> row'[k]]
      /\ row'[c] = Row(w, {}, "stored")
      /\ \A j \in joined : row'[j] = Row(w, {c, j[3]}, "stored")
      /\ \A k \in DOMAIN row : row'[k] = row[k]
  BY <1>1, <1>2, <1>4, <1>5
<1>7. \A a \in accounts : CampaignAccount(c, a) \in joined
  OBVIOUS
<1>8. accounts # {} OBVIOUS
<1> HIDE DEF joined
<1>9. RecordsTypeOK'
  <2>1. DOMAIN row' \subseteq Keys
    BY <1>2, <1>4, <1>6 DEF RecordsInv, RecordsTypeOK
  <2>2. Row(w, {}, "stored") \in Rows BY DEF Row, Rows, States
  <2>3. \A j \in joined : Row(w, {c, j[3]}, "stored") \in Rows
    BY <1>2, <1>3, <1>4 DEF Row, Rows, States
  <2>4. \A k \in DOMAIN row' : row'[k] \in Rows
    BY <2>2, <2>3, <1>6 DEF RecordsInv, RecordsTypeOK, Rows
  <2> QED BY <2>1, <2>4, <1>6 DEF RecordsTypeOK, Rows
<1>10. ReferencesStayInside'
  <2>1. \A j \in joined : row'[j].refs = {c, j[3]} /\ row'[j].ws = w
    BY <1>6 DEF Row
  <2>2. row'[c].ws = w /\ row'[c].refs = {} BY <1>6 DEF Row
  <2>3. \A j \in joined : \A t \in row'[j].refs : t \in DOMAIN row' /\ row'[t].ws = row'[j].ws
    BY <2>1, <2>2, <1>3, <1>4, <1>6
  <2> QED BY <2>2, <2>3, <1>6 DEF RecordsInv, ReferencesStayInside, MayDangle
<1>11. CampaignsStayWhole'
  <2>1. PICK a \in accounts : TRUE BY <1>8
  <2>2. /\ a \in Entity({"account"}) \cap DOMAIN row'
        /\ CampaignAccount(c, a) \in DOMAIN row'
    BY <2>1, <1>3, <1>6, <1>7
  <2> QED BY <2>2, <1>2, <1>4, <1>6 DEF RecordsInv, CampaignsStayWhole
<1>12. RowsHaveShape'
  <2>1. \A j \in joined : Shape(j, row'[j])
    BY <1>2, <1>3, <1>4, <1>6 DEF Shape, Row, Relations, OwnedByKey, MayRefer
  <2>2. Shape(c, row'[c])
    BY <1>2, <1>6 DEF Shape, Row, Relations, OwnedByKey
  <2> QED BY <2>1, <2>2, <1>6 DEF RecordsInv, RowsHaveShape
<1>13. TouchesOnly(w)
  BY <1>2, <1>5, <1>6 DEF TouchesOnly, Row
<1> QED BY <1>9, <1>10, <1>11, <1>12, <1>13 DEF RecordsInv

(* Of the three tables that refer to accounts, one is cleared and the other *)
(* two have no row that refers to this one.                                 *)
LEMMA AccountDeleteKeeps ==
    ASSUME RecordsInv, NEW w \in Workspaces, account_delete(w)
    PROVE  RecordsInv' /\ TouchesOnly(w)
<1>1. PICK d \in OwnedEntities(w, {"account"}) :
          /\ ~Restricted(d)
          /\ row' = [k \in DOMAIN row \ {d} |-> WithoutAccount(w, d, k)]
  BY DEF account_delete
<1>2. d \in Entity({"account"}) /\ d[1] = "account" /\ d \in DOMAIN row /\ row[d].ws = w
  BY OwnedOfKind
<1>3. DOMAIN row' = DOMAIN row \ {d} /\ row' = [x \in DOMAIN row' |-> row'[x]]
  BY <1>1
<1>4. ASSUME NEW k \in DOMAIN row'
      PROVE  /\ k \in DOMAIN row /\ row[k] \in Rows
             /\ row'[k] = WithoutAccount(w, d, k)
             /\ row'[k] \in Rows /\ row'[k].ws = row[k].ws
             /\ row'[k].refs \subseteq row[k].refs
             /\ k[1] # "conversation" \/ row[k].ws # w => row'[k] = row[k]
             /\ k[1] = "conversation" /\ row[k].ws = w => d \notin row'[k].refs
  BY <1>1, <1>3 DEF WithoutAccount, RecordsInv, RecordsTypeOK, Rows
<1>5. \A k \in DOMAIN row' : d \notin row'[k].refs
  <2> SUFFICES ASSUME NEW k \in DOMAIN row', d \in row'[k].refs PROVE FALSE OBVIOUS
  <2>1. d \in row[k].refs /\ k \in DOMAIN row BY <1>4
  <2>2. k[1] \in {"conversation", "campaign_account", "task"}
    BY <2>1, <1>2 DEF RecordsInv, RowsHaveShape, Shape, MayRefer
  <2>3. row[k].ws = w
    BY <2>1, <1>2 DEF RecordsInv, ReferencesStayInside, MayDangle
  <2>4. k[1] = "conversation" BY <2>1, <2>2, <1>1 DEF Restricted
  <2> QED BY <2>3, <2>4, <1>4
<1>6. RecordsTypeOK'
  BY <1>3, <1>4 DEF RecordsInv, RecordsTypeOK, Rows
<1>7. ReferencesStayInside'
  <2> SUFFICES ASSUME NEW k \in DOMAIN row', NEW t \in row'[k].refs
               PROVE  MayDangle(k, t) \/ (t \in DOMAIN row' /\ row'[t].ws = row'[k].ws)
    BY DEF ReferencesStayInside, MayDangle
  <2>1. t # d BY <1>5
  <2>2. k \in DOMAIN row /\ t \in row[k].refs BY <1>4
  <2> QED BY <2>1, <2>2, <1>3, <1>4 DEF RecordsInv, ReferencesStayInside
<1>8. CampaignsStayWhole'
  <2>1. \A c, a : /\ CampaignAccount(c, a) \in DOMAIN row => CampaignAccount(c, a) \in DOMAIN row'
                  /\ CampaignContent(c, a) \in DOMAIN row => CampaignContent(c, a) \in DOMAIN row'
    BY <1>2, <1>3 DEF CampaignAccount, CampaignContent
  <2>2. \A c : CampaignAccount(c, d) \notin DOMAIN row
    <3> SUFFICES ASSUME NEW c, CampaignAccount(c, d) \in DOMAIN row PROVE FALSE OBVIOUS
    <3> DEFINE k == CampaignAccount(c, d)
    <3>1. k[1] = "campaign_account" /\ k[3] = d BY DEF CampaignAccount
    <3>2. d \in row[k].refs BY <3>1 DEF RecordsInv, RowsHaveShape, Shape, Relations
    <3> QED BY <3>1, <3>2, <1>1 DEF Restricted
  <2>3. \A k \in DOMAIN row' : k[1] = "task" => row'[k] = row[k]
    BY <1>4
  <2> QED BY <1>3, <2>1, <2>2, <2>3 DEF RecordsInv, CampaignsStayWhole
<1>9. RowsHaveShape'
  <2> SUFFICES ASSUME NEW k \in DOMAIN row' PROVE Shape(k, row'[k])
    BY DEF RowsHaveShape
  <2>1. Shape(k, row[k]) BY <1>4 DEF RecordsInv, RowsHaveShape
  <2>2. k[1] \notin {"variant"} \cup Relations => Shape(k, row'[k])
    BY <2>1, <1>4 DEF Shape, Relations
  <2>3. k[1] \in {"variant"} \cup Relations => row'[k] = row[k]
    BY <1>4 DEF Relations
  <2> QED BY <2>1, <2>2, <2>3
<1>10. TouchesOnly(w)
  BY <1>2, <1>3, <1>4 DEF TouchesOnly
<1> QED BY <1>6, <1>7, <1>8, <1>9, <1>10 DEF RecordsInv

-----------------------------------------------------------------------------
(* Every step, one case per group of commands. *)

LEMMA StepKeeps ==
    ASSUME RecordsInv, RecordsNext
    PROVE  RecordsInv' /\ \E w \in Workspaces : May(w, Operators) /\ TouchesOnly(w)
<1>1. PICK w \in Workspaces :
          \/ AccountCommands(w)   \/ CampaignCommands(w) \/ InboxCommands(w)
          \/ MarketingCommands(w) \/ KnowledgeCommands(w) \/ StrategyCommands(w)
          \/ AgentCommands(w)     \/ AssetCommands(w)    \/ WorkCommands(w)
  BY DEF RecordsNext
<1>2. May(w, Admins) \/ May(w, Editors) \/ May(w, {"owner", "admin", "operator"})
        => May(w, Operators)
  BY DEF May, Admins, Editors, Operators
<1>3. ASSUME Write(w) PROVE RecordsInv' /\ TouchesOnly(w)
  BY <1>3, WriteKeeps, WriteTouchesOnly
<1>4. CASE AccountCommands(w)
  <2>1. CASE account_upsert(w)
    BY <2>1, <1>2, <1>3, PlainWrites DEF account_upsert, UpsertPlain, PlainKinds, EntityKinds
  <2>2. CASE account_delete(w)
    BY <2>2, <1>2, AccountDeleteKeeps DEF account_delete
  <2> QED BY <1>4, <2>1, <2>2 DEF AccountCommands
<1>5. CASE CampaignCommands(w)
  <2>1. CASE create_campaign(w)
    BY <2>1, <1>2, CreateKeeps DEF create_campaign
  <2>2. CASE content_upsert(w)
    BY <2>2, <1>2, <1>3, PlainWrites DEF content_upsert, UpsertPlain, PlainKinds, EntityKinds
  <2>3. CASE content_variant_upsert(w) \/ campaign_attach_content(w) \/ task_enqueue(w)
    BY <2>3, <1>2, <1>3, CampaignWrites
       DEF content_variant_upsert, campaign_attach_content, task_enqueue
  <2> QED BY <1>5, <2>1, <2>2, <2>3 DEF CampaignCommands
<1>6. CASE InboxCommands(w)
  <2>1. CASE contact_upsert(w)
    BY <2>1, <1>2, <1>3, PlainWrites DEF contact_upsert, UpsertPlain, PlainKinds, EntityKinds
  <2>2. CASE conversation_upsert_record(w) \/ message_add(w) \/ upsert_opportunity(w)
    BY <2>2, <1>2, <1>3, InboxWrites
       DEF conversation_upsert_record, message_add, upsert_opportunity
  <2> QED BY <1>6, <2>1, <2>2 DEF InboxCommands
<1>7. CASE MarketingCommands(w)
  <2>1. May(w, Operators)
    BY <1>7, <1>2 DEF MarketingCommands, marketing_link_upsert, marketing_link_evidence_add
  <2> QED BY <2>1, <1>7, <1>3, MarketingWrites
<1>8. CASE KnowledgeCommands(w)
  <2>1. CASE research_brief_upsert(w) \/ knowledge_source_upsert(w)
    BY <2>1, <1>2, <1>3, PlainWrites
       DEF research_brief_upsert, knowledge_source_upsert, UpsertPlain, PlainKinds, EntityKinds
  <2>2. CASE \/ research_finding_upsert(w) \/ publish_finding_to_knowledge(w)
             \/ knowledge_item_upsert(w)   \/ knowledge_evidence_add(w)
    BY <2>2, <1>2, <1>3, KnowledgeWrites
       DEF research_finding_upsert, publish_finding_to_knowledge, knowledge_item_upsert,
           knowledge_evidence_add
  <2> QED BY <1>8, <2>1, <2>2 DEF KnowledgeCommands
<1>9. CASE StrategyCommands(w)
  <2>1. CASE objective_upsert(w) \/ audience_upsert(w) \/ offer_upsert(w)
    BY <2>1, <1>2, <1>3, PlainWrites
       DEF objective_upsert, audience_upsert, offer_upsert, UpsertPlain, PlainKinds, EntityKinds
  <2>2. CASE strategy_upsert(w)
    BY <2>2, <1>2, <1>3, StrategyAndRunWrites DEF strategy_upsert
  <2> QED BY <1>9, <2>1, <2>2 DEF StrategyCommands
<1>10. CASE AgentCommands(w)
  <2>1. CASE agent_upsert(w)
    BY <2>1, <1>2, <1>3, PlainWrites DEF agent_upsert, UpsertToggled, PlainKinds, EntityKinds
  <2>2. CASE agent_run_create(w)
    BY <2>2, <1>2, <1>3, StrategyAndRunWrites DEF agent_run_create
  <2>3. CASE agent_run_set_status(w)
    BY <2>3, <1>2, Restatements, RestateKeeps DEF agent_run_set_status
  <2> QED BY <1>10, <2>1, <2>2, <2>3 DEF AgentCommands
<1>11. CASE AssetCommands(w)
  <2>1. CASE \/ media_asset_upsert(w) \/ import_media_asset(w) \/ policy_upsert(w)
             \/ insight_upsert(w)
    BY <2>1, <1>2, <1>3, PlainWrites
       DEF media_asset_upsert, import_media_asset, policy_upsert, insight_upsert,
           UpsertPlain, PlainKinds, EntityKinds
  <2>2. CASE automation_rule_pack_upsert(w)
    BY <2>2, <1>2, <1>3, PlainWrites
       DEF automation_rule_pack_upsert, UpsertToggled, PlainKinds, EntityKinds
  <2>3. CASE automation_rule_pack_set_enabled(w)
    BY <2>3, <1>2, Restatements, RestateKeeps DEF automation_rule_pack_set_enabled
  <2>4. CASE media_asset_delete(w)
    BY <2>4, <1>2, Deletions, DeleteKeeps DEF media_asset_delete
  <2> QED BY <1>11, <2>1, <2>2, <2>3, <2>4 DEF AssetCommands
<1>12. CASE WorkCommands(w)
  <2>1. CASE work_item_upsert(w)
    BY <2>1, <1>2, <1>3, PlainWrites DEF work_item_upsert, UpsertPlain, PlainKinds, EntityKinds
  <2>2. CASE work_dependency_upsert(w) \/ operational_link_upsert(w)
    BY <2>2, <1>2, <1>3, WorkWrites DEF work_dependency_upsert, operational_link_upsert
  <2>3. CASE operational_link_delete(w)
    BY <2>3, <1>2, Deletions, DeleteKeeps DEF operational_link_delete
  <2> QED BY <1>12, <2>1, <2>2, <2>3 DEF WorkCommands
<1> QED BY <1>1, <1>4, <1>5, <1>6, <1>7, <1>8, <1>9, <1>10, <1>11, <1>12

LEMMA RecordsInvariant == RecordsSpec => []RecordsInv
<1>1. RecordsInit => RecordsInv
  BY DEF RecordsInit, RecordsInv, RecordsTypeOK, ReferencesStayInside, CampaignsStayWhole,
         RowsHaveShape
<1>2. RecordsInv /\ [RecordsNext]_recordsVars => RecordsInv'
  <2> SUFFICES ASSUME RecordsInv, [RecordsNext]_recordsVars PROVE RecordsInv' OBVIOUS
  <2>1. CASE RecordsNext BY <2>1, StepKeeps
  <2>2. CASE UNCHANGED recordsVars
    BY <2>2 DEF recordsVars, RecordsInv, RecordsTypeOK, ReferencesStayInside,
                CampaignsStayWhole, RowsHaveShape
  <2> QED BY <2>1, <2>2
<1> QED BY <1>1, <1>2, PTL DEF RecordsSpec

(* Rows keep to the tables, owners and states the commands write.           *)
THEOREM RecordsTyped == RecordsSpec => []RecordsTypeOK
BY RecordsInvariant, PTL DEF RecordsInv

(* No command, in any order, leaves a reference that crosses workspaces or  *)
(* outlives its target.                                                     *)
THEOREM ReferencesStay == RecordsSpec => []ReferencesStayInside
BY RecordsInvariant, PTL DEF RecordsInv

(* No command, in any order, undoes what create_campaign and task_enqueue   *)
(* checked.                                                                 *)
THEOREM CampaignsWhole == RecordsSpec => []CampaignsStayWhole
BY RecordsInvariant, PTL DEF RecordsInv

(* A step changes rows of one workspace only, and only where the user may.  *)
THEOREM StepsStay == RecordsSpec => StepsStayInOneWorkspace
<1> DEFINE A == \E w \in Workspaces :
          /\ May(w, Operators)
          /\ \A k \in DOMAIN row \cup DOMAIN row' :
                \/ k \in DOMAIN row /\ k \in DOMAIN row' /\ row[k] = row'[k]
                \/ /\ k \in DOMAIN row  => row[k].ws = w
                   /\ k \in DOMAIN row' => row'[k].ws = w
<1>1. RecordsInv /\ [RecordsNext]_recordsVars => [A]_recordsVars
  BY StepKeeps DEF TouchesOnly
<1> QED BY <1>1, RecordsInvariant, PTL DEF RecordsSpec, StepsStayInOneWorkspace
=============================================================================
