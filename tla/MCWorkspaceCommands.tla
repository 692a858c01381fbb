------------------------ MODULE MCWorkspaceCommands ------------------------
(***************************************************************************)
(* TLC instances of the commands that work inside a workspace: its records *)
(* and their references, the approval of content, and experiments.  "part" *)
(* is chosen in the initial state: the tables of WorkspaceRecords form     *)
(* groups that refer to each other and to no other group, and the approval *)
(* and the experiments have variables of their own.                        *)
(***************************************************************************)
EXTENDS WorkspaceRecords, ContentApproval, Experiments, TLC

CONSTANTS w1, w2, i1, i2

VARIABLE part

Groups == {"campaign", "inbox", "marketing", "knowledge", "strategy", "agent", "asset", "work"}

\* The rows of i1 and i2 are interchangeable.
IdSymmetry == Permutations(Ids)

MCRole == [w \in Workspaces |-> IF w = w1 THEN "owner" ELSE "admin"]

MCMemberRole == [m \in Members |-> IF m = LocalUser THEN "owner" ELSE "reviewer"]

MCBucketOf == [k \in Workspaces \X ExperimentIds \X Subjects |->
                 IF k[3] = "s1" THEN 1 ELSE Scale - 1]

\* Four definitions, the shares of one less than a bucket and the sum of
\* another just above, and five that are to be refused.
MCVariantLists ==
    LET v(id, share) == [id |-> id, share |-> share] IN
    { <<v("a", 20), v("b", 20)>>, <<v("a", 10), v("b", 29)>>,
      <<v("b", 10), v("a", 20), v("c", 11)>>, <<v("a", 5), v("b", 5), v("c", 30)>>,
      <<v("a", 20), v("a", 20)>>, <<v("a", 40)>>, <<v("a", 50), v("b", -10)>>,
      <<v("a", 41), v("b", 1)>>, <<v("a", 20), v("b", 18)>> }

\* The second value is rounded down, the third up.
MCError(i) == IF i = 2 THEN -1 ELSE IF i = 3 THEN 1 ELSE 0

MCPercent == [b \in 0..(Scale - 1) |-> b * Grain - MCError(b + 1)]

MCSums == [vs \in VariantLists |-> [i \in DOMAIN vs |-> Cumulative(vs)[i] + MCError(i)]]

Commands(w) ==
    \/ part \in {"campaign", "inbox", "marketing"} /\ AccountCommands(w)
    \/ part = "campaign"  /\ CampaignCommands(w)
    \/ part = "inbox"     /\ InboxCommands(w)
    \/ part = "marketing" /\ (create_campaign(w) \/ content_upsert(w) \/ MarketingCommands(w))
    \/ part = "knowledge" /\ KnowledgeCommands(w)
    \/ part = "strategy"  /\ StrategyCommands(w)
    \/ part = "agent"     /\ AgentCommands(w)
    \/ part = "asset"     /\ AssetCommands(w)
    \/ part = "work"      /\ (WorkCommands(w) \/ media_asset_upsert(w) \/ media_asset_delete(w))

MCInit ==
    /\ RecordsInit
    /\ ContentInit
    /\ ExperimentsInit
    /\ part \in Groups \cup {"approval", "experiment"}

MCNext ==
    \/ \E w \in Workspaces : Commands(w) /\ UNCHANGED <<part, contentVars, experimentVars>>
    \/ part = "approval" /\ ContentNext /\ UNCHANGED <<part, row, experimentVars>>
    \/ part = "experiment" /\ ExperimentsNext /\ UNCHANGED <<part, row, contentVars>>

MCSpec == MCInit /\ [][MCNext]_<<part, row, contentVars, experimentVars>>
=============================================================================
