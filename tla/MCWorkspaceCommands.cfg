CONSTANTS
    w1 = w1
    w2 = w2
    i1 = i1
    i2 = i2
    Workspaces = {w1, w2}
    Ids = {i1, i2}
    RoleOf <- MCRole
    MaxRows = 6
    Contents = {"c"}
    Texts = {"t1", "t2"}
    Approvals = {"a1", "a2"}
    Members = {"u", "v"}
    MemberRole <- MCMemberRole
    LocalUser = "u"
    Executions = {"x"}
    ExperimentIds = {"e"}
    ObservationIds = {"o"}
    Subjects = {"s1", "s2"}
    Scale = 4
    Grain = 10
    Tolerance = 2
    Rounding = 1
    Percent <- MCPercent
    Sums <- MCSums
    BucketOf <- MCBucketOf
    VariantLists <- MCVariantLists
SPECIFICATION MCSpec
SYMMETRY IdSymmetry
INVARIANTS
    RecordsTypeOK ReferencesStayInside CampaignsStayWhole
    ContentTypeOK ApprovedContentIsUnedited SentTextWasApproved
    ExperimentsTypeOK SharesAreHonoured AssignmentsAgree
PROPERTIES
    StepsStayInOneWorkspace
