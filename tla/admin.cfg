SPECIFICATION Spec
CONSTANTS
    None = None
    Waiting = Waiting
    Done = Done
    Failed = Failed
    Unauthorized = Unauthorized
    Tours <- MCTours
    MaxHttp = 2
    Queries = {"", "b"}
    LastPage = 2
    Items = {1, 2}
    Servers = {s1, s2}
    InboundIds = {1}
    MaxOpened = 1
    Xui = {s1}
    Found = {2}
    Values = {v1, v2}
    MaxRevision = 1
    Files = {f1, f2}
    Secrets = {key}
    BackupKinds = {"save", "test"}
    Keys = {1, 2}
    Buttons = {2}
    Filters = {"all", "custom"}
INVARIANTS
    TypeOK
    RowsMatchRequest
    ListShowsStore
    RepliesMeetTheirForm
    AdjustedOnce
    SentIsShown
    InboundsOfTheirServer
    PoliciesForAllowed
    ReorderKeepsAll
    SecretsBelongToFile
    TargetsUsable
    SavedUnderItsKey
PROPERTIES
    ConnDraftKept
    PollingResumes
    BusyEnds
CHECK_DEADLOCK FALSE
