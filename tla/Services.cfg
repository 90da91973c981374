\* Slots, link scanner, forum posts, statistics, file manager and account, one at a time.
\* OwnConnection is TRUE to see what the forum worker does beyond its first job, which
\* ends it as the code is (ClaimPostsAnswered).
SPECIFICATION Spec
CONSTANTS
    Nothing = Nothing
    SlotHosts = {"k2s", "tezfiles", "rapidgator"}
    Sources = {"gallery"}
    Shape <- OwnShape
    GlobalLimit = 2
    PerHostLimit = 1
    LinkHosts = {"imx", "k2s"}
    Kind <- KindOf
    MaxDashboards = 2
    MaxScanRuns = 2
    MaxDbFailures = 1
    Posts = {1, 2}
    MaxBodies = 2
    Modes = {"whole", "surgical", "whole_then_surgical"}
    Policies = {"skip_alert", "surgical"}
    OwnConnection = TRUE
    Recorders = {1, 2}
    MetricHosts = {"k2s"}
    FileCounts = {1, 2}
    MaxRecords = 2
    MaxMetricErrors = 1
    FileHosts = {"k2s", "filedot"}
    SessionHosts = {"filedot"}
    Folders = {"root", "sub"}
    Root = "root"
    MaxUserSteps = 3
    MaxManagerErrors = 1
    Clients = {1, 2}
    MaxTokens = 3
INVARIANTS
    TypeOK
    SlotsConserved
    OneArchive
    PostedIsSent
    StatsAgree
    WrittenOnClose
    ItemsStayAtTheirHost
    ViewSettles
    FreshTokens
PROPERTIES
    RowsServed
    StoppedStoresNothing
    ScanReports
    ManualEditsKept
\* Every service may come to rest.
CHECK_DEADLOCK FALSE
