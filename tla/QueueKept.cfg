\* Two galleries are added, removed and added again, over quits and crashes; one is
\* moved between tabs that are made, renamed and deleted; one of three images, sent
\* two at a time, is stopped, failed, scanned, retried and resumed.
SPECIFICATION Spec
CONSTANTS
    Paths = {p1, p2}
    MaxDbId = 2
    MaxJobs = 3
    Galleries = {"g"}
    TabNames = {"Main", "a", "b"}
    MaxTabs = 3
    MaxTabSteps = 4
    MaxSaves = 2
    NamesReturn = FALSE
    Uploaded = {g1}
    Images = {i1, i2, i3}
    Skipped = {}
    AutoStart = FALSE
    Acts = {"cancel", "retry", "rescan", "nohost", "stop", "disk"}
    None = None
    MaxQueue = 2
    MaxScans = 1
    MaxWrites = 0
    BatchSize = 2
    MaxRetries = 1
    MaxSignals = 2
SYMMETRY Symmetry
INVARIANTS
    RemovedStaysAway
    QuitKeepsQueue
    TabsSurviveQuit
    ImagesAccounted
PROPERTY
    KeepsDelivery
\* Nothing need happen once the user has removed every gallery.
CHECK_DEADLOCK FALSE
