\* Two members, archives of one or two parts, one retry; two galleries, started,
\* cancelled and uploaded, whose images, hosts and answers may fail.
SPECIFICATION MCFairSpec
CONSTANTS
    NumHosts = 2
    NumParts = 2
    MaxRetries = 1
    HashFirst = {2}
    Faults = {}
    MaxFaults = 0
    TriggerSets <- MCTriggerSets
    None = None
    Galleries = {g1, g2}
    Images = {i1, i2}
    Skipped = {}
    AutoStart = FALSE
    Acts = {"cancel", "nohost", "folder", "lostanswer"}
    MaxQueue = 2
    MaxScans = 1
    MaxWrites = 0
    BatchSize = 1
    MaxSignals = 2
INVARIANTS
    InFlightOwned
    SettledIsTrue
PROPERTIES
    RowsSettle
    WaitersReleased
    UploadsEnd
    QueuedIsTaken
\* Nothing need happen once every row and every gallery has settled.
CHECK_DEADLOCK FALSE
