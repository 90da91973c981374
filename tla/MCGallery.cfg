\* One gallery, over restarts at any step, and under scans and resets.
SPECIFICATION MCSpec
CONSTANTS
    None = None
    Galleries = {g1}
    Images = {i1, i2}
    Skipped = {}
    AutoStart = TRUE
    Acts = {"retry", "reset", "rescan", "cancel", "crash"}
    MaxQueue = 2
    MaxScans = 1
    MaxWrites = 1
    BatchSize = 1
    MaxRetries = 0
    MaxSignals = 2
INVARIANTS
    CompletedOverRestarts
    UploadingIsHeld
    QueuedIsInQueue
\* Nothing need happen once every gallery has settled.
CHECK_DEADLOCK FALSE
