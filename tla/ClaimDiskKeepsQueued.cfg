\* A claim of the source that the code does not keep.
SPECIFICATION Spec
CONSTANTS
    None = None
    Galleries = {g1}
    Images = {i1, i2}
    Skipped = {}
    AutoStart = FALSE
    Acts = {"disk"}
    MaxQueue = 1
    MaxScans = 1
    MaxWrites = 0
    BatchSize = 1
    MaxRetries = 0
    MaxSignals = 2
INVARIANT
    QueuedIsInQueue
\* Nothing need happen once every gallery has settled.
CHECK_DEADLOCK FALSE
