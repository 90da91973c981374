\* Two failures of the database, manual uploads or new triggers, anywhere.
SPECIFICATION Spec
CONSTANTS
    NumHosts = 2
    NumParts = 1
    MaxRetries = 0
    HashFirst = {1}
    Faults = {"dbfail", "lostwrite", "bookkeeping", "badurl", "folder", "reupload", "requeue"}
    MaxFaults = 2
    TriggerSets <- MCTriggerSets
INVARIANT
    WaitsForAnother
\* When every row has settled only a user could go on.
CHECK_DEADLOCK FALSE
