\* Three members, one part, one retry by each worker, nothing else going wrong.
SPECIFICATION Spec
CONSTANTS
    NumHosts = 3
    NumParts = 1
    MaxRetries = 1
    HashFirst = {}
    Faults = {}
    MaxFaults = 0
    TriggerSets <- MCTriggerSets
INVARIANTS
    OneUploadAndRetries
    NoWaitChain
    TurnsAreNotLost
    WinnerRetriesFailures
\* When every row has settled only a user could go on.
CHECK_DEADLOCK FALSE
