\* A claim of the source that the code does not keep.
SPECIFICATION Spec
CONSTANTS
    NumHosts = 2
    NumParts = 1
    MaxRetries = 0
    HashFirst = {}
    Faults = {}
    MaxFaults = 0
    TriggerSets <- MCTriggerSets
INVARIANT
    RetryIsReleased
\* When every row has settled only a user could go on.
CHECK_DEADLOCK FALSE
