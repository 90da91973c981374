\* Three of: host disabled, dedup toggled, process killed, shutdown; spin-ups may fail.
SPECIFICATION Spec
CONSTANTS
    NumHosts = 2
    NumParts = 1
    MaxRetries = 0
    HashFirst = {1}
    Faults = {"stop", "spinup", "toggle", "crash", "shutdown"}
    MaxFaults = 3
    TriggerSets <- MCTriggerSets
INVARIANT
    ThreadsAccounted
PROPERTIES
    DedupOnlyIsTerminal
    KeepsPromise
\* When every row has settled only a user could go on.
CHECK_DEADLOCK FALSE
