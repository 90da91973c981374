\* A gallery, two status checks, any answers of the host, a stop at any time.
SPECIFICATION FairSpec
CONSTANTS
    None = None
    Galleries = {g1}
    Checks = {1, 2}
INVARIANTS
    RenamesAccounted
    OneLogin
    CancelHolds
PROPERTIES
    RenamesHandled
    ChecksAnswered
\* A stopped worker does nothing more.
CHECK_DEADLOCK FALSE
