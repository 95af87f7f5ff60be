SPECIFICATION Spec
CONSTANTS
    Accounts = {a1, a2}
    None = None
    Flows = {f1}
    MaxFatal = 2
    Workloads <- Mixed
CHECK_DEADLOCK FALSE
INVARIANTS
    TypeOK
    SettledCoherent
    SomethingKeepsMinting
    OneLiveLoop
PROPERTIES
    SignedOutSticks
    GivesUpWithAllFlagged
    DegradeEnds
    Recovers
