SPECIFICATION FairSpec
CONSTANTS
    Entries = {e1, e2, e3}
    Nobody = Nobody
    MaxRuntimes = 3
    Topics = 2
    MaxDisarms = 2
INVARIANTS
    TypeOK
    NoDeadRuntime
    SubscribedOnce
    NoOrphan
PROPERTIES
    DisarmsRunToTheirEnd
    CallsReturn
CHECK_DEADLOCK FALSE
