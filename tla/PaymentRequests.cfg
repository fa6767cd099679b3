SPECIFICATION FairSpec
CONSTANTS
    Caller = {r1, r2, r3}
    NoCaller = NoCaller
    MaxFailures = 2
    MayDisconnect = TRUE
INVARIANTS
    TypeOK
    ReplaysAreGenuine
    DuplicatesNeedAFailure
    ResultIsCommitted
PROPERTY
    EveryRequestSettles
