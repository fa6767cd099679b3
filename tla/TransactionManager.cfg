SPECIFICATION FairSpec
CONSTANTS
    Call = {c1, c2}
    Outsider = {o1}
    Key = {k1, k2}
    MaxDepth = 3
    MaxWork = 3
    CallbackMayThrow = TRUE
    NoCall = NoCall
INVARIANTS
    TypeOK
    MutualExclusion
    FailedCallLeavesNoTrace
    PublishedIsCommitted
PROPERTIES
    OutsideWritesLostOnlyToRollback
    ImplementsAtomicStore
    EveryCallReturns
