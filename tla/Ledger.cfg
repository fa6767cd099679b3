SPECIFICATION FairSpec
CONSTANTS
    Call = {c1, c2}
    Source <- MCSource
    Request <- MCRequest
    Key = {k1}
    Period <- MCPeriod
    Month <- MCMonth
    MaxVersion = 2
    MaxApprovals = 1
    MonthsPerYear = 2
    None = None
INVARIANTS
    TypeOK
    AnswersAreEntries
    StatementsReconcile
PROPERTIES
    LedgerOnlyGrows
    ClosedPeriodTakesOnlyLateCalls
    EveryPostingReturns
