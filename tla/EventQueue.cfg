SPECIFICATION FairSpec
CONSTANTS
    Event <- MCEvent
    Aggregate <- MCAggregate
    AggregateOf <- MCAggregateOf
    NEvents = 2
    NInvoice = 2
    NHandlers = 2
    Attempts = 2
    Backoff = 250
    MaxAdds = 2
    MayClose = TRUE
INVARIANTS
    TypeOK
    EffectAtMostOnce
    ProcessedMeansHandled
    FirstAttemptsInOrder
PROPERTIES
    OnlyPoisonDies
    EveryJobSettles
