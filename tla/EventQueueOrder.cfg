SPECIFICATION Spec
CONSTANTS
    Event <- MCEvent
    Aggregate <- MCAggregate
    AggregateOf <- MCAggregateOf
    NEvents = 3
    NInvoice = 2
    NHandlers = 1
    Attempts = 2
    Backoff = 250
    MaxAdds = 1
    MayClose = FALSE
INVARIANT
    HandledInOrder
