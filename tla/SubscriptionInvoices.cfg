SPECIFICATION Spec
CONSTANTS
    Subscription = {s1}
    MonthLength <- MCMonthLength
    BillingDay = {1, 2, 6}
    LastDay = 10
    MaxPatches = 1
    NoDate = NoDate
INVARIANT
    SubscriptionsAreInvoiced
