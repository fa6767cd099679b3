SPECIFICATION BackOfficeSpec
CONSTANTS
    BillEvent <- MCBillEvent
    BillContent <- MCBillContent
    Bill = {"b1", "b2"}
    Vendor = {"v1", "v2"}
    None = None
    MonthsPerYear = 12
    BillVendor = {v1, v2}
    BillId = {b1}
    Day = {1, 2}
    BillAmount = {5}
    Undefined = Undefined
    Subscription = {s1}
    MonthLength <- MCMonthLength
    BillingDay = {1, 2, 6}
    LastDay = 10
    MaxPatches = 1
    NoDate = NoDate
    RateId = {r1}
    TaxCode = {"std"}
    Jurisdiction = {"GLOBAL"}
    BasisPoints = {825, 20000}
    LinePoints <- MCLinePoints
    LineAmount = {0, 7, 99}
    TaxDay = {1, 2}
    MaxDocument = 2
    NoValue = NoValue
    Record <- MCRecord
    MaxFrom = 2
    MaxTo = 2
    MaxDistance = 5
    MaxPartialDistance = 2
    NoReference = NoReference
    ApprovalId = {a1, a2}
    Threshold = {1}
    GatedAmount = {0, 1}
    NoId = NoId
    Result = {q1}
    Candidate = {k1, k2}
    Item = {i1, i2, i3}
    ItemContent <- MCItemContent
    Feed <- MCFeed
    PageSize = 3
    Pull = {p1, p2}
    MaxTime = 2
    Interval = 2
    NoCursor = NoCursor
    Source = {"s1", "s2"}
    ExternalId = {"x1", "x2"}
    MaxAnswers = 4
    Sent = {"good", "broken"}
    Detail = {"d1", "d2"}
    Broken = {"broken"}
    Nothing = Nothing
    Name = {n1, n2}
    Limit = 1
    MaxCustomers = 3
    MaxMillis = 1
    NoName = NoName
    BalanceEvent <- MCBalanceEvent
    BalanceCustomer = {"c1", "c2"}
    Nobody = "nobody"
    JournalEntry <- MCJournalEntry
    OpenInvoice <- MCOpenInvoice
    TaxDocument <- MCTaxDocument
    MonthStart <- MCMonthStart
    OutflowSeries <- MCOutflowSeries
    LateDays = {1, 7, 40}
    MaxHistory = 3
    NoDueDate = NoDueDate
    Tenant = {"t1", "t2"}
    Invoice = {1, 2}
    PayableBill = {3}
    Input <- MCInput
    EventId = {1, 2, 3}
    LoggedTogether = {"bill.approved", "payment.allocated", "payment.recorded"}
    Subscriber = {11, 12}
    BusEvent = {1, 2}
    EventTypeOf <- MCEventTypeOf
    MaxFailures = 1
CHECK_DEADLOCK FALSE
INVARIANTS
    BackOfficeTypeOK
    PositionsAgree
    ListsAreComplete
    DeliveriesCountOnce
    ApprovalsAndMatches
    CalculationsAreExact
PROPERTY
    BillingIsExact
