SPECIFICATION Spec
CONSTANTS
    i1 = i1
    i2 = i2
    p1 = p1
    p2 = p2
    Invoice <- MCInvoice
    Payment <- MCPayment
    Price <- MCPrice
    Discount <- MCDiscount
    Received <- MCReceived
    Amount <- MCAmount
    MaxLines = 1
    MaxItems = 2
    MaxEvents = 4
SYMMETRY Symmetry
CHECK_DEADLOCK FALSE
INVARIANTS
    TypeOK
    BooksBalance
    InvoicesFollowAllocations
    OverAllocationNeedsARepeatedInvoice
    ReceivableRightInOrder
