CONSTANTS
    Invoices = {i1}
    Payments = {p1, p2, p3}
    Workers = {w1, w2, w3}
    Totals = {0, 2, 3}
    Amounts = {1, 2}
    NoInvoice = NoInvoice
SPECIFICATION FairSpec
INVARIANTS
    RefundsWithinPayments
    OverpaidOnlyByLateEdit
    PaidIsCovered
PROPERTIES
    PaidLeftOnlyByRefund
    CancelledIsFinal
    PastDueIsFlagged
CHECK_DEADLOCK FALSE
