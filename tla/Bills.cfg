CONSTANTS
    Bills = {b1}
    Payments = {p1, p2, p3}
    BillWorkers = {w1, w2, w3}
    BillTotals = {0, 2, 3}
    BillAmounts = {1, 2}
    NoBill = NoBill
SPECIFICATION BillsSpec
PROPERTIES
    MirrorsInvoice
CHECK_DEADLOCK FALSE
