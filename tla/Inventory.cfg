CONSTANTS
    Items = {i1}
    Workers = {w1, w2, w3}
    Quantities = {0, 2}
    Deltas <- ChangesByOneOrTwo
    MaxQuantity = 3
    MaxEntries = 3
    NoItem = NoItem
SPECIFICATION Spec
PROPERTY KeepsLedger
CHECK_DEADLOCK FALSE
