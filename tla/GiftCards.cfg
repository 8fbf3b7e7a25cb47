CONSTANTS
    Cards = {c1}
    Workers = {w1, w2}
    Amounts = {1, 2}
    MaxBalance = 2
    MaxEntries = 3
    Horizon = 1
    NoCard = NoCard
SPECIFICATION Spec
SYMMETRY Symmetry
INVARIANTS
    SentWasDelivered
PROPERTY KeepsLedger
CHECK_DEADLOCK FALSE
