SPECIFICATION BillingSpec
CONSTANTS
    Estimates = {e1}
    Invoices = {i1, i2, i3}
    NoRow = NoRow
    Workers = {w1, w2}
    QuantityParts = 2
    PercentParts = 20
    RateParts = 4000
    Contents <- MCContents
    e1 = e1
    i1 = i1
    i2 = i2
    i3 = i3
    w1 = w1
    w2 = w2
SYMMETRY Symmetry
INVARIANTS
    NumberedInSequence
    ConvertedOnce
    ConvertedAsQuoted
    AmountsAddUp
