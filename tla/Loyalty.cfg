CONSTANTS
    Accounts = {a1}
    Orders = {o1}
    Grants = {g1, g2}
    Runs = {r1, r2}
    Points = {1, 2}
    Settings <- TwoSettings
    MaxCrashes = 1
    NoAccount = NoAccount
SPECIFICATION FairSpec
INVARIANTS
    NeverTakesMoreThanGranted
    BilledOnce
PROPERTIES
    TierFollowsPoints
    DueGrantsExpire
    KeepsLedger
CHECK_DEADLOCK FALSE
