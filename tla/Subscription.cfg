CONSTANTS
    Workers = {w1, w2}
    Customers = {c1}
    NoCustomer = none
    OpeningStatus = {"trialing", "active"}
    MaxSubs = 2
    MaxEvents = 3
SPECIFICATION FairSpec
INVARIANTS
    ExactlyOnce
    LockedOutForAReason
    MirrorsUnlessOvertaken
PROPERTIES
    NeverLocksOutPaying
    LegacyLockedOutByTrialOnly
    PayingIsReactivated
    LapsedIsLockedOut
