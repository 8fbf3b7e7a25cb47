CONSTANTS
    TicksPerHundredth = 2
    DayLength = 1
    DaysPerWeek = 2
    Members = {m1}
    Nobody = Nobody
    Located = {m1}
    Entries = {i1, i2}
    NoEntry = NoEntry
    ClockWorkers = {w1}
    Places = {"door", "yard"}
    Fences <- MCFences
    Periods <- MCPeriods
    Thresholds = {1}
    Rates = {150}
    MaxTime = 4
SPECIFICATION ClockSpec
VIEW View
SYMMETRY Symmetry
CHECK_DEADLOCK FALSE
INVARIANTS
    InactiveNotWorking
    PaidAsWorked
    SplitNeverAddsOvertime
