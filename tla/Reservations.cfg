CONSTANTS
    Tables = {1}
    NoTable = 99
    Reservations = {r1, r2}
    NoReservation = NoReservation
    Entries = {e1}
    NoEntry = NoEntry
    Workers = {w1, w2}
    Parties = {1}
    Capacities = {1}
    Times = {0, 1}
    Durations = {1}
    Buffers = {0}
    DayLength = 1
    OpeningHours <- MCHours
    SettingChoices <- MCSettings
SPECIFICATION Spec
VIEW View
SYMMETRY Symmetry
CONSTRAINT WaitlistAtZero
INVARIANTS
    NoDoubleBooking
    ConvertedOnce
    OfferedIsBookable
PROPERTIES
    OverUnlessOvertaken
