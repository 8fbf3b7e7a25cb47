CONSTANTS
    WeekLength = 2
    MonthStarts <- MCMonthStarts
    Ongoing = Ongoing
    Rules = {r1}
    NoRule = NoRule
    NoDate = NoDate
    CeleryWorkers = {w1, w2}
    RuleChoices <- MCChoices
    Slots <- MCSlots
    Window = 3
    LastDay = 1
SPECIFICATION RecurringSpec
SYMMETRY Symmetry
INVARIANTS
    OccurrenceOnce
    RunCoversWindow
