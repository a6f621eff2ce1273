\* Two days and the start of a third, days of two hours, one crash, unload or clock set back.
CONSTANTS
    HourLength = 3
    HoursPerDay = 2
    HistoryDays = 1
    MinPercent = 60
    Horizon = 12
    Quotes <- MCQuotes
    MaxQuotes = 2
    MaxBack = 2
    MaxMishaps = 1
SPECIFICATION Spec
INVARIANTS
    HoursAreExact
    ClosedIsSaved
    FileRestores
