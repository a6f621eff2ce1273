\* Four kinds of entry, three histories, a Friday evening and a Saturday.
CONSTANTS
    HourSlots = 2
    DayHours = 3
    HighWeekdays = {0, 1, 2, 3, 4}
    SeasonStart = 10
    SeasonEnd = 2
    YearDays = 13
    HighStart = 3
    HighEnd = 1
    TolerancePercent = 25
    HistoryDays = 7
    Recency <- MCRecency
    HalfLife = 7
    MinDayTypeSamples = 2
    MinHourSamples = 4
    LookAhead = 4
    Entries <- MCEntries
    Pasts <- MCPasts
    Series <- MCSeries
    Quotes <- MCQuotes
    Durations = {1, 2}
    FirstTime = 67
    Horizon = 73
    NonWorking = {11}
SPECIFICATION Spec
INVARIANTS
    WindowsAreTheCheapest
    TrendIsExact
    SuppressedForABetterHour
    GoodIsInTheCheapestShare
