\* Lifetime meters and a source of today's energy, around midnights that end a month.
CONSTANTS
    MaxTime = 5
    DayLength = 3
    MonthOf <- MCMonthOf
    MaxFlow = 12
    MaxSegments = 2
    Scenarios <- MCScenarios
SPECIFICATION Spec
INVARIANTS
    TypeOK
    TotalsMatchTheirUnits
    TodayWithinDailyMeter
    NothingPricedTwice
    ExcludedStaysUnpriced
