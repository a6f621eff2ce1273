\* A meter with every fault the guide describes, over a month boundary.
CONSTANTS
    MaxDay = 2
    MaxEnergy = 3
    MonthOf <- MCMonthOf
    Faults = {"outage", "dip", "replacement", "restart"}
SPECIFICATION Spec
INVARIANTS
    TodayNeverOvercounts
    MonthNeverOvercounts
    CompleteDayIsExact
PROPERTY BaselineOnlyLoweredByUser
