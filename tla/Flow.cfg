\* Every fault: outages, dips, a clock set back, an exchanged meter, another source, restarts.
CONSTANTS
    MaxDay = 2
    MaxEnergy = 2
    MaxResets = 1
    MonthOf <- MCMonthOf
    Faults = {"dip", "clock", "replacement", "rebind"}
SPECIFICATION Spec
INVARIANTS
    DayHoldsOnlyItsOwnEnergy
    NothingBookedTwice
    RestartKeepsCounter
PROPERTIES
    HighWaterOnlyLoweredByUser
    ImplementsAccounting
