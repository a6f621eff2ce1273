\* Restarts and reloads around midnight.
CONSTANTS
    MaxDay = 2
    MaxPower = 2
SPECIFICATION Spec
INVARIANTS
    NoPeakOfAnotherDay
    PeakCoversItsReadings
