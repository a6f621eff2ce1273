\* A Workday tick that outlives its coordinator, and a regular stop.
CONSTANTS
    MaxChanges = 3
    MaxLoads = 3
    Workday = TRUE
    Crashes = FALSE
    WriteErrors = FALSE
SPECIFICATION Spec
INVARIANT ConfirmedResetSurvives
