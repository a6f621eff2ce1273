\* Reloads, crashes and stops of an entry with a Workday entity.
CONSTANTS
    MaxChanges = 3
    MaxLoads = 3
    Workday = TRUE
    Crashes = TRUE
    WriteErrors = TRUE
SPECIFICATION Spec
INVARIANTS
    NothingLeftUnsaved
    ResetSurvivesUnlessOutlived
PROPERTY EventuallySaved
