\* Two market days, three timezones, two ticks at once, an odd answer or a restart.
CONSTANTS
    MaxDate = 2
    MaxTicks = 2
    Shifts <- MCShifts
    MaxMishaps = 1
SPECIFICATION Spec
INVARIANTS
    CachePublishable
    PublishedIsCached
PROPERTIES
    KeptWhileNeeded
    NeededArrives
