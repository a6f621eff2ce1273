\* Two days and the start of a third, daylight saving or not, one crash or unload.
CONSTANTS
    DayLength = 6
    Hold = 2
    Change = 9
    Jumps <- MCJumps
    TickGap = 3
    Horizon = 19
    Window = 1
    MinPercent = 50
    MaxGap = 2
    MaxObs = 2
    MaxPrices = 1
    MaxDowns = 1
SPECIFICATION Spec
INVARIANTS
    CoveredOnce
    BothSeeExport
    Bounded
PROPERTIES
    HeldBrieflyUnlessPutBack
    SummarisedBeforeDropped
