\* Two dialogs over one entry: setup to its end, then options saves.
CONSTANTS
    None = None
    pw = pw
    en = en
    td = td
    tp = tp
    pr = pr
    up = up
    ow = ow
    n1 = n1
    n2 = n2
    Sources = {pw, en, td, tp, pr, up, ow}
    Own = {ow}
    Unregistered = {up}
    Registry <- MCRegistry
    Markets = {n1, n2}
    Priced = {n1, n2}
    Kind <- MCKind
    Areas <- MCAreas
    Country <- MCCountry
    d1 = d1
    d2 = d2
    Flows = {d1, d2}
    Legacy <- MCLegacy
    MaxSaves = 2
    MeasurementAnswers <- MCMeasurementAnswers
    MarketAnswers <- MCMarketAnswers
    SupplierAnswers <- MCSupplierAnswers
    GridAnswers <- MCGridAnswers
    BindingAnswers <- MCBindingAnswers
    CompatibilityAnswers <- MCCompatibilityAnswers
    InsightAnswers <- MCInsightAnswers
    Rates = {25}
    Markups = {3}
SPECIFICATION Spec
INVARIANTS
    SharedOnlyIfStale
    AreaOfItsMarket
PROPERTIES
    EntryIsWhatWasTyped
    VatOnlyConfirmed
    MeterPeriodIsTold
SYMMETRY DialogsAlike
CHECK_DEADLOCK FALSE
