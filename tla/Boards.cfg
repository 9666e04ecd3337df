SPECIFICATION BoardsSpec
INVARIANTS
    BoardTypesOK
    GesturesAreMeant
    GlassIsFrame
PROPERTIES
    HistorySurvives
    HardwareAgrees
CHECK_DEADLOCK FALSE
CONSTANTS
    TrendIn <- MCTrendIn
    CardIn <- MCCardIn
