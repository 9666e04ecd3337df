SPECIFICATION PanelsSpec
INVARIANTS
    TypesOK
    ScreensAreCurrent
    SettingsAreStored
    PaperIsClean
PROPERTIES
    OneTonePerRaise
    PromptsAreSeen
    FinalFrameIsSeen

CONSTANTS
    AmoledIn <- MCAmoledIn
    RlcdIn <- MCRlcdIn
    EpaperIn <- MCEpaperIn
    PicoIn <- MCPicoIn
