SPECIFICATION FairSpec
PROPERTIES
    CameraIsReleased
    FramesArrive
    TurnsEnd
CONSTANTS
    TrendIn <- MCTrendIn
    CardIn <- MCCardIn
