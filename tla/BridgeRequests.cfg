SPECIFICATION Spec
CONSTANTS
    Runner = runner
    Clock = clock
    Screen = screen
    Install = install
    Repair = repair
    Connections <- MCConnections
    FaultsBounded = FALSE
    MaxFaults = 0
    Wishes = {"screen", "repair", "install", "cancel", "forget"}
    MaxRequests = 0
    MaxOffers = 1
INVARIANTS
    TypeOK
    OneClient
    NoOrphan
    UpdateKeepsItsLink
    ClickStaysOnItsLink
    ForgottenIsStill
CHECK_DEADLOCK FALSE
