SPECIFICATION Spec
CONSTANTS
    Runner = runner
    Clock = clock
    Screen = screen
    Install = install
    Repair = repair
    Connections <- MCConnections
    FaultsBounded = FALSE
    MaxFaults = 0
    Wishes = {"install"}
    MaxRequests = 0
    MaxOffers = 1
INVARIANTS
    LinkLossIsReported
CHECK_DEADLOCK FALSE
