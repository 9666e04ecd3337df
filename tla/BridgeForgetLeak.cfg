SPECIFICATION Spec
CONSTANTS
    Runner = runner
    Clock = clock
    Screen = screen
    Install = install
    Repair = repair
    Connections <- MCConnections
    FaultsBounded = FALSE
    MaxFaults = 0
    Wishes = {"screen", "forget"}
    MaxRequests = 0
    MaxOffers = 1
INVARIANTS
    ForgottenIsReleased
CHECK_DEADLOCK FALSE
