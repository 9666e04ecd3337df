SPECIFICATION FairSpec
CONSTANTS
    Runner = runner
    Clock = clock
    Screen = screen
    Install = install
    Repair = repair
    Connections <- MCConnections
    FaultsBounded = TRUE
    MaxFaults = 2
    Wishes = {"screen", "repair"}
    MaxRequests = 2
    MaxOffers = 1
PROPERTIES
    RepairFinishes
CHECK_DEADLOCK FALSE
