SPECIFICATION FairSpec
CONSTANTS
    Commands = {"plain", "panic", "halt"}
    FaultPoints = {"poll", "browser", "draw", "timer"}
    QueueRoom = 2
    MaxTyped = 3
INVARIANTS
    WindowIsArmed
    NothingLeftInService
PROPERTIES
    OnlyFaultsStopIt
    InputIsHandled
CHECK_DEADLOCK FALSE
