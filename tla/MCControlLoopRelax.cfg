\* Enabled and told to relax, in the same tick.
CONSTANTS
    Clients = {"pad"}
    Modes = {"walk", "roller"}
    FileMode = "walk"
    Loads = {"walk"}
    Skills <- WalkSkills
    LimpFallOn = FALSE
    RampTicks = 1
    SitTicks = 1
    FallTicks = 1
    Requests = {"enable", "relax"}
    MaxRequests = 2
    MaxFaults = 0
    MaxRestarts = 0
SPECIFICATION LoopSpec
CHECK_DEADLOCK FALSE
PROPERTY RelaxHolds
