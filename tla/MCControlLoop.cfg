\* Two clients and the control loop, with restarts and faults.
CONSTANTS
    Clients = {"pad", "phone"}
    Modes = {"walk", "roller"}
    FileMode = "walk"
    Loads = {"walk"}
    Skills <- WalkSkills
    LimpFallOn = TRUE
    RampTicks = 1
    SitTicks = 1
    FallTicks = 2
    Requests = {"enable", "toggle", "init", "relax", "skill", "mode", "shutdown", "battery"}
    MaxRequests = 2
    MaxFaults = 1
    MaxRestarts = 1
SPECIFICATION FairLoopSpec
CHECK_DEADLOCK FALSE
INVARIANTS UpIsPowered PosesOnlyItsOwn
PROPERTIES RaisedOnlyIfAsked SwapsAtHome LimpFallEnds ShutdownHappens EnabledDrives ComesToRest
