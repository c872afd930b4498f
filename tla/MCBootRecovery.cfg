\* The engine, the boot check and the rescue, power cycles at any time.
CONSTANTS
    Components = {1}
    Versions = {1, 2, 3}
    Golden <- One
    Factory <- One
    KeepPrevious <- One
    SocketGate = {1}
    MaxBoots = 2
    Commands = {"latest", "select"}
    Faults = {"swap", "boots", "journal"}
    MaxCommands = 2
    MaxCrashes = 2
    Tree = 1
    Dead = {3}
    MaxCuts = 1
    MaxByHand = 1
SPECIFICATION FairNetSpec
CHECK_DEADLOCK FALSE
INVARIANTS TrialNamesLive RescuedOnce
PROPERTIES RescueSticks DeadReleaseReplaced ImplementsRescueProtocol
