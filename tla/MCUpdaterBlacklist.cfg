\* One apply, killed after its swap, and the boots that revert it.
CONSTANTS
    Components = {1}
    Versions = {1, 2, 3}
    Golden <- DaemonGolden
    Factory <- DaemonFactory
    KeepPrevious <- KeepOne
    SocketGate = {1}
    MaxBoots = 2
    Commands = {"latest"}
    Faults = {}
    MaxCommands = 1
    MaxCrashes = 3
SPECIFICATION Spec
CHECK_DEADLOCK FALSE
INVARIANT LiveNotBlacklisted
