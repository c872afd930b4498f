\* One component, every I/O step of the engine may fail.
CONSTANTS
    Components = {1}
    Versions = {1, 2, 3}
    Golden <- DaemonGolden
    Factory <- DaemonFactory
    KeepPrevious <- KeepOne
    SocketGate = {1}
    MaxBoots = 2
    Commands = {"latest", "exact", "rollback", "golden", "select"}
    Faults = {"publish", "arm", "swap", "confirm", "prune", "journal", "boots"}
    MaxCommands = 3
    MaxCrashes = 2
SPECIFICATION Spec
CHECK_DEADLOCK FALSE
INVARIANT CurrentInstalled
PROPERTIES ImplementsProtocol
