\* A select whose apply action fails.
CONSTANTS
    Components = {1}
    Versions = {1, 2, 3}
    Golden <- DaemonGolden
    Factory <- DaemonFactory
    KeepPrevious <- KeepOne
    SocketGate = {1}
    MaxBoots = 2
    Commands = {"latest", "select"}
    Faults = {}
    MaxCommands = 2
    MaxCrashes = 0
SPECIFICATION Spec
CHECK_DEADLOCK FALSE
PROPERTY TrialEndsWithVerdict
