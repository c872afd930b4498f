\* Two components sharing the lock, pending.json and the update log.
CONSTANTS
    Components = {1, 2}
    Versions = {1, 2, 3}
    Golden <- DaemonGolden
    Factory <- DaemonFactory
    KeepPrevious <- KeepOne
    SocketGate = {1}
    MaxBoots = 2
    Commands = {"latest", "exact", "rollback", "golden", "select"}
    Faults = {"publish", "arm", "prune", "journal"}
    MaxCommands = 3
    MaxCrashes = 2
SPECIFICATION FairSpec
CHECK_DEADLOCK FALSE
INVARIANTS TypeOK NoExhaustedTrialServed
PROPERTIES ApplyTrialEndsWithVerdict GoldenKept StartupServes
