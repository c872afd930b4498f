\* An updaterd that starts while `updaterd install` is at its trial.
CONSTANTS
    Components = {1}
    Versions = {1}
    Inodes = {1, 2, 3, 4, 5}
    Overlap = TRUE
    MaxArms = 1
    MaxStarts = 1
    MaxFaults = 0
    MaxPowerCuts = 0
SPECIFICATION CounterSpec
CHECK_DEADLOCK FALSE
INVARIANT ConfirmedStaysClear
