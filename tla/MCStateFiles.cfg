\* pending.json, one process at a time, and the update log; errors, kills and power cuts in both.
CONSTANTS
    Components = {1, 2}
    Versions = {1, 2}
    Inodes = {1, 2}
    Overlap = FALSE
    MaxArms = 2
    MaxStarts = 2
    MaxFaults = 1
    MaxPowerCuts = 1
    Releases = {1, 2}
    MaxEntries = 2
    MaxAppends = 5
    MaxMishaps = 2
SPECIFICATION StateSpec
CHECK_DEADLOCK FALSE
INVARIANTS ArmedIsDurable BlacklistIsTrue
PROPERTY ImplementsTrialRecord
