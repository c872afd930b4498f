\* A line torn within a character.
CONSTANTS
    Releases = {1}
    MaxEntries = 3
    MaxAppends = 3
    MaxMishaps = 1
SPECIFICATION LogSpec
CHECK_DEADLOCK FALSE
INVARIANT TornCostsNotTheLog
