SPECIFICATION Spec
CONSTANTS
    MaxSegs = 2
    MaxParts = 2
    MaxFrags = 3
    MaxRelocks = 1
    MaxOpens = 2
    MaxForeign = 1
CHECK_DEADLOCK FALSE
INVARIANTS SegNamesOnce TracksAligned ReadyImpliesTracks NoPartLost
PROPERTY AvailableSticks
