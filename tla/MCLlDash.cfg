SPECIFICATION Spec
CONSTANTS
    MaxSegs = 1
    MaxParts = 2
    Subs = {d1, d2}
    Protos = {"H1", "H2", "H3"}
    RingCap = 1
    MaxPushes = 2
    MaxCuts = 1
    MaxMoves = 2
    MaxOpens = 2
SYMMETRY Symmetry
CHECK_DEADLOCK FALSE
INVARIANTS PartsInOrder EndedWhole SegmentEnds
