SPECIFICATION Spec
CONSTANTS
    Workers = {w1, w2}
    Slots = {1}
    Keys = {k1, k2}
    Snaps = {s1, s2, s3}
    HLS_SNAP_RETIRE_DEPTH = 1
    MaxLeaks = 1
VIEW View
SYMMETRY Symmetry
INVARIANTS NoUseAfterFree SlotStable OneOwner ClosingAccounted
