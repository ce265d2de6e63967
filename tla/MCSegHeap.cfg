SPECIFICATION Spec
CONSTANTS
    Snaps = {s1, s2, s3}
    Bufs = {b1, b2, b3}
    Sends = {c1}
    MaxSegs = 2
SYMMETRY Symmetry
INVARIANT RefsExact
PROPERTY Frozen
