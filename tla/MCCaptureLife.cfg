\* A request, a list builder, a lifecycle thread and a pump over two contexts
\* of one source that can die, with one allocation that fails.
SPECIFICATION Spec
CONSTANTS
    Requests = {u1}
    Builders = {b1}
    Life = {t1}
    g_n_pump_threads = 1
    None = None
    Ctxs = {c1, c2}
    Snaps = {s1, s2, s3}
    Keys = {k1}
    MortalKeys = {k1}
    Jobs = {j1}
    SNAPSHOT_SLACK = 0
    MaxOom = 1
SYMMETRY Symmetry
INVARIANTS NoUseAfterFree RefsExact OneSource
