\* The bounds of MCCaptureLife, for the comment in ctx.c that no count reaches
\* 0 outside the unlinking.
SPECIFICATION Spec
CONSTANTS
    Requests = {u1}
    Builders = {b1}
    Life = {t1}
    g_n_pump_threads = 1
    None = None
    Ctxs = {c1, c2}
    Snaps = {s1, s2, s3}
    Keys = {k1}
    MortalKeys = {k1}
    Jobs = {j1}
    SNAPSHOT_SLACK = 0
    MaxOom = 1
SYMMETRY Symmetry
INVARIANT ZeroIsUnlinked
