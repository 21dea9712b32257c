SPECIFICATION Spec
CONSTANTS
    Tasks = {t1, t2, t3}
    MaxWork = 2
    Detached = TRUE
INVARIANT MutualExclusion
