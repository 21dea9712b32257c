SPECIFICATION Spec
CONSTANTS
    Tasks = {t1, t2, t3, t4}
    MaxWork = 3
    Detached = FALSE
INVARIANTS
    TypeOK
    MutualExclusion
    DepthMatchesBlocks
    OwnershipIsCurrent
    NoReleaseError
    NoLostWakeup
PROPERTIES
    KeepsPromise
    WaiterServed
