SPECIFICATION Spec
CONSTANTS
    repo = repo
    session = session
    clock = clock
    fake = fake
    fakeClock = fakeClock
    NoCtx = NoCtx
    Tasks = {t1, t2}
    Ctxs = {c1, c2}
    Calls = {repo, session, clock, fake}
    Roots = {repo, session}
    Generators = {session}
    FanOut = FALSE
    MaxOpen = 1
    MaxDepth = 5
    Deps <- MCDeps
    Within <- MCWithin
    Overrides <- MCOverrides
INVARIANTS
    TypeOK
    SingleInstance
    NeverStale
    ReusesOuter
    NoUseAfterTeardown
    ClosedQuietly
    NoCircularWait
PROPERTIES
    LocksHonoured
SYMMETRY TaskSymmetry
