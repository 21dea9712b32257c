SPECIFICATION Spec
CONSTANTS
    repo = repo
    session = session
    clock = clock
    fake = fake
    fakeClock = fakeClock
    NoCtx = NoCtx
    Tasks = {t1}
    Ctxs = {c1, c2, c3}
    Calls = {repo, session, clock, fake}
    Roots = {repo, session}
    Generators = {session}
    FanOut = FALSE
    MaxOpen = 1
    MaxDepth = 5
    Deps <- MCDeps
    Within <- MCWithin
    Overrides <- MCOverrides
INVARIANTS
    NeverStale
    ReusesOuter
