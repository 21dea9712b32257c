SPECIFICATION Spec
CONSTANTS
    repo = repo
    session = session
    clock = clock
    fake = fake
    fakeClock = fakeClock
    NoCtx = NoCtx
    Tasks = {t1, t2}
    Ctxs = {c1}
    Calls = {repo, session, clock, fake}
    Roots = {repo, session}
    Generators = {session}
    FanOut = TRUE
    MaxOpen = 1
    MaxDepth = 5
    Deps <- MCDeps
    Within <- MCWithin
    Overrides <- MCOverrides
INVARIANT SingleInstance
