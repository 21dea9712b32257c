SPECIFICATION Spec
CONSTANTS
    repo = repo
    session = session
    clock = clock
    fake = fake
    fakeClock = fakeClock
    NoCtx = NoCtx
    Tasks = {t1}
    Ctxs = {c1, c2}
    Calls = {repo, session, clock, fake, fakeClock}
    Roots = {repo, clock}
    Generators = {session}
    FanOut = FALSE
    MaxOpen = 1
    MaxDepth = 5
    Deps <- MCDepsOfFake
    Within <- MCWithin
    Overrides <- MCOverridesBoth
INVARIANT NeverStale
