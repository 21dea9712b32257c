SPECIFICATION Spec
CONSTANTS
    pool = pool
    session = session
    repo = repo
    user = user
    guard = guard
    mount = mount
    router = router
    mounted = mounted
    updated = updated
    included = included
    Root = Root
    Mounts = {mount}
    Includes = {router}
    Endpoints = {mounted, updated, included}
    Param = "param"
    Segments = {"r", "m", "x", "y", "param"}
    Template <- MCTemplate
    Methods <- MCMethods
    Apps <- MCApps
    Requests <- MCRequests
    Followed <- MCFollowed
    Guard = guard
    Tasks = {main, t1}
    Main = main
    Calls = {pool, session, repo, user, guard}
    Roots = {session, repo}
    Generators = {pool, session, repo}
    Deps <- MCDeps
    RouteDeps <- MCRouteDeps
INVARIANTS
    TypeOK
    OneInstance
    DownBehindRoute
    DependentsFirstOtherwise
    MatchedIsRouted
    MatchedIsListed
    MatchedIsFound
    GuardRuns
PROPERTIES
    AllTornDown
CHECK_DEADLOCK FALSE
