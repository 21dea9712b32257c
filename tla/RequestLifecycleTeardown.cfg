SPECIFICATION Spec
CONSTANTS
    pool = pool
    session = session
    repo = repo
    user = user
    guard = guard
    mount = mount
    router = router
    mounted = mounted
    updated = updated
    included = included
    Root = Root
    Mounts = {mount}
    Includes = {router}
    Endpoints = {mounted, updated, included}
    Param = "param"
    Segments = {"r", "m", "x", "y", "param"}
    Template <- MCTemplate
    Methods <- MCMethods
    Apps <- MCApps
    Requests <- MCRequests
    Followed <- MCFollowed
    Guard = guard
    Tasks = {main}
    Main = main
    Calls = {pool, session, repo, user, guard}
    Roots = {pool, session, repo}
    Generators = {pool, session, repo}
    Deps <- MCDeps
    RouteDeps <- MCRouteDeps
INVARIANT DependentsFirst
CHECK_DEADLOCK FALSE
