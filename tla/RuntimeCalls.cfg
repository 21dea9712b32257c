SPECIFICATION Spec
CONSTANTS
    NoDep = NoDep
    clock = clock
    role = role
    describe = describe
    log = log
    given = given
    fake = fake
    first = first
    second = second
    Tasks = {t1, t2}
    Calls = {clock, role, describe, log, given, fake, first, second}
    Static = {clock, role, describe, log}
    Objects = {first, second}
    Signs <- MCSigns
    Recipes <- MCRecipes
    Extensions <- MCExtensions
    Roots = {role, given, first, second}
    AppOverrides <- NoOverrides
    Entries <- MCEntries
    MaxBlocks = 2
INVARIANTS
    TypeOK
    NothingKept
    ProxiesServe
    OneEntry
    ArgumentsInPlace
    BlocksRestore
CHECK_DEADLOCK FALSE
