SPECIFICATION FairSpec
CONSTANTS
    p1 = p1
    p2 = p2
    r1 = r1
    m1 = m1
    x1 = x1
    None = None
    Procs = {p1, p2}
    Readers = {r1}
    Modules = {m1}
    Parts = {x1}
    MaxBoots = 1
    GenLimit = 2
    PendingFails = TRUE
    InvalidFails = FALSE
    LockFails = TRUE
INVARIANTS
    DefiniteIsTrue
PROPERTIES
    LockIsReleased
