SPECIFICATION Spec
CONSTANTS
    p1 = p1
    p2 = p2
    r1 = r1
    m1 = m1
    m2 = m2
    x1 = x1
    None = None
    Procs = {p1, p2}
    Readers = {r1}
    Modules = {m1, m2}
    Parts = {x1}
    MaxBoots = 2
    GenLimit = 2
    PendingFails = FALSE
    InvalidFails = FALSE
    LockFails = FALSE
SYMMETRY Symmetry
INVARIANTS
    TypeOK
    OneWriter
    LostStaysUnknown
    DefiniteIsTrue
    SnapshotIsTrue
