SPECIFICATION FairSpec
CONSTANTS
    s1 = s1
    s2 = s2
    c1 = c1
    c2 = c2
    None = None
    Stale = Stale
    Servers = {s1, s2}
    Clients = {c1, c2}
INVARIANTS
    TypeOK
    ServerIsReached
    CommandsAreSerial
PROPERTIES
    ClientsAreAnswered
    LaunchServes
