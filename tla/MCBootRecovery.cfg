SPECIFICATION FairSpec
CONSTANTS
    MaxAttempts = 3
    Polls = 2
    MaxBoots = 6
INVARIANTS
    TypeOK
    BootloopBound
    MountsOncePerBoot
PROPERTIES
    WatcherIsEnough
    FuseSpec
