SPECIFICATION Spec
CONSTANTS
    Places <- MCPlaces
    Above <- MCAbove
    Work = "work"
    Mirrors <- MCMirrors
    MagicPlan <- MCMagicPlan
    OverlayPlan <- MCOverlayPlan
    Stock <- MCStock
    MaxBoots = 2
    MaxFaults = 2
    Faults = {"calls", "registry", "detach", "reads", "deaths", "others"}
INVARIANTS
    TypeOK
    Accounted
    TornDown
PROPERTIES
    OnlyOursDetached
CHECK_DEADLOCK FALSE
