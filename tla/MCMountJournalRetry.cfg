SPECIFICATION Spec
CONSTANTS
    Places <- MCPlaces
    Above <- MCAbove
    Work = "work"
    Mirrors <- MCMirrors
    MagicPlan <- MCMagicPlan
    OverlayPlan <- MCOverlayPlan
    Stock <- MCStock
    MaxBoots = 1
    MaxFaults = 1
    Faults = {"reads"}
INVARIANT EverythingTornDown
CHECK_DEADLOCK FALSE
