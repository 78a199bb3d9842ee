CONSTANTS
    m1 = m1
    m2 = m2
    p1 = p1
    p2 = p2
    Modules = {m1, m2}
    Paths = {p1, p2}
    HiddenBy <- BothHide
    MaxBoots = 2
    Faults = {"adds", "downs", "files", "record", "config", "legacy", "kills"}
SYMMETRY Symmetric
SPECIFICATION Spec
INVARIANTS TypeOK ServedIsThePlan ReportedIsInstalled
PROPERTIES AddedBehindTheGate ModuleHidesSurvive
