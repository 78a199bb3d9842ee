SPECIFICATION Spec
CONSTANTS
    Kinds = {"modern", "legacy", "alien"}
    MaxLoads = 3
    SwapsDuringDelete = FALSE
INVARIANTS
    TypeOK
    OnlyOurs
    ReadyIsRemembered
