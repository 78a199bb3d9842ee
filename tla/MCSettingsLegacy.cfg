SPECIFICATION Spec
CONSTANTS
    kagamid = kagamid
    gen = gen
    nobody = nobody
    Daemon = kagamid
    Nobody = nobody
    Generators = {gen}
    Documents <- MCDocuments
    Patches <- MCPatches
CHECK_DEADLOCK FALSE
PROPERTY LegacyStaysHonored
