SPECIFICATION Spec
CONSTANTS
    MaxAttempts = 3
    Polls = 2
    MaxBoots = 6
INVARIANT HangsAreStopped
