SPECIFICATION Spec
CONSTANTS
    Writers = {w1, w2}
    Inodes = {i1, i2, i3}
    NoWriter = NoWriter
    MaxBoots = 3
    MaxLines = 2
SYMMETRY MCSymmetry
INVARIANTS
    TypeOK
    RotationIsSafe
CHECK_DEADLOCK FALSE
