\* Two devices walk the rotations of an owner's folder, file and share.
SPECIFICATION Spec
CONSTANTS
    w1 = w1
    w2 = w2
    NoWalker = NoWalker
    Nodes = {1, 2, 3}
    Folders = {1, 2}
    Tree <- MCShort
    Walkers = {w1, w2}
    Edits = {"move", "share"}
    Group = FALSE
    MaxEpoch = 5
    MaxRev = 1
SYMMETRY MCDevices
INVARIANTS
    KeysOpen
PROPERTIES
    GrantsSeen
    KeyedOncePerRotation
CHECK_DEADLOCK FALSE
