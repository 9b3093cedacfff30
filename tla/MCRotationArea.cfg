\* A group's area, re-keyed by rosters and walked by one device, under every edit but shares.
SPECIFICATION LiveSpec
CONSTANTS
    w1 = w1
    w2 = w2
    NoWalker = NoWalker
    Nodes = {1, 2, 3}
    Folders = {1, 2}
    Tree <- MCFolder
    Walkers = {w1}
    Edits = {"create", "upload", "move", "trash", "purge", "restore"}
    Group = TRUE
    MaxEpoch = 5
    MaxRev = 2
INVARIANTS
    AreaKeysOpen
    LockedOut
PROPERTIES
    RotationFinishes
CHECK_DEADLOCK FALSE
