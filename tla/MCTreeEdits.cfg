\* Three folders and a file, under every request of a person or an operator.
CONSTANTS
    d1 = d1
    d2 = d2
    d3 = d3
    f1 = f1
    Folders = {d1, d2, d3}
    Files = {f1}
    Root = Root
    NoParent = NoParent
    MaxDepth = 2
    Batch = 2
    Events = {"create", "copy", "move", "trash", "restore", "home", "remove", "purge"}
SPECIFICATION Spec
SYMMETRY MCIds
INVARIANTS
    DepthBounded
    RemovedHidden
    UndoBringsBack
CHECK_DEADLOCK FALSE
