\* A folder and a file uploaded into it, under the jobs that delete for ever.
CONSTANTS
    d1 = d1
    f1 = f1
    Folders = {d1}
    Files = {f1}
    Root = Root
    NoParent = NoParent
    MaxDepth = 2
    Batch = 1
    Events = {"create", "upload", "move", "trash", "restore", "home", "purge", "jobs"}
SPECIFICATION LiveSpec
INVARIANTS
    WellFormed
PROPERTIES
    PurgedForGood
    NothingShownPurged
    DeletedGoes
CHECK_DEADLOCK FALSE
