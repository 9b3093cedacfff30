\* Two tabs of one device, and writes between the statements of a listing.
SPECIFICATION LiveSpec
CONSTANTS
    t1 = t1
    t2 = t2
    Nodes = {1, 2}
    Folders = {1}
    Tree <- MCPair
    Tabs = {t1, t2}
    Page = 1
    Events = {"touch", "purge", "drop"}
    MaxSeq = 4
    Polled = 2
    Own = FALSE
    Visited = TRUE
    MaxQueued = 1
INVARIANTS
    CopiesFaithful
PROPERTIES
    TabsCatchUp
CHECK_DEADLOCK FALSE
