\* One tab that fails, closes and reloads while nodes are created and moved about.
SPECIFICATION Spec
CONSTANTS
    t1 = t1
    t2 = t2
    Nodes = {1, 2, 3}
    Folders = {1, 2}
    Tree <- MCPair
    Tabs = {t1}
    Page = 1
    Events = {"move", "purge", "create", "close", "fail", "amid", "local"}
    MaxSeq = 5
    Polled = 3
    Own = TRUE
    Visited = FALSE
    MaxQueued = 1
INVARIANTS
    CopiesFaithful
CHECK_DEADLOCK FALSE
