\* A family of two, its folder, and two transactions open at once.
SPECIFICATION Spec
CONSTANTS
    p1 = p1
    p2 = p2
    area = area
    old1 = old1
    u1 = u1
    u2 = u2
    x1 = x1
    x2 = x2
    Nothing = Nothing
    People = {p1, p2}
    Organizer = p1
    Areas = {area}
    Old = {old1}
    Uploads = {u1, u2}
    Txs = {x1, x2}
    Rank <- MCRank
    Size <- MCSize
    Gib = 2
    Base = 4
    Quotas = {6}
    Kinds <- MCKinds
    OldAt = {p2}
    Attempts = 2
    MaxChanges = 1
SYMMETRY MCTxs
INVARIANTS
    Accounted
    MovesNeverDeadlock
PROPERTIES
    SpendsWithin
    KeepsLedger
    MoveTakesWhatWasRead
    NothingAfterLeaving
CHECK_DEADLOCK FALSE
