SPECIFICATION Spec
CONSTANTS
    f1 = f1
    f2 = f2
    u1 = u1
    u2 = u2
    u3 = u3
    c1 = c1
    r1 = r1
    r2 = r2
    None = None
    Files = {f1}
    Uploads = {u1, u2}
    Copies = {}
    Requests = {r1, r2}
    SizeOf <- MCSizeOf
    Allowance = 3
    MaxEpoch = 1
SYMMETRY MCSymmetry
INVARIANTS
    TypeOK
    ReadyIsStored
    KeysNamed
PROPERTIES
    ResolvedForGood
CHECK_DEADLOCK FALSE
