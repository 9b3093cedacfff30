SPECIFICATION FairSpec
CONSTANTS
    f1 = f1
    f2 = f2
    u1 = u1
    u2 = u2
    u3 = u3
    c1 = c1
    r1 = r1
    r2 = r2
    None = None
    Files = {f1}
    Uploads = {u1, u2}
    Copies = {}
    Requests = {r1}
    SizeOf <- MCSizeOf
    Allowance = 3
    MaxEpoch = 0
CHECK_DEADLOCK FALSE
PROPERTIES
    UploadsResolve
    OutboxDrains
