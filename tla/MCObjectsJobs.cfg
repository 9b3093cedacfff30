\* One object and a stray key under every job, with a lost primary copy and a report; the
\* primary audit is fair.
CONSTANTS
    Objects <- TwoObjects
    Strays <- LastIsStray
    Reported <- OnlyFirst
    Losable <- OnlyFirst
    Faults <- Lost
    HasReplica = TRUE
SPECIFICATION AuditSpec
INVARIANTS
    TypeOK
    ReplicatedIsHeld
    MissingIsReal
PROPERTIES
    DeletedInTurn
    LostIsRecovered
CHECK_DEADLOCK FALSE
