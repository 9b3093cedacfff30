\* One object, nothing lost: copying and deleting under fair jobs.
CONSTANTS
    Objects <- OneObject
    Strays <- None
    Reported <- None
    Losable <- None
    Faults <- None
    HasReplica = TRUE
SPECIFICATION OutboxSpec
PROPERTIES
    OutboxCompletes
    LiveReplicates
CHECK_DEADLOCK FALSE
