\* A link fails with datagrams waiting for it.
SPECIFICATION Spec
CONSTANTS
    x = x
    Address = {x}
    Faults = {"failed"}
    Extra <- NoExtra
    max_connection_attempts = 3
    MaxAgents = 2
    MaxSends = 1
    MaxMoves = 0
    MaxQueued = 1
PROPERTIES
    QueuedUntilConnects
CHECK_DEADLOCK FALSE
