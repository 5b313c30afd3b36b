\* A link fails and is built again at the same address.
SPECIFICATION Spec
CONSTANTS
    x = x
    Address = {x}
    Faults = {"failed"}
    Extra <- Candidates
    max_connection_attempts = 3
    MaxAgents = 2
    MaxSends = 2
    MaxMoves = 0
    MaxQueued = 2
PROPERTIES
    StraysIgnored
CHECK_DEADLOCK FALSE
