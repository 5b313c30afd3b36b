\* Someone leaves and joins again while a description is on its way.
SPECIFICATION Spec
CONSTANTS
    x = x
    Address = {x}
    Faults = {}
    Extra <- NoExtra
    max_connection_attempts = 3
    MaxAgents = 3
    MaxSends = 1
    MaxMoves = 2
    MaxQueued = 1
PROPERTIES
    TornDownForRedial
CHECK_DEADLOCK FALSE
