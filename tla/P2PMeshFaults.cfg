\* Every failure of libjuice, nobody leaves; a new agent may take an old one's place.
SPECIFICATION Spec
CONSTANTS
    x = x
    y = y
    Address = {x, y}
    Faults = {"create", "description", "gather", "disconnected", "failed"}
    Extra <- Datagrams
    max_connection_attempts = 1
    MaxAgents = 2
    MaxSends = 2
    MaxMoves = 0
    MaxQueued = 1
SYMMETRY AddressSymmetry
INVARIANTS
    TypeOK
    SentInOrder
    NothingWaitsWhenUp
PROPERTIES
    RemoteSetOnce
CHECK_DEADLOCK FALSE
