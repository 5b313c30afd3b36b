\* libjuice works; the two leave and join while links are dialled and
\* descriptions are on the way.
SPECIFICATION FairSpec
CONSTANTS
    x = x
    Address = {x}
    Faults = {}
    Extra <- FirstCandidate
    max_connection_attempts = 3
    MaxAgents = 2
    MaxSends = 1
    MaxMoves = 2
    MaxQueued = 1
INVARIANTS
    LinkOnlyToMember
    LinkEndInFlight
PROPERTIES
    DialConnects
    LinkEndsWithMember
CHECK_DEADLOCK FALSE
